------------------------------ MODULE AsyncApiRules ------------------------------
(***************************************************************************)
(* The rules of an AsyncAPI 3.0 document: src/asyncapi/asyncapi3.rules.ts, *)
(* asyncapi3.schema.ts and asyncapi3.bindings.ts, over the schemas of      *)
(* OpenApiRules.  What an operation sends is taken like a request and what *)
(* it receives like a response: the rules of a schema are reversed by the  *)
(* scope of the comparison.                                                *)
(*                                                                         *)
(* A schema format is told by the dialect it stands for.                   *)
(***************************************************************************)
EXTENDS OpenApiRules

ASYNCAPI_SCHEMA_FORMAT_DEFAULT == "asyncapi"

isMultiFormatSchema(n) == n.is = "object" /\ Has(n, "schema")

\* Mutant: a schema without a format is not compared with one that has the format in words.
noMultiFormat(side, reference) == side

\* A schema alone, compared with one in a format, is put into the default one.
schemaToMultiFormatSchemaAdapter(side, reference) ==
  LET schema == IF side.home = side.at THEN side.node ELSE Ref(side.home[1])
  IN  IF side.node.is # "object" \/ isMultiFormatSchema(side.node) \/ ~isMultiFormatSchema(reference.node)
      THEN side
      ELSE [side EXCEPT
              !.node = Object([schema |-> schema, schemaFormat |-> Scalar(ASYNCAPI_SCHEMA_FORMAT_DEFAULT)]),
              !.home = side.at, !.first = side.at]

asyncApiAdapt(adapter, side, reference) == schemaToMultiFormatSchemaAdapter(side, reference)

\* firstReferenceKeyProperty: the name an element is referred to by.
FirstReferenceKeys(n) ==
  [i \in DOMAIN n.kids |-> IF n.kids[i].is = "ref" THEN n.kids[i].of ELSE None]

asyncApiMappingOf(c, before, after) ==
  IF c.rules.mapping = "firstReferenceKey"
  THEN ByKeys(FirstReferenceKeys(c.before.node), FirstReferenceKeys(c.after.node))
  ELSE openApiMappingOf(c, before, after)

-----------------------------------------------------------------------------
(***************************************************************************)
(* Schemas.                                                                *)
(***************************************************************************)
getSchemaRulesByFormat(schemaFormat) ==
  IF schemaFormat \in {"asyncapi", "openapi", "json"}
  THEN Unclassified(SchemaKids({schemaFormat, "by scope"})) ELSE NoRules

multiFormatSchemaRules(schemaFormat) ==
  [Unclassified([schemaFormat |-> Leaf("allBreaking"),
                 schema |-> getSchemaRulesByFormat(schemaFormat)] @@ Extensible)
     EXCEPT !.adapters = <<"multiFormat">>]

\* A schema alone, but by the side of one in a format.
asyncApiSchemaRulesWithAdapter ==
  LET rules == getSchemaRulesByFormat("asyncapi")
  IN  [rules EXCEPT !.kids = [schema |-> rules, schemaFormat |-> Leaf("allBreaking")] @@ @,
                    !.adapters = <<"multiFormat">>]

\* By the value of before; or, of one that is added, of after.
schemaOrMultiFormatSchemaRules(value) ==
  IF ~isMultiFormatSchema(value) THEN asyncApiSchemaRulesWithAdapter
  ELSE multiFormatSchemaRules(IF Has(value, "schemaFormat") THEN PropertyOf(value, "schemaFormat")
                              ELSE ASYNCAPI_SCHEMA_FORMAT_DEFAULT)

-----------------------------------------------------------------------------
(***************************************************************************)
(* The tables, by the names of the source.                                 *)
(***************************************************************************)
asyncApiExternalDocumentationRules == Node("allAnnotation", Annotations({"description", "url"}) @@ ExtensibleAnnotated)

tagRules ==
  Node("allAnnotation", Annotations({"name", "description"})
                        @@ [externalDocs |-> asyncApiExternalDocumentationRules] @@ ExtensibleAnnotated)
tagsRules == Mapped(Node("allAnnotation", [any |-> tagRules]), "uniqueItems")

bindingsRules == Everywhere("allUnclassified")
Described == [tags |-> tagsRules, externalDocs |-> asyncApiExternalDocumentationRules, bindings |-> bindingsRules]

asyncApiSecuritySchemeRules ==
  [securitySchemeRules EXCEPT
     !.kids = [scopes |-> Node("addNonBreaking", [any |-> Leaf("addNonBreaking")])] @@ @]

serverVariableRules ==
  Node("allAnnotation",
       [enum |-> UniqueItems(Leaf("allAnnotation"), Leaf("allAnnotation")),
        examples |-> Node("allAnnotation", [any |-> Leaf("allAnnotation")])]
       @@ Annotations({"default", "description"}) @@ ExtensibleAnnotated)

serverRules ==
  Node("allAnnotation",
       Annotations({"host", "protocol", "protocolVersion", "pathname", "description", "title", "summary"})
       @@ [variables |-> Node("allAnnotation", [any |-> serverVariableRules]),
           security |-> Node("allAnnotation", [any |-> Node("allAnnotation", [any |-> Leaf("allAnnotation")])])]
       @@ Described @@ ExtensibleAnnotated)

correlationIdRules == Unclassified(Leaves("allUnclassified", {"description", "location"}) @@ Extensible)

messageExampleRules ==
  Node("allAnnotation", [headers |-> Everywhere("allAnnotation"), payload |-> Everywhere("allAnnotation")]
                        @@ Annotations({"name", "summary"}) @@ ExtensibleAnnotated)

messageRules ==
  Unclassified([headers |-> Lazy("schemaOrMultiFormat"), payload |-> Lazy("schemaOrMultiFormat"),
                correlationId |-> correlationIdRules, contentType |-> Leaf("addNonBreaking"),
                examples |-> Node("allAnnotation", [any |-> messageExampleRules]),
                traits |-> Everywhere("allUnclassified")]
               @@ Annotations({"name", "title", "summary", "description"}) @@ Described @@ Extensible)

asyncApiParameterRules ==
  Unclassified([enum |-> UniqueItems(NoRules, NoRules), default |-> NoRules, location |-> NoRules,
                description |-> Leaf("allAnnotation"),
                examples |-> Node("allAnnotation", [any |-> Leaf("allAnnotation")])] @@ Extensible)

channelRules ==
  Node("addNonBreaking",
       [address |-> NoRules, messages |-> Node("addNonBreaking", [any |-> messageRules]),
        servers |-> Mapped(EachOf(Flagged(NoRules, "ignoreKeyDifference")), "firstReferenceKey"),
        parameters |-> EachOf(asyncApiParameterRules)]
       @@ Annotations({"title", "summary", "description"}) @@ Described @@ Extensible)

replyAddressRules ==
  Unclassified([description |-> Leaf("allAnnotation"), location |-> NoRules] @@ Extensible)

\* Mutant: a reply flows the way of its operation.
replyWithin(isSendAction) ==
  InScope(Unclassified([address |-> replyAddressRules, channel |-> channelRules,
                        messages |-> EachOf(messageRules)] @@ Extensible),
          IF isSendAction THEN "send" ELSE "receive")

operationReplyRules(isSendAction) ==
  InScope(Unclassified([address |-> replyAddressRules, channel |-> channelRules,
                        messages |-> EachOf(messageRules)] @@ Extensible),
          IF isSendAction THEN "receive" ELSE "send")

operationRules(isSendAction) ==
  InScope(Node("operation",
    [security |-> EachOf(asyncApiSecuritySchemeRules), reply |-> operationReplyRules(isSendAction),
     action |-> Leaf("allBreaking"), channel |-> channelRules,
     traits |-> EachOf(Everywhere("allUnclassified")),
     messages |-> Mapped(EachOf(Flagged(Classified(messageRules, "operation"), "ignoreKeyDifference")),
                         "firstReferenceKey")]
    @@ Annotations({"title", "summary", "description"}) @@ Described @@ Extensible),
    IF isSendAction THEN "send" ELSE "receive")

asyncApiRulesOf(rules, value, path) ==
  CASE rules.lazy = "operation" -> operationRules(PropertyOf(value, "action") = "send")
    [] rules.lazy = "schemaOrMultiFormat" -> Classified(schemaOrMultiFormatSchemaRules(value), "allBreaking")
    [] rules.lazy = "asyncComponentSchema" -> schemaOrMultiFormatSchemaRules(value)
    [] OTHER -> openApiRulesOf(rules, value, path)

asyncApiComponentsRules ==
  LET Group(rules) == Node("addNonBreaking", [any |-> rules])
      Trait == Node("addNonBreaking", [any |-> Everywhere("allUnclassified")])
  IN  InScope(Node("allNonBreaking",
        [schemas |-> Group(Lazy("asyncComponentSchema")), servers |-> Group(serverRules),
         channels |-> Group(channelRules), operations |-> Group(Lazy("operation")),
         messages |-> EachOf(messageRules),
         securitySchemes |-> Node("addBreaking", [any |-> asyncApiSecuritySchemeRules]),
         serverVariables |-> Group(serverVariableRules), parameters |-> Group(asyncApiParameterRules),
         correlationIds |-> Group(correlationIdRules), replies |-> Group(operationReplyRules(TRUE)),
         replyAddresses |-> Group(replyAddressRules), externalDocs |-> Group(asyncApiExternalDocumentationRules),
         tags |-> Group(tagRules)]
        @@ [key \in {"operationTraits", "messageTraits"} |-> Group(Trait)]
        @@ [key \in {"serverBindings", "channelBindings", "operationBindings", "messageBindings"} |->
              Group(bindingsRules)]
        @@ Extensible), "components")

infoRules ==
  LET Of(keys) == Node("allAnnotation", Annotations(keys) @@ ExtensibleAnnotated)
  IN  Node("allAnnotation",
        Annotations({"title", "version", "description", "termsOfService"})
        @@ [contact |-> Of({"name", "url", "email"}), license |-> Of({"name", "url"}), tags |-> tagsRules,
            externalDocs |-> asyncApiExternalDocumentationRules] @@ ExtensibleAnnotated)

asyncApi3Rules ==
  Unclassified(
    [asyncapi |-> Leaf("allAnnotation"), id |-> Leaf("allAnnotation"), info |-> infoRules,
     servers |-> Node("allAnnotation", [any |-> serverRules]), defaultContentType |-> NoRules,
     channels |-> EachOf(channelRules), operations |-> Node("addNonBreaking", [any |-> Lazy("operation")]),
     components |-> asyncApiComponentsRules] @@ Extensible)

=============================================================================
