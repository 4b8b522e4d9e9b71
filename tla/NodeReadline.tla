----------------------------- MODULE NodeReadline -----------------------------
(***************************************************************************)
(* `node:readline` (nodejs/src/provider/modules/readline.ts).              *)
(***************************************************************************)
EXTENDS ProviderModel

moduleSpecifier == "node:readline"
optionsId == exportIdOf(moduleSpecifier, "ReadLineOptions")
interfaceId == exportIdOf(moduleSpecifier, "Interface")
interfaceType == providerRef(moduleSpecifier, "Interface")

readlineEvents ==
  {eventDefinition("line", {"line"}, <<stringType>>, <<nativeString>>),
   eventDefinition("error", {"error"}, <<errorType>>, <<errorCarrier>>),
   eventDefinition("empty", {"pause", "resume", "close"}, <<>>, <<>>)}

readlineModule ==
  LET question == signatureIdOf(memberIdOf(interfaceId, "question"), <<"query", "callback">>)
      callback == providerCallbackType(question, "callback", <<stringType>>)
      method(name, parameters, result) == methodMember(interfaceId, name, parameters, result)
  IN  {interfaceExport(optionsId,
         {propertyMember(optionsId, "input", providerRef("node:stream", "Readable"), FALSE, FALSE),
          propertyMember(optionsId, "output", providerRef("node:stream", "Writable"), FALSE, TRUE),
          propertyMember(optionsId, "terminal", booleanType, FALSE, TRUE),
          propertyMember(optionsId, "prompt", stringType, FALSE, TRUE),
          propertyMember(optionsId, "historySize", numberType, FALSE, TRUE),
          propertyMember(optionsId, "removeHistoryDuplicates", booleanType, FALSE, TRUE)}),
       classExport(interfaceId,
         nodeEventMembers(interfaceId, readlineEvents)
         \cup {method("question", <<param("query", stringType), param("callback", callback)>>,
                      voidType),
               method("write", <<param("text", stringType)>>, voidType),
               method("pause", <<>>, interfaceType),
               method("resume", <<>>, interfaceType),
               method("isPaused", <<>>, booleanType),
               method("close", <<>>, voidType),
               method("setPrompt", <<param("prompt", stringType)>>, voidType),
               method("getPrompt", <<>>, stringType),
               method("prompt", <<>>, voidType),
               propertyMember(interfaceId, "line", stringType, TRUE, FALSE),
               propertyMember(interfaceId, "cursor", numberType, TRUE, FALSE),
               propertyMember(interfaceId, "terminal", booleanType, TRUE, FALSE)}),
       fnExport(moduleSpecifier, "createInterface",
                <<param("options", providerRef(moduleSpecifier, "ReadLineOptions"))>>,
                interfaceType)}

readlineTypes ==
  {nodeProviderType(optionsId, readlineOptionsCarrier, TRUE),
   nodeProviderType(interfaceId, readlineInterfaceCarrier, FALSE)}

\* An option is read and written under its own name.
option(name, type) ==
  {propertyRead(optionsId, name, <<name>>, readlineOptionsCarrier, type, "member"),
   propertyWrite(optionsId, name, <<name>>, readlineOptionsCarrier, type, "member")}

\* The suffix a call's signature is looked up under.
sourceParameterNames(member) ==
  CASE member = "question" -> <<"query", "callback">>
    [] member = "write" -> <<"text">>
    [] member = "setPrompt" -> <<"prompt">>
    [] member \in {"pause", "resume", "isPaused", "close", "getPrompt", "prompt"} -> <<>>
call(member, name, parameters, result, raises) ==
  instanceCall(interfaceId, member, sourceParameterNames(member), <<name>>,
               readlineInterfaceCarrier, parameters, result, raises, "mut")

readlineOperations ==
  nodeEventOperations(interfaceId, readlineInterfaceCarrier, readlineEvents)
  \cup option("input", readableCarrier)
  \cup option("output", optional(writableCarrier))
  \cup option("terminal", optionalBoolCarrier)
  \cup option("prompt", optionalStringCarrier)
  \cup option("historySize", optionalFloat64Carrier)
  \cup option("removeHistoryDuplicates", optionalBoolCarrier)
  \cup {functionCall(exportIdOf(moduleSpecifier, "createInterface"), <<"options">>, "readline",
                     <<"create_interface">>, <<readlineOptionsCarrier>>,
                     readlineInterfaceCarrier, TRUE),
        call("question", "question", <<nativeString, readlineQuestionCallbackCarrier>>,
             unitCarrier, TRUE),
        call("write", "write", <<nativeString>>, unitCarrier, TRUE),
        call("pause", "pause", <<>>, readlineInterfaceCarrier, TRUE),
        call("resume", "resume", <<>>, readlineInterfaceCarrier, TRUE),
        call("isPaused", "is_paused", <<>>, boolCarrier, FALSE),
        call("close", "close", <<>>, unitCarrier, TRUE),
        call("setPrompt", "set_prompt", <<nativeString>>, unitCarrier, FALSE),
        call("getPrompt", "get_prompt", <<>>, nativeString, FALSE),
        call("prompt", "prompt", <<>>, unitCarrier, TRUE)}
  \cup {propertyRead(interfaceId, p[1], <<p[1]>>, readlineInterfaceCarrier, p[2], "method")
        : p \in {<<"line", nativeString>>, <<"cursor", float64Carrier>>,
                 <<"terminal", boolCarrier>>}}
=============================================================================
