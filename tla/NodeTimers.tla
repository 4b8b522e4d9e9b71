------------------------------ MODULE NodeTimers ------------------------------
(***************************************************************************)
(* `node:timers` (nodejs/src/provider/modules/timers.ts).                  *)
(***************************************************************************)
EXTENDS ProviderModel

moduleSpecifier == "node:timers"
timeoutId == exportIdOf(moduleSpecifier, "Timeout")
timeoutType == providerRef(moduleSpecifier, "Timeout")

\* The callback parameter of setTimeout and of setInterval.
timerCallback(name) ==
  providerCallbackType(signatureIdOf(exportIdOf(moduleSpecifier, name),
                                     <<"callback", "delay">>), "callback", <<>>)

timersModule ==
  {classExport(timeoutId,
     {methodMember(timeoutId, "hasRef", <<>>, booleanType)}
     \cup {methodMember(timeoutId, name, <<>>, timeoutType)
           : name \in {"ref", "unref", "refresh", "close"}})}
  \cup {fnExport(moduleSpecifier, name,
          <<param("callback", timerCallback(name)), param("delay", int32Type)>>, timeoutType)
        : name \in {"setTimeout", "setInterval"}}
  \cup {fnExport(moduleSpecifier, name, <<param("timeout", timeoutType)>>, voidType)
        : name \in {"clearTimeout", "clearInterval"}}

timersTypes == {nodeProviderType(timeoutId, timeoutCarrier, FALSE)}

functionOperation(name, targetName) ==
  functionCall(exportIdOf(moduleSpecifier, name), <<"callback", "delay">>, "timers",
               <<targetName>>, <<emptyCallbackCarrier, int32Carrier>>, timeoutCarrier, TRUE)
clearOperation(name, targetName) ==
  functionCall(exportIdOf(moduleSpecifier, name), <<"timeout">>, "timers",
               <<targetName>>, <<timeoutCarrier>>, unitCarrier, FALSE)
timersOperations ==
  LET call(member, name, result) ==
        instanceCall(timeoutId, member, <<>>, <<name>>, timeoutCarrier, <<>>, result,
                     FALSE, "imm")
  IN  {functionOperation("setTimeout", "set_timeout"),
       functionOperation("setInterval", "set_interval"),
       clearOperation("clearTimeout", "clear_timeout"),
       clearOperation("clearInterval", "clear_interval"),
       call("hasRef", "has_ref", boolCarrier)}
      \cup {call(name, name, timeoutCarrier) : name \in {"ref", "unref", "refresh", "close"}}
=============================================================================
