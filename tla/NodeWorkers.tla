----------------------------- MODULE NodeWorkers -----------------------------
(***************************************************************************)
(* `node:worker_threads` (nodejs/src/provider/modules/worker-threads.ts).  *)
(***************************************************************************)
EXTENDS ProviderModel

moduleSpecifier == "node:worker_threads"
workerId == exportIdOf(moduleSpecifier, "Worker")
workerOptionsId == exportIdOf(moduleSpecifier, "WorkerOptions")
messagePortId == exportIdOf(moduleSpecifier, "MessagePort")
messageChannelId == exportIdOf(moduleSpecifier, "MessageChannel")
messageResultId == exportIdOf(moduleSpecifier, "MessagePortMessage")
messageResultCarrier == namedCarrier("MessagePortMessage", "worker_threads")
workerType == providerRef(moduleSpecifier, "Worker")
portType == providerRef(moduleSpecifier, "MessagePort")
eventNameType == union({stringType, symbolType})

(***************************************************************************)
(* Events: a listener without values for any event name, and one with a    *)
(* value for the names that carry one.                                     *)
(***************************************************************************)
oneValueWorkerEventNames == {"error", "exit", "message", "messageerror"}
oneValuePortEventNames == {"message", "messageerror"}
oneValueEventNames(ownerId) ==
  IF ownerId = workerId THEN oneValueWorkerEventNames ELSE oneValuePortEventNames

eventMembers(ownerId) ==
  {LET id == memberIdOf(ownerId, method)
       listener(suffix, eventType, types) ==
         overload(suffix,
                  <<param("eventName", eventType),
                    param("listener", providerCallbackType(
                      signatureIdOf(id, suffix), "listener", types))>>,
                  providerRef(ownerId[1], ownerId[2]))
   IN  overloadedMethodMember(ownerId, method,
         {listener(<<"0">>, eventNameType, <<>>)}
         \cup {listener(<<"1", event>>, literalType(event), <<anyType>>)
               : event \in oneValueEventNames(ownerId)})
   : method \in eventMethods}
eventOperations(ownerId, receiverType) ==
  UNION {{instanceCall(ownerId, method, <<"0">>, <<method, "callable">>, receiverType,
                       <<jsValueCarrier, emptyCallbackCarrier>>, receiverType, TRUE, "mut")}
         \cup {instanceCall(ownerId, method, <<"1", event>>, <<method, "callable1">>,
                            receiverType, <<jsValueCarrier, oneValueCallbackCarrier>>,
                            receiverType, TRUE, "mut")
               : event \in oneValueEventNames(ownerId)}
         : method \in eventMethods}

(***************************************************************************)
(* The module.                                                             *)
(***************************************************************************)
functionExport(name, parameterLists, returnType) ==
  overloadedFunctionExport(moduleSpecifier, name,
                           {plainOverload(p, returnType) : p \in parameterLists})
valueParam == <<param("value", anyType)>>

workerMembers ==
  LET modulePath == param("modulePath", stringType)
  IN  {overloadedMember(workerId, "constructor", "constructor",
         {plainOverload(<<modulePath>>, voidType),
          plainOverload(<<modulePath, param("options",
                            providerRef(moduleSpecifier, "WorkerOptions"))>>, voidType)}),
       methodMember(workerId, "postMessage", valueParam, voidType),
       methodMember(workerId, "terminate", <<>>, sourcePromise(numberType)),
       methodMember(workerId, "ref", <<>>, workerType),
       methodMember(workerId, "unref", <<>>, workerType),
       propertyMember(workerId, "threadId", numberType, TRUE, FALSE)}
      \cup eventMembers(workerId)
portMembers ==
  {methodMember(messagePortId, "postMessage", valueParam, voidType),
   methodMember(messagePortId, "start", <<>>, voidType),
   methodMember(messagePortId, "close", <<>>, voidType),
   methodMember(messagePortId, "ref", <<>>, portType),
   methodMember(messagePortId, "unref", <<>>, portType),
   methodMember(messagePortId, "hasRef", <<>>, booleanType)}
  \cup eventMembers(messagePortId)

workerThreadsModule ==
  LET key == param("key", anyType)
  IN  {interfaceExport(messageResultId,
         {propertyMember(messageResultId, "message", anyType, TRUE, FALSE)}),
       classExport(workerId, workerMembers),
       interfaceExport(workerOptionsId,
         {propertyMember(workerOptionsId, "name", stringType, FALSE, TRUE),
          propertyMember(workerOptionsId, "argv", stringArrayType, FALSE, TRUE),
          propertyMember(workerOptionsId, "env", anyType, FALSE, TRUE),
          propertyMember(workerOptionsId, "workerData", anyType, FALSE, TRUE)}),
       classExport(messagePortId, portMembers),
       classExport(messageChannelId,
         {constructorMember(messageChannelId, <<>>),
          propertyMember(messageChannelId, "port1", portType, TRUE, FALSE),
          propertyMember(messageChannelId, "port2", portType, TRUE, FALSE)}),
       functionExport("receiveMessageOnPort", {<<param("port", portType)>>},
         union({providerRef(moduleSpecifier, "MessagePortMessage"), undefinedType})),
       functionExport("getEnvironmentData", {<<key>>}, union({anyType, undefinedType})),
       functionExport("setEnvironmentData", {<<key, param("value", anyType)>>, <<key>>}, voidType),
       functionExport("markAsUntransferable", {valueParam}, voidType),
       functionExport("isMarkedAsUntransferable", {valueParam}, booleanType),
       valueExport(moduleSpecifier, "isMainThread", booleanType),
       valueExport(moduleSpecifier, "threadId", numberType),
       valueExport(moduleSpecifier, "workerData", anyType),
       valueExport(moduleSpecifier, "parentPort", union({portType, undefinedType}))}

workerThreadsTypes ==
  {nodeProviderType(messageResultId, messageResultCarrier, FALSE),
   nodeProviderType(workerId, workerCarrier, FALSE),
   nodeProviderType(workerOptionsId, workerOptionsCarrier, TRUE),
   nodeProviderType(messagePortId, messagePortCarrier, FALSE),
   nodeProviderType(messageChannelId, messageChannelCarrier, FALSE)}

workerConstructor(suffix, parameterTypes) ==
  constructorCall(workerId, suffix, "worker_threads", <<"worker_new">>, parameterTypes,
                  workerCarrier, TRUE)
optionProperty(sourceName, targetName, type) ==
  {propertyRead(workerOptionsId, sourceName, <<targetName>>, workerOptionsCarrier, type, "member"),
   propertyWrite(workerOptionsId, sourceName, <<targetName>>, workerOptionsCarrier, type, "member")}
optionOperations ==
  optionProperty("name", "name", optionalStringCarrier)
  \cup optionProperty("argv", "argv", optional(stringListCarrier))
  \cup optionProperty("env", "env", jsValueCarrier)
  \cup optionProperty("workerData", "worker_data", jsValueCarrier)

workerThreadsOperations ==
  LET worker(member, suffix, name, parameters, result, raises, receiver) ==
        instanceCall(workerId, member, suffix, <<name>>, workerCarrier, parameters, result,
                     raises, receiver)
      channelPort(member, suffix, name, parameters, result, raises, receiver) ==
        instanceCall(messagePortId, member, suffix, <<name>>, messagePortCarrier, parameters,
                     result, raises, receiver)
      function(name, suffix, target, parameters, result, raises) ==
        functionCall(exportIdOf(moduleSpecifier, name), suffix, "worker_threads", <<target>>,
                     parameters, result, raises)
      value(name, target, result) ==
        functionValue(exportIdOf(moduleSpecifier, name), "worker_threads", <<target>>, result)
      js == jsValueCarrier
  IN  eventOperations(workerId, workerCarrier)
      \cup eventOperations(messagePortId, messagePortCarrier) \cup optionOperations
      \cup {workerConstructor(<<"modulePath">>, <<nativeString>>),
            workerConstructor(<<"modulePath", "options">>, <<nativeString, workerOptionsCarrier>>),
            worker("postMessage", <<"value">>, "post_message", <<js>>, unitCarrier, TRUE, "imm"),
            worker("terminate", <<>>, "terminate", <<>>, future(float64Carrier), TRUE, "imm"),
            worker("ref", <<>>, "ref_chain", <<>>, workerCarrier, FALSE, "mut"),
            worker("unref", <<>>, "unref_chain", <<>>, workerCarrier, FALSE, "mut"),
            propertyRead(workerId, "threadId", <<"thread_id">>, workerCarrier, float64Carrier, "method"),
            constructorCall(messageChannelId, <<>>, "worker_threads", <<"message_channel_new">>, <<>>,
                            messageChannelCarrier, TRUE),
            channelPort("postMessage", <<"value">>, "post_message", <<js>>, unitCarrier, TRUE, "mut"),
            channelPort("start", <<>>, "start", <<>>, unitCarrier, FALSE, "mut"),
            channelPort("close", <<>>, "close", <<>>, unitCarrier, TRUE, "mut"),
            channelPort("ref", <<>>, "ref_chain", <<>>, messagePortCarrier, FALSE, "mut"),
            channelPort("unref", <<>>, "unref_chain", <<>>, messagePortCarrier, FALSE, "mut"),
            channelPort("hasRef", <<>>, "has_ref", <<>>, boolCarrier, FALSE, "imm"),
            propertyRead(messageChannelId, "port1", <<"port1">>, messageChannelCarrier,
                         messagePortCarrier, "member"),
            propertyRead(messageChannelId, "port2", <<"port2">>, messageChannelCarrier,
                         messagePortCarrier, "member"),
            propertyRead(messageResultId, "message", <<"message">>, messageResultCarrier, js, "member"),
            function("receiveMessageOnPort", <<"port">>, "receive_message_on_port",
                     <<messagePortCarrier>>, optional(messageResultCarrier), TRUE),
            function("getEnvironmentData", <<"key">>, "get_environment_data", <<js>>, js, FALSE),
            function("setEnvironmentData", <<"key", "value">>, "set_environment_data", <<js, js>>,
                     unitCarrier, TRUE),
            function("setEnvironmentData", <<"key">>, "set_environment_data", <<js>>, unitCarrier, TRUE),
            function("markAsUntransferable", <<"value">>, "mark_as_untransferable", <<js>>,
                     unitCarrier, TRUE),
            function("isMarkedAsUntransferable", <<"value">>, "is_marked_as_untransferable", <<js>>,
                     boolCarrier, FALSE),
            value("isMainThread", "is_main_thread", boolCarrier),
            value("threadId", "thread_id", float64Carrier),
            value("workerData", "worker_data", js),
            value("parentPort", "parent_port", optional(messagePortCarrier))}
=============================================================================
