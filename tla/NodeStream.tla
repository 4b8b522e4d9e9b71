------------------------------ MODULE NodeStream ------------------------------
(***************************************************************************)
(* `node:stream` (nodejs/src/provider/modules/stream.ts and stream/): the  *)
(* classes Readable and Writable and the interface Duplex.                 *)
(***************************************************************************)
EXTENDS ProviderModel

moduleSpecifier == "node:stream"
readableId == exportIdOf(moduleSpecifier, "Readable")
writableId == exportIdOf(moduleSpecifier, "Writable")
duplexId == exportIdOf(moduleSpecifier, "Duplex")
readableType == providerRef(moduleSpecifier, "Readable")
writableType == providerRef(moduleSpecifier, "Writable")
duplexRef == providerRef(moduleSpecifier, "Duplex")
responseType == providerRef("node:http", "ServerResponse")
bufferType == providerRef("node:buffer", "Buffer")
chunkType == union({bufferType, stringType})
chunkCarrier == unionCarrier({nativeString, bufferCarrier})

(***************************************************************************)
(* Duplex (duplex.ts).                                                     *)
(***************************************************************************)
duplexCarrier == namedCarrier("Duplex", "stream")
duplexInputs == {<<"buffer", bufferType, bufferCarrier>>, <<"string", stringType, nativeString>>}

duplexInputOverloads(returnType) ==
  {overload(<<i[1]>>, <<param("chunk", i[2])>>, returnType) : i \in duplexInputs}
duplexExport == interfaceExport(duplexId,
  {overloadedMethodMember(duplexId, "write", duplexInputOverloads(booleanType)),
   overloadedMethodMember(duplexId, "end",
     {plainOverload(<<>>, duplexRef)} \cup duplexInputOverloads(duplexRef)),
   methodMember(duplexId, "read", <<>>, union({bufferType, nullType, undefinedType}))})
duplexType == nodeProviderType(duplexId, duplexCarrier, FALSE)
duplexOperations ==
  LET call(member, suffix, name, parameters, result) ==
        instanceCall(duplexId, member, suffix, name, duplexCarrier, parameters, result,
                     TRUE, "imm")
  IN  UNION {{call("write", <<i[1]>>, <<"write", i[1]>>, <<i[3]>>, boolCarrier),
              call("end", <<i[1]>>, <<"end", i[1]>>, <<i[3]>>, duplexCarrier)}
             : i \in duplexInputs}
      \cup {call("read", <<>>, <<"read">>, <<>>, optional(bufferCarrier)),
            call("end", <<>>, <<"end">>, <<>>, duplexCarrier)}

(***************************************************************************)
(* Readable (readable-calls.ts, readable-events.ts).                       *)
(***************************************************************************)
readableReadMember ==
  LET result == union({bufferType, stringType, nullType})
  IN  overloadedMethodMember(readableId, "read",
        {plainOverload(<<>>, result),
         plainOverload(<<param("size", union({numberType, undefinedType}))>>, result)})
readableReadOperations ==
  {instanceCall(readableId, "read", <<>>, <<"read">>, readableCarrier, <<>>,
                optional(chunkCarrier), TRUE, "mut"),
   instanceCall(readableId, "read", <<"size">>, <<"read_sized">>, readableCarrier,
                <<optionalFloat64Carrier>>, optional(chunkCarrier), TRUE, "mut")}
readableEvents ==
  {eventDefinition("data", {"data"}, <<chunkType>>, <<chunkCarrier>>),
   eventDefinition("error", {"error"}, <<errorType>>, <<errorCarrier>>),
   eventDefinition("empty", {"end", "close", "readable", "pause", "resume"}, <<>>, <<>>)}

(***************************************************************************)
(* Writable: the overloads of write and end (writable-calls.ts).  A row    *)
(* feeds both tables; each input comes alone, with a callback, with an     *)
(* encoding and with both.                                                 *)
(***************************************************************************)
argument(name, source, target) == [name |-> name, source |-> source, target |-> target]
rowOf(method, suffix, target, arguments) ==
  [method |-> method, suffix |-> suffix, target |-> target, arguments |-> arguments]

completionCarrier == callbackCarrier(<<optional(errorCarrier)>>)
encoding == argument("encoding", union({stringType, undefinedType}), optionalStringCarrier)
completion(method, suffix) ==
  LET signature == signatureIdOf(memberIdOf(writableId, method), suffix)
  IN  argument("callback",
        union({providerCallbackType(signature, "callback",
                                    <<union({errorType, undefinedType})>>), undefinedType}),
        optional(completionCarrier))

inputsOf(method) ==
  {<<"buffer", bufferType, bufferCarrier>>, <<"string", stringType, nativeString>>}
  \cup IF method = "end"
       THEN {<<"empty", undefinedType, unitCarrier>>,
             <<"value", union({chunkType, undefinedType}), optional(chunkCarrier)>>}
       ELSE {<<"value", chunkType, chunkCarrier>>}
inputRows(method, input) ==
  LET chunk == argument("chunk", input[2], input[3])
      name == input[1]
      called == <<name, "callback">>
      encoded == <<name, "encoding">>
      complete == <<name, "encoding", "callback">>
  IN  {rowOf(method, <<name>>, <<method, name>>, <<chunk>>),
       rowOf(method, called, <<method, name, "callback">>,
             <<chunk, completion(method, called)>>),
       rowOf(method, encoded, <<method, name, "encoded">>, <<chunk, encoding>>),
       rowOf(method, complete, <<method, name, "encoded">>,
             <<chunk, encoding, completion(method, complete)>>)}
callRows ==
  {rowOf("end", <<>>, <<"end">>, <<>>),
   rowOf("end", <<"callback">>, <<"end", "callback">>, <<completion("end", <<"callback">>)>>)}
  \cup UNION {UNION {inputRows(method, input) : input \in inputsOf(method)}
              : method \in {"write", "end"}}

writableCallMembers ==
  {overloadedMethodMember(writableId, method,
     {overload(row.suffix,
               [i \in DOMAIN row.arguments |->
                  param(row.arguments[i].name, row.arguments[i].source)],
               IF method = "write" THEN booleanType ELSE writableType)
      : row \in {r \in callRows : r.method = method}})
   : method \in {"write", "end"}}
writableCallOperations ==
  {instanceCall(writableId, row.method, row.suffix, row.target, writableCarrier,
                [i \in DOMAIN row.arguments |-> row.arguments[i].target],
                IF row.method = "write" THEN boolCarrier ELSE writableCarrier, TRUE, "mut")
   : row \in callRows}

writableEvents ==
  {eventDefinition("error", {"error"}, <<errorType>>, <<errorCarrier>>),
   eventDefinition("empty", {"drain", "finish", "close"}, <<>>, <<>>)}

(***************************************************************************)
(* Writable: cork, destroy and the state it shows (writable-lifecycle.ts). *)
(***************************************************************************)
states ==
  {<<p[1], p[2], booleanType, boolCarrier>> : p \in
     {<<"writable", "writable">>, <<"writableEnded", "writable_ended">>,
      <<"writableFinished", "writable_finished">>, <<"writableAborted", "writable_aborted">>,
      <<"writableNeedDrain", "writable_need_drain">>,
      <<"writableObjectMode", "writable_object_mode">>,
      <<"destroyed", "destroyed">>, <<"closed", "closed">>}}
  \cup
  {<<p[1], p[2], numberType, float64Carrier>> : p \in
     {<<"writableCorked", "writable_corked">>,
      <<"writableHighWaterMark", "writable_high_water_mark">>,
      <<"writableLength", "writable_length">>}}
  \cup {<<"errored", "errored", union({errorType, nullType}), optional(errorCarrier)>>}

writableLifecycleMembers ==
  {methodMember(writableId, name, <<>>, voidType) : name \in {"cork", "uncork"}}
  \cup {methodMember(writableId, "setDefaultEncoding", <<param("encoding", stringType)>>,
                     writableType),
        overloadedMethodMember(writableId, "destroy",
          {plainOverload(<<>>, writableType),
           plainOverload(<<param("error", union({errorType, nullType, undefinedType}))>>,
                         writableType)})}
  \cup {propertyMember(writableId, s[1], s[3], TRUE, FALSE) : s \in states}
writableLifecycleOperations ==
  LET call(member, suffix, name, parameters, result, raises) ==
        instanceCall(writableId, member, suffix, <<name>>, writableCarrier, parameters,
                     result, raises, "mut")
  IN  {call(name, <<>>, name, <<>>, unitCarrier, name = "uncork") : name \in {"cork", "uncork"}}
      \cup {call("setDefaultEncoding", <<"encoding">>, "set_default_encoding",
                 <<nativeString>>, writableCarrier, TRUE),
            call("destroy", <<>>, "destroy", <<>>, writableCarrier, TRUE),
            call("destroy", <<"error">>, "destroy", <<optional(errorCarrier)>>,
                 writableCarrier, TRUE)}
      \cup {propertyRead(writableId, s[1], <<s[2]>>, writableCarrier, s[4], "method")
            : s \in states}

(***************************************************************************)
(* The module (stream.ts).                                                 *)
(***************************************************************************)
streamModule ==
  {duplexExport,
   classExport(readableId,
     {readableReadMember} \cup nodeEventMembers(readableId, readableEvents)
     \cup {methodMember(readableId, "setEncoding", <<param("encoding", stringType)>>,
                        readableType),
           overloadedMethodMember(readableId, "pipe",
             {overload(<<"writable">>, <<param("destination", writableType)>>, writableType),
              overload(<<"serverResponse">>, <<param("destination", responseType)>>,
                       responseType)}),
           methodMember(readableId, "pause", <<>>, readableType),
           methodMember(readableId, "resume", <<>>, readableType),
           methodMember(readableId, "isPaused", <<>>, booleanType),
           propertyMember(readableId, "readable", booleanType, TRUE, FALSE),
           propertyMember(readableId, "readableEnded", booleanType, TRUE, FALSE)}),
   classExport(writableId, writableCallMembers
     \cup nodeEventMembers(writableId, writableEvents) \cup writableLifecycleMembers)}

streamTypes ==
  {nodeProviderType(readableId, readableCarrier, FALSE), duplexType,
   nodeProviderType(writableId, writableCarrier, FALSE)}

streamOperations ==
  LET call(member, suffix, name, parameters, result) ==
        instanceCall(readableId, member, suffix, <<name>>, readableCarrier, parameters,
                     result, TRUE, "mut")
  IN  readableReadOperations \cup duplexOperations
      \cup nodeEventOperations(readableId, readableCarrier, readableEvents)
      \cup {call("setEncoding", <<"encoding">>, "set_encoding", <<nativeString>>,
                 readableCarrier),
            call("pipe", <<"writable">>, "pipe_to", <<writableCarrier>>, writableCarrier),
            call("pipe", <<"serverResponse">>, "pipe_to_response",
                 <<httpServerResponseCarrier>>, httpServerResponseCarrier),
            call("pause", <<>>, "pause", <<>>, readableCarrier),
            call("resume", <<>>, "resume", <<>>, readableCarrier),
            instanceCall(readableId, "isPaused", <<>>, <<"is_paused">>, readableCarrier,
                         <<>>, boolCarrier, FALSE, "imm"),
            propertyRead(readableId, "readable", <<"readable">>, readableCarrier,
                         boolCarrier, "method"),
            propertyRead(readableId, "readableEnded", <<"readable_ended">>,
                         readableCarrier, boolCarrier, "method")}
      \cup writableCallOperations
      \cup nodeEventOperations(writableId, writableCarrier, writableEvents)
      \cup writableLifecycleOperations
=============================================================================
