---------------------------- MODULE ProviderModel ----------------------------
(***************************************************************************)
(* The vocabulary in which the provider describes Node modules to the      *)
(* compiler (nodejs/src/provider/model).  A module is described twice: by  *)
(* DECLARATIONS, which say what a source program may import, call, read    *)
(* and write and with which source types, and by OPERATIONS, which say     *)
(* which Mojo function or method such a use becomes and with which target  *)
(* types, called carriers.  The two meet only in their ids.                *)
(*                                                                         *)
(* Ids.  `module::Export`, `module::Export.member` and `id(suffix)` are    *)
(* strings put together from fixed parts; here they are the tuples of those*)
(* parts, and a suffix is the sequence of its comma-separated words.       *)
(* Types and carriers are tuples whose first element is their kind.        *)
(* A target name is the sequence of the words it is put together from.     *)
(***************************************************************************)
EXTENDS Naturals, Sequences, FiniteSets

Absent == <<>>

exportIdOf(module, name) == <<module, name>>
memberIdOf(ownerId, name) == Append(ownerId, name)
signatureIdOf(id, suffix) == <<id, suffix>>

(***************************************************************************)
(* Source types (source-types.ts).                                         *)
(***************************************************************************)
stringType == <<"string">>
numberType == <<"number">>
booleanType == <<"boolean">>
voidType == <<"void">>
undefinedType == <<"undefined">>
nullType == <<"literal", "null">>
int32Type == <<"source-primitive", "int32">>
anyType == <<"any">>
errorType == <<"source-global", "Error">>
symbolType == <<"source-global", "Symbol">>
literalType(value) == <<"literal", value>>
recordType(key, value) == <<"record", key, value>>
arrayType(element) == <<"array", element>>
union(types) == <<"union", types>>
stringArrayType == arrayType(stringType)

providerRef(module, name) == <<"provider-ref", module, name>>
sourcePromise(value) == <<"promise", value>>
providerCallbackType(signatureId, parameter, types) ==
  <<"function", <<signatureId, parameter>>, types>>

(***************************************************************************)
(* Carriers (carriers.ts).                                                 *)
(***************************************************************************)
nativeString == <<"String">>
boolCarrier == <<"Bool">>
float64Carrier == <<"Float64">>
int32Carrier == <<"Int32">>
unitCarrier == <<"None">>
jsValueCarrier == <<"JsValue">>
errorCarrier == <<"TsError">>
optional(carrier) == <<"optional", carrier>>
list(carrier) == <<"list", carrier>>
future(carrier) == <<"future", carrier>>
dictionary(key, value) == <<"dictionary", key, value>>
unionCarrier(carriers) == <<"union", carriers>>
namedCarrier(name, module) == <<"named", module, name>>
callbackCarrier(types) == <<"callable", types>>

stringListCarrier == list(nativeString)
optionalBoolCarrier == optional(boolCarrier)
optionalFloat64Carrier == optional(float64Carrier)
optionalStringCarrier == optional(nativeString)
bufferCarrier == namedCarrier("Buffer", "buffer")
timeoutCarrier == namedCarrier("Timeout", "timers")
httpIncomingMessageCarrier == namedCarrier("IncomingMessage", "http")
httpServerResponseCarrier == namedCarrier("ServerResponse", "http")
httpServerCarrier == namedCarrier("Server", "http")
eventEmitterCarrier == namedCarrier("EventEmitter", "events")
readableCarrier == namedCarrier("Readable", "stream")
writableCarrier == namedCarrier("Writable", "stream")
dnsLookupAddressCarrier == namedCarrier("LookupAddress", "dns")
zlibOptionsCarrier == namedCarrier("ZlibOptions", "zlib")
zlibTransformCarrier == namedCarrier("Zlib", "zlib")
netSocketCarrier == namedCarrier("Socket", "net")
netServerCarrier == namedCarrier("Server", "net")
tlsConnectOptionsCarrier == namedCarrier("ConnectionOptions", "tls")
tlsServerOptionsCarrier == namedCarrier("TlsOptions", "tls")
tlsSocketCarrier == namedCarrier("TLSSocket", "tls")
tlsServerCarrier == namedCarrier("Server", "tls")
httpsServerCarrier == namedCarrier("Server", "https")
readlineOptionsCarrier == namedCarrier("ReadLineOptions", "readline")
readlineInterfaceCarrier == namedCarrier("Interface", "readline")
workerCarrier == namedCarrier("Worker", "worker_threads")
workerOptionsCarrier == namedCarrier("WorkerOptions", "worker_threads")
messagePortCarrier == namedCarrier("MessagePort", "worker_threads")
messageChannelCarrier == namedCarrier("MessageChannel", "worker_threads")

emptyCallbackCarrier == callbackCarrier(<<>>)
oneValueCallbackCarrier == callbackCarrier(<<jsValueCarrier>>)
twoValueCallbackCarrier == callbackCarrier(<<jsValueCarrier, jsValueCarrier>>)
threeValueCallbackCarrier ==
  callbackCarrier(<<jsValueCarrier, jsValueCarrier, jsValueCarrier>>)
dnsLookupCallbackCarrier ==
  callbackCarrier(<<jsValueCarrier, optionalStringCarrier, optionalFloat64Carrier>>)
dnsAddressArrayCallbackCarrier ==
  callbackCarrier(<<jsValueCarrier, optional(stringListCarrier)>>)
netConnectionCallbackCarrier == callbackCarrier(<<netSocketCarrier>>)
tlsSocketCallbackCarrier == callbackCarrier(<<tlsSocketCarrier>>)
readlineQuestionCallbackCarrier == callbackCarrier(<<nativeString>>)
httpResponseCallbackCarrier == callbackCarrier(<<httpIncomingMessageCarrier>>)
httpRequestCallbackCarrier ==
  callbackCarrier(<<httpIncomingMessageCarrier, httpServerResponseCarrier>>)

(***************************************************************************)
(* Declarations (declarations.ts).  A parameter is its name and its type.  *)
(* Every declaration has every field; the ones its kind lacks are empty.   *)
(***************************************************************************)
param(name, type) == [name |-> name, type |-> type]
namesOf(parameters) == [i \in DOMAIN parameters |-> parameters[i].name]
overload(suffix, parameters, returnType) ==
  [suffix |-> suffix, parameters |-> parameters, returnType |-> returnType]
plainOverload(parameters, returnType) ==
  overload(namesOf(parameters), parameters, returnType)

signaturesOf(id, overloads) ==
  {[id |-> signatureIdOf(id, o.suffix), parameters |-> o.parameters,
    returnType |-> o.returnType] : o \in overloads}

exportOf(id, kind, members, signatures, type) ==
  [id |-> id, kind |-> kind, exportKind |-> "named", members |-> members,
   signatures |-> signatures, type |-> type]
classExport(id, members) == exportOf(id, "class", members, {}, Absent)
interfaceExport(id, members) == exportOf(id, "interface", members, {}, Absent)

overloadedFunctionExport(module, name, overloads) ==
  LET id == exportIdOf(module, name)
  IN  exportOf(id, "function", {}, signaturesOf(id, overloads), Absent)
fnExport(module, name, parameters, returnType) ==
  overloadedFunctionExport(module, name, {plainOverload(parameters, returnType)})
valueExport(module, name, type) ==
  exportOf(exportIdOf(module, name), "value", {}, {}, type)

memberOf(id, kind, signatures, type, readonly, isOptional) ==
  [id |-> id, kind |-> kind, signatures |-> signatures, type |-> type,
   readonly |-> readonly, optional |-> isOptional]
overloadedMember(ownerId, name, kind, overloads) ==
  LET id == memberIdOf(ownerId, name)
  IN  memberOf(id, kind, signaturesOf(id, overloads), Absent, TRUE, FALSE)
overloadedMethodMember(ownerId, name, overloads) ==
  overloadedMember(ownerId, name, "method", overloads)
methodMember(ownerId, name, parameters, returnType) ==
  overloadedMethodMember(ownerId, name, {plainOverload(parameters, returnType)})
propertyMember(ownerId, name, type, readonly, isOptional) ==
  memberOf(memberIdOf(ownerId, name), "property", {}, type, readonly, isOptional)
constructorMember(ownerId, parameters) ==
  overloadedMember(ownerId, "constructor", "constructor",
                   {plainOverload(parameters, voidType)})

(***************************************************************************)
(* The target type of a declared class or record (type-definitions.ts),    *)
(* and whether an object literal may construct it.                         *)
(***************************************************************************)
nodeProviderType(exportId, targetType, objectLiteral) ==
  [exportId |-> exportId, targetType |-> targetType, objectLiteral |-> objectLiteral]

(***************************************************************************)
(* Operations (operations/calls.ts, operations/properties.ts).             *)
(***************************************************************************)
operationOf(ids, kind, target, receiverType, parameterTypes, resultType, raises) ==
  [exportId |-> ids[1], memberId |-> ids[2], signatureId |-> ids[3],
   operationKind |-> kind, target |-> target, receiverType |-> receiverType,
   parameterTypes |-> parameterTypes, resultType |-> resultType, raises |-> raises]
targetOf(kind, place, name) == [kind |-> kind, place |-> place, name |-> name]

functionCall(exportId, suffix, module, name, parameterTypes, resultType, raises) ==
  operationOf(<<exportId, Absent, signatureIdOf(exportId, suffix)>>, "call",
              targetOf("function-call", module, name), Absent,
              parameterTypes, resultType, raises)
\* A constructor is a function call under the id of the member `constructor`.
constructorCall(ownerId, suffix, module, name, parameterTypes, resultType, raises) ==
  LET id == memberIdOf(ownerId, "constructor")
  IN  operationOf(<<ownerId, id, signatureIdOf(id, suffix)>>, "constructor",
                  targetOf("function-call", module, name), Absent,
                  parameterTypes, resultType, raises)
instanceCall(ownerId, member, suffix, name, receiverType, parameterTypes, resultType, raises, receiver) ==
  LET id == memberIdOf(ownerId, member)
  IN  operationOf(<<ownerId, id, signatureIdOf(id, suffix)>>, "call",
                  targetOf("instance-call", receiver, name), receiverType,
                  parameterTypes, resultType, raises)
functionValue(exportId, module, name, resultType) ==
  operationOf(<<exportId, Absent, Absent>>, "property",
              targetOf("function-read", module, name), Absent, <<>>, resultType, FALSE)
propertyRead(ownerId, member, name, receiverType, resultType, access) ==
  operationOf(<<ownerId, memberIdOf(ownerId, member), Absent>>, "property",
              targetOf("property-read", access, name), receiverType, <<>>,
              resultType, FALSE)
propertyWrite(ownerId, member, name, receiverType, valueType, access) ==
  operationOf(<<ownerId, memberIdOf(ownerId, member), Absent>>, "property-set",
              targetOf("property-write", access, name), receiverType,
              <<valueType>>, unitCarrier, FALSE)

(***************************************************************************)
(* Events (events.ts): on, once and off get one signature per definition,  *)
(* each admitting the definition's names, and one operation per signature, *)
(* whose target is named for the method and the definition's suffix.       *)
(***************************************************************************)
eventDefinition(suffix, names, sources, targets) ==
  [suffix |-> suffix, names |-> names, sources |-> sources, targets |-> targets]
eventMethods == {"on", "once", "off"}
eventNamesType(names) ==
  IF Cardinality(names) = 1 THEN literalType(CHOOSE n \in names : TRUE)
  ELSE union({literalType(n) : n \in names})

nodeEventMembers(ownerId, events) ==
  {LET id == memberIdOf(ownerId, method)
       signature(event) == signatureIdOf(id, <<event.suffix>>)
   IN  overloadedMethodMember(ownerId, method,
         {overload(<<event.suffix>>,
                   <<param("event", eventNamesType(event.names)),
                     param("listener", providerCallbackType(
                       signature(event), "listener", event.sources))>>,
                   providerRef(ownerId[1], ownerId[2])) : event \in events})
   : method \in eventMethods}

nodeEventOperations(ownerId, receiver, events) ==
  {instanceCall(ownerId, method, <<event.suffix>>, <<method, event.suffix>>,
                receiver, <<nativeString, callbackCarrier(event.targets)>>,
                receiver, TRUE, "mut")
   : method \in eventMethods, event \in events}
=============================================================================
