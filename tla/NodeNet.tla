-------------------------------- MODULE NodeNet --------------------------------
(***************************************************************************)
(* `node:net` (nodejs/src/provider/modules/net).                           *)
(***************************************************************************)
EXTENDS ProviderModel

moduleSpecifier == "node:net"
socketId == exportIdOf(moduleSpecifier, "Socket")
serverId == exportIdOf(moduleSpecifier, "Server")
socketType == providerRef(moduleSpecifier, "Socket")
serverType == providerRef(moduleSpecifier, "Server")
bufferType == providerRef("node:buffer", "Buffer")

(***************************************************************************)
(* The records (records.ts).  A field is its name, its name in Mojo, its   *)
(* source type, its carrier and whether it may be left out.                *)
(***************************************************************************)
field(name, target, source, carrier, isOptional) ==
  [name |-> name, target |-> target, source |-> source, carrier |-> carrier,
   optional |-> isOptional]
textField(name, isOptional) == field(name, name, stringType, nativeString, isOptional)
numberField(name, isOptional) == field(name, name, numberType, float64Carrier, isOptional)
flagField(name, target) == field(name, target, booleanType, boolCarrier, TRUE)
halfOpenField == flagField("allowHalfOpen", "allow_half_open")

records ==
  {[name |-> "AddressInfo", immutable |-> TRUE, target |-> "AddressInfo",
    fields |-> {textField("address", FALSE), textField("family", FALSE),
                numberField("port", FALSE)}],
   [name |-> "ServerOpts", immutable |-> FALSE, target |-> "ServerOptions",
    fields |-> {halfOpenField, flagField("pauseOnConnect", "pause_on_connect")}],
   [name |-> "NetConnectOpts", immutable |-> FALSE, target |-> "ConnectionOptions",
    fields |-> {numberField("port", FALSE), textField("host", TRUE), halfOpenField,
                flagField("noDelay", "no_delay"), numberField("timeout", TRUE)}],
   [name |-> "ListenOptions", immutable |-> FALSE, target |-> "ListenOptions",
    fields |-> {numberField("port", TRUE), textField("host", TRUE),
                numberField("backlog", TRUE)}]}
recordId(record) == exportIdOf(moduleSpecifier, record.name)
recordCarrier(record) == namedCarrier(record.target, "net")
addressCarrier == namedCarrier("AddressInfo", "net")
connectionOptionsCarrier == namedCarrier("ConnectionOptions", "net")
serverOptionsCarrier == namedCarrier("ServerOptions", "net")
listenOptionsCarrier == namedCarrier("ListenOptions", "net")
addressType == providerRef(moduleSpecifier, "AddressInfo")
connectionOptionsType == providerRef(moduleSpecifier, "NetConnectOpts")
serverOptionsType == providerRef(moduleSpecifier, "ServerOpts")
listenOptionsType == providerRef(moduleSpecifier, "ListenOptions")

networkRecordExports ==
  {interfaceExport(recordId(r),
     {propertyMember(recordId(r), f.name, f.source, r.immutable, f.optional) : f \in r.fields})
   : r \in records}
networkRecordTypes ==
  {nodeProviderType(recordId(r), recordCarrier(r), ~r.immutable) : r \in records}
\* Mutant: fields that can be written get no operation for it.
fieldOperationsMutant(r, f) ==
  {propertyRead(recordId(r), f.name, <<f.target>>, recordCarrier(r),
                IF f.optional THEN optional(f.carrier) ELSE f.carrier, "member")}
fieldOperations(r, f) ==
  LET carrier == IF f.optional THEN optional(f.carrier) ELSE f.carrier
  IN  {propertyRead(recordId(r), f.name, <<f.target>>, recordCarrier(r), carrier, "member")}
      \cup IF r.immutable THEN {}
           ELSE {propertyWrite(recordId(r), f.name, <<f.target>>, recordCarrier(r), carrier, "member")}
networkRecordOperations ==
  UNION {UNION {fieldOperations(r, f) : f \in r.fields} : r \in records}

(***************************************************************************)
(* The events (events.ts).                                                 *)
(***************************************************************************)
errors == eventDefinition("error", {"error"}, <<errorType>>, <<errorCarrier>>)
socketEvents ==
  {eventDefinition("data", {"data"}, <<bufferType>>, <<bufferCarrier>>), errors,
   eventDefinition("close", {"close"}, <<booleanType>>, <<boolCarrier>>),
   eventDefinition("empty", {"connect", "drain", "end", "finish", "readable", "timeout"},
                   <<>>, <<>>)}
serverEvents ==
  {eventDefinition("connection", {"connection"}, <<socketType>>, <<netSocketCarrier>>), errors,
   eventDefinition("empty", {"listening", "close"}, <<>>, <<>>)}

(***************************************************************************)
(* connect and the further forms of listen (lifecycle.ts): a row feeds     *)
(* both tables and comes with and without a callback.                      *)
(***************************************************************************)
argument(name, type, carrier) == [name |-> name, type |-> type, carrier |-> carrier]
port == argument("port", numberType, float64Carrier)
host == argument("host", stringType, nativeString)
backlog == argument("backlog", numberType, float64Carrier)
rowOf(suffix, target, parameters) ==
  [suffix |-> suffix, target |-> target, parameters |-> parameters]
connectRows ==
  {rowOf(<<"port">>, <<"connect_port">>, <<port>>),
   rowOf(<<"port", "host">>, <<"connect_port_host">>, <<port, host>>),
   rowOf(<<"options">>, <<"connect_options">>,
         <<argument("options", connectionOptionsType, connectionOptionsCarrier)>>)}
listenRows ==
  {rowOf(<<"options">>, <<"listen_options">>,
         <<argument("options", listenOptionsType, listenOptionsCarrier)>>),
   rowOf(<<"port", "backlog">>, <<"listen_port_backlog">>, <<port, backlog>>),
   rowOf(<<"port", "host", "backlog">>, <<"listen_port_host_backlog">>, <<port, host, backlog>>)}

emptyCallback(id, suffix) == providerCallbackType(signatureIdOf(id, suffix), "callback", <<>>)
overloads(ownerId, method, rows) ==
  rows \cup
  {LET suffix == Append(row.suffix, "callback")
   IN  rowOf(suffix, Append(row.target, "callback"),
             Append(row.parameters, argument("callback",
               emptyCallback(memberIdOf(ownerId, method), suffix), emptyCallbackCarrier)))
   : row \in rows}
sourceOverloads(ownerId, method, rows, result) ==
  {overload(row.suffix,
            [i \in DOMAIN row.parameters |->
               param(row.parameters[i].name, row.parameters[i].type)], result)
   : row \in overloads(ownerId, method, rows)}
rowOperations(ownerId, method, rows, carrier) ==
  {instanceCall(ownerId, method, row.suffix, row.target, carrier,
                [i \in DOMAIN row.parameters |-> row.parameters[i].carrier], carrier,
                TRUE, "mut")
   : row \in overloads(ownerId, method, rows)}
socketConnectMember ==
  overloadedMethodMember(socketId, "connect",
                         sourceOverloads(socketId, "connect", connectRows, socketType))
additionalListenSignatures == sourceOverloads(serverId, "listen", listenRows, serverType)
networkLifecycleOperations ==
  {constructorCall(socketId, <<>>, "net", <<"socket_new">>, <<>>, netSocketCarrier, FALSE)}
  \cup rowOperations(socketId, "connect", connectRows, netSocketCarrier)
  \cup rowOperations(serverId, "listen", listenRows, netServerCarrier)

(***************************************************************************)
(* The forms of listen that tls, http and https share                      *)
(* (listen-contract.ts); with a callback they go to the same target.       *)
(***************************************************************************)
contractRows ==
  {rowOf(<<"port">>, <<"listen_default_host">>, <<port>>),
   rowOf(<<"port", "host">>, <<"listen">>, <<port, host>>),
   rowOf(<<"options">>, <<"listen_options">>,
         <<argument("options", listenOptionsType, listenOptionsCarrier)>>),
   rowOf(<<"port", "backlog">>, <<"listen_backlog">>, <<port, backlog>>),
   rowOf(<<"port", "host", "backlog">>, <<"listen_host_backlog">>, <<port, host, backlog>>)}
contractSignatures(module) ==
  LET id == memberIdOf(exportIdOf(module, "Server"), "listen")
      called(row) == Append(row.suffix, "callback")
  IN  contractRows \cup
      {rowOf(called(row), row.target,
             Append(row.parameters, argument("callback", emptyCallback(id, called(row)),
                                             emptyCallbackCarrier))) : row \in contractRows}
serverListenMember(module) ==
  overloadedMethodMember(exportIdOf(module, "Server"), "listen",
    {overload(row.suffix,
              [i \in DOMAIN row.parameters |->
                 param(row.parameters[i].name, row.parameters[i].type)],
              providerRef(module, "Server")) : row \in contractSignatures(module)})
serverListenOperations(module, carrier) ==
  {instanceCall(exportIdOf(module, "Server"), "listen", row.suffix, row.target, carrier,
                [i \in DOMAIN row.parameters |-> row.parameters[i].carrier], carrier,
                TRUE, "mut") : row \in contractSignatures(module)}

(***************************************************************************)
(* The module (index.ts).                                                  *)
(***************************************************************************)
dataOverloads(result) ==
  {overload(<<"buffer">>, <<param("data", bufferType)>>, result),
   overload(<<"string">>, <<param("data", stringType)>>, result)}
callbackParam(id, suffix) == param("callback", emptyCallback(id, suffix))
\* The forms over a port, an optional host and an optional callback.
portOverloads(id, result) ==
  {plainOverload(<<param("port", numberType)>>, result),
   plainOverload(<<param("port", numberType), param("host", stringType)>>, result),
   plainOverload(<<param("port", numberType), callbackParam(id, <<"port", "callback">>)>>, result),
   plainOverload(<<param("port", numberType), param("host", stringType),
                   callbackParam(id, <<"port", "host", "callback">>)>>, result)}

socketMembers ==
  LET timeout == memberIdOf(socketId, "setTimeout")
  IN  {constructorMember(socketId, <<>>), socketConnectMember,
       methodMember(socketId, "address", <<>>, union({addressType, nullType})),
       methodMember(socketId, "isPaused", <<>>, booleanType),
       overloadedMethodMember(socketId, "write", dataOverloads(booleanType)),
       methodMember(socketId, "read", <<>>, union({bufferType, nullType})),
       overloadedMethodMember(socketId, "end",
         {plainOverload(<<>>, socketType)} \cup dataOverloads(socketType)),
       overloadedMethodMember(socketId, "setNoDelay",
         {plainOverload(<<>>, socketType), plainOverload(<<param("value", booleanType)>>, socketType)}),
       overloadedMethodMember(socketId, "setTimeout",
         {plainOverload(<<param("timeout", numberType)>>, socketType),
          plainOverload(<<param("timeout", numberType),
                          callbackParam(timeout, <<"timeout", "callback">>)>>, socketType)}),
       propertyMember(socketId, "remoteAddress", stringType, TRUE, TRUE),
       propertyMember(socketId, "remotePort", numberType, TRUE, TRUE)}
      \cup nodeEventMembers(socketId, socketEvents)
      \cup {methodMember(socketId, name, <<>>, socketType)
            : name \in {"destroy", "ref", "unref", "pause", "resume"}}
      \cup {propertyMember(socketId, name, numberType, TRUE, FALSE)
            : name \in {"bytesRead", "bytesWritten"}}
      \cup {propertyMember(socketId, name, booleanType, TRUE, FALSE)
            : name \in {"destroyed", "pending", "connecting"}}
serverMembers ==
  {methodMember(serverId, "address", <<>>, union({addressType, nullType})),
   overloadedMethodMember(serverId, "listen", additionalListenSignatures
     \cup portOverloads(memberIdOf(serverId, "listen"), serverType)),
   propertyMember(serverId, "listening", booleanType, TRUE, FALSE)}
  \cup nodeEventMembers(serverId, serverEvents)
  \cup {methodMember(serverId, name, <<>>, serverType) : name \in {"close", "ref", "unref"}}
functionExports ==
  LET connection == exportIdOf(moduleSpecifier, "createConnection")
      server == exportIdOf(moduleSpecifier, "createServer")
      options(type) == param("options", type)
      onSocket(suffix) == param("callback", providerCallbackType(
        signatureIdOf(server, suffix), "callback", <<socketType>>))
  IN  {overloadedFunctionExport(moduleSpecifier, "createConnection",
         {plainOverload(<<options(connectionOptionsType)>>, socketType),
          plainOverload(<<options(connectionOptionsType),
            callbackParam(connection, <<"options", "callback">>)>>, socketType)}
         \cup portOverloads(connection, socketType)),
       overloadedFunctionExport(moduleSpecifier, "createServer",
         {plainOverload(<<options(serverOptionsType)>>, serverType),
          plainOverload(<<options(serverOptionsType), onSocket(<<"options", "callback">>)>>,
                        serverType),
          plainOverload(<<>>, serverType),
          plainOverload(<<onSocket(<<"callback">>)>>, serverType)})}
      \cup {fnExport(moduleSpecifier, name, <<param("input", stringType)>>,
                     IF name = "isIP" THEN numberType ELSE booleanType)
            : name \in {"isIP", "isIPv4", "isIPv6"}}
netModule ==
  networkRecordExports \cup functionExports
  \cup {classExport(socketId, socketMembers), classExport(serverId, serverMembers)}

netTypes ==
  networkRecordTypes \cup {nodeProviderType(socketId, netSocketCarrier, FALSE),
                           nodeProviderType(serverId, netServerCarrier, FALSE)}

connectionOperations ==
  {functionCall(exportIdOf(moduleSpecifier, "createConnection"), row[1], "net", row[2], row[3],
                netSocketCarrier, TRUE)
   : row \in
     {<<<<"options">>, <<"create_connection_options">>, <<connectionOptionsCarrier>>>>,
      <<<<"options", "callback">>, <<"create_connection_options_callback">>,
        <<connectionOptionsCarrier, emptyCallbackCarrier>>>>,
      <<<<"port">>, <<"create_connection">>, <<float64Carrier>>>>,
      <<<<"port", "host">>, <<"create_connection_host">>, <<float64Carrier, nativeString>>>>,
      <<<<"port", "callback">>, <<"create_connection_callback">>,
        <<float64Carrier, emptyCallbackCarrier>>>>,
      <<<<"port", "host", "callback">>, <<"create_connection_host_callback">>,
        <<float64Carrier, nativeString, emptyCallbackCarrier>>>>}}

functionOperations ==
  LET create(suffix, name, parameters, raises) ==
        functionCall(exportIdOf(moduleSpecifier, "createServer"), suffix, "net", name,
                     parameters, netServerCarrier, raises)
      test(name, target, result) ==
        functionCall(exportIdOf(moduleSpecifier, name), <<"input">>, "net", <<target>>,
                     <<nativeString>>, result, FALSE)
  IN  {create(<<>>, <<"create_server">>, <<>>, FALSE),
       create(<<"callback">>, <<"create_server_callback">>, <<netConnectionCallbackCarrier>>, TRUE),
       create(<<"options">>, <<"create_server_options">>, <<serverOptionsCarrier>>, FALSE),
       create(<<"options", "callback">>, <<"create_server_options_callback">>,
              <<serverOptionsCarrier, netConnectionCallbackCarrier>>, TRUE),
       test("isIP", "is_ip", float64Carrier), test("isIPv4", "is_ipv4", boolCarrier),
       test("isIPv6", "is_ipv6", boolCarrier)}

socketOperations ==
  LET call(member, suffix, name, parameters, result) ==
        instanceCall(socketId, member, suffix, name, netSocketCarrier, parameters, result,
                     TRUE, "mut")
      look(member, name, result, raises, receiver) ==
        instanceCall(socketId, member, <<>>, <<name>>, netSocketCarrier, <<>>, result,
                     raises, receiver)
      show(member, name, result) ==
        propertyRead(socketId, member, <<name>>, netSocketCarrier, result, "method")
  IN  {look("address", "address", optional(addressCarrier), TRUE, "imm"),
       look("isPaused", "is_paused", boolCarrier, FALSE, "imm"),
       look("read", "read", optional(bufferCarrier), FALSE, "mut"),
       call("setTimeout", <<"timeout", "callback">>, <<"set_timeout_callback">>,
            <<float64Carrier, emptyCallbackCarrier>>, netSocketCarrier),
       call("write", <<"buffer">>, <<"write_buffer">>, <<bufferCarrier>>, boolCarrier),
       call("write", <<"string">>, <<"write_string">>, <<nativeString>>, boolCarrier),
       call("end", <<>>, <<"end">>, <<>>, netSocketCarrier),
       call("end", <<"buffer">>, <<"end_buffer">>, <<bufferCarrier>>, netSocketCarrier),
       call("end", <<"string">>, <<"end_string">>, <<nativeString>>, netSocketCarrier),
       call("destroy", <<>>, <<"destroy">>, <<>>, netSocketCarrier),
       call("setNoDelay", <<"value">>, <<"set_no_delay">>, <<boolCarrier>>, netSocketCarrier),
       call("setNoDelay", <<>>, <<"set_no_delay">>, <<>>, netSocketCarrier),
       call("setTimeout", <<"timeout">>, <<"set_timeout">>, <<float64Carrier>>, netSocketCarrier),
       show("bytesRead", "bytes_read", float64Carrier),
       show("bytesWritten", "bytes_written", float64Carrier),
       show("destroyed", "destroyed", boolCarrier), show("pending", "pending", boolCarrier),
       show("connecting", "connecting", boolCarrier),
       [show("remoteAddress", "remote_address", optionalStringCarrier) EXCEPT !.raises = TRUE],
       [show("remotePort", "remote_port", optionalFloat64Carrier) EXCEPT !.raises = TRUE]}
      \cup {look(name, name, netSocketCarrier, FALSE, "mut")
            : name \in {"ref", "unref", "pause", "resume"}}

serverOperations ==
  LET call(member, suffix, name, parameters, result, raises, receiver) ==
        instanceCall(serverId, member, suffix, name, netServerCarrier, parameters, result,
                     raises, receiver)
  IN  {call("address", <<>>, <<"address">>, <<>>, optional(addressCarrier), TRUE, "imm"),
       call("close", <<>>, <<"close">>, <<>>, netServerCarrier, TRUE, "mut"),
       call("ref", <<>>, <<"ref">>, <<>>, netServerCarrier, FALSE, "mut"),
       call("unref", <<>>, <<"unref">>, <<>>, netServerCarrier, FALSE, "mut"),
       propertyRead(serverId, "listening", <<"listening">>, netServerCarrier, boolCarrier, "method")}
      \cup {call("listen", row[1], row[2], row[3], netServerCarrier, TRUE, "mut")
            : row \in
              {<<<<"port">>, <<"listen_port">>, <<float64Carrier>>>>,
               <<<<"port", "host">>, <<"listen_port_host">>, <<float64Carrier, nativeString>>>>,
               <<<<"port", "callback">>, <<"listen_port_callback">>,
                 <<float64Carrier, emptyCallbackCarrier>>>>,
               <<<<"port", "host", "callback">>, <<"listen_port_host_callback">>,
                 <<float64Carrier, nativeString, emptyCallbackCarrier>>>>}}

netOperations ==
  networkLifecycleOperations \cup networkRecordOperations
  \cup nodeEventOperations(socketId, netSocketCarrier, socketEvents)
  \cup nodeEventOperations(serverId, netServerCarrier, serverEvents)
  \cup connectionOperations \cup functionOperations \cup socketOperations
  \cup serverOperations
=============================================================================
