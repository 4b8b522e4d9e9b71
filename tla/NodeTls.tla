-------------------------------- MODULE NodeTls --------------------------------
(***************************************************************************)
(* `node:tls` (nodejs/src/provider/modules/tls).                           *)
(***************************************************************************)
EXTENDS ProviderModel

Net == INSTANCE NodeNet

moduleSpecifier == "node:tls"
connectOptionsId == exportIdOf(moduleSpecifier, "ConnectionOptions")
serverOptionsId == exportIdOf(moduleSpecifier, "TlsOptions")
contextId == exportIdOf(moduleSpecifier, "SecureContext")
contextOptionsId == exportIdOf(moduleSpecifier, "SecureContextOptions")
socketId == exportIdOf(moduleSpecifier, "TLSSocket")
serverId == exportIdOf(moduleSpecifier, "Server")
socketType == providerRef(moduleSpecifier, "TLSSocket")
serverType == providerRef(moduleSpecifier, "Server")
contextType == providerRef(moduleSpecifier, "SecureContext")
bufferType == providerRef("node:buffer", "Buffer")
negotiatedStringType == union({stringType, literalType("false")})
negotiatedStringCarrier == unionCarrier({nativeString, boolCarrier})

(***************************************************************************)
(* The option records (secure-context.ts, options.ts).                     *)
(***************************************************************************)
secureContextCarrier == namedCarrier("SecureContext", "tls")
secureContextOptionsCarrier == namedCarrier("SecureContextOptions", "tls")
fieldOf(source, target, sourceType, carrier) ==
  [source |-> source, target |-> target, sourceType |-> sourceType, carrier |-> carrier]
secureContextFields ==
  {fieldOf(f[1], f[2], stringType, nativeString) : f \in
     {<<"key", "key">>, <<"cert", "cert">>, <<"passphrase", "passphrase">>,
      <<"minVersion", "min_version">>, <<"maxVersion", "max_version">>}}
  \cup {fieldOf("ca", "ca", stringArrayType, stringListCarrier),
        fieldOf("pfx", "pfx", bufferType, bufferCarrier)}
common ==
  secureContextFields \cup
  {fieldOf("ALPNProtocols", "alpn_protocols", stringArrayType, stringListCarrier),
   fieldOf("rejectUnauthorized", "reject_unauthorized", booleanType, boolCarrier),
   fieldOf("allowHalfOpen", "allow_half_open", booleanType, boolCarrier)}
tlsConnectionFields ==
  common \cup
  {fieldOf("host", "host", stringType, nativeString),
   fieldOf("servername", "servername", stringType, nativeString),
   fieldOf("port", "port", numberType, float64Carrier),
   fieldOf("secureContext", "secure_context", contextType, secureContextCarrier),
   fieldOf("timeout", "timeout", numberType, float64Carrier)}
tlsServerFields ==
  common \cup
  {fieldOf("requestCert", "request_cert", booleanType, boolCarrier),
   fieldOf("handshakeTimeout", "handshake_timeout", numberType, float64Carrier)}
tlsOptionMembers(id, fields) ==
  {propertyMember(id, f.source, f.sourceType, FALSE, TRUE) : f \in fields}
tlsOptionDeclaration(id, fields) == interfaceExport(id, tlsOptionMembers(id, fields))
tlsOptionOperations(id, receiver, fields) ==
  UNION {{propertyRead(id, f.source, <<f.target>>, receiver, optional(f.carrier), "member"),
          propertyWrite(id, f.source, <<f.target>>, receiver, optional(f.carrier), "member")}
         : f \in fields}

(***************************************************************************)
(* The events (events.ts).                                                 *)
(***************************************************************************)
errorEvent == eventDefinition("error", {"error"}, <<errorType>>, <<errorCarrier>>)
\* Mutant: the name of the event is that of a plain socket.
socketEventsMutant ==
  {eventDefinition("data", {"data"}, <<bufferType>>, <<bufferCarrier>>), errorEvent,
   eventDefinition("close", {"close"}, <<booleanType>>, <<boolCarrier>>),
   eventDefinition("empty", {"connect", "drain", "end", "finish", "readable", "timeout"},
                   <<>>, <<>>)}
socketEvents ==
  {eventDefinition("data", {"data"}, <<bufferType>>, <<bufferCarrier>>), errorEvent,
   eventDefinition("close", {"close"}, <<booleanType>>, <<boolCarrier>>),
   eventDefinition("empty", {"secureConnect", "drain", "end", "finish", "readable", "timeout"},
                   <<>>, <<>>)}
serverEvents ==
  {eventDefinition("tls_client_error", {"tlsClientError"}, <<errorType, socketType>>,
                   <<errorCarrier, tlsSocketCarrier>>),
   eventDefinition("connection", {"secureConnection"}, <<socketType>>, <<tlsSocketCarrier>>),
   errorEvent, eventDefinition("empty", {"listening", "close"}, <<>>, <<>>)}

(***************************************************************************)
(* The module (index.ts).                                                  *)
(***************************************************************************)
socketMembers ==
  LET timeout == param("timeout", numberType)
      called == signatureIdOf(memberIdOf(socketId, "setTimeout"), <<"timeout", "callback">>)
      chunks(name, result) == {overload(<<"buffer">>, <<param(name, bufferType)>>, result),
                               overload(<<"string">>, <<param(name, stringType)>>, result)}
  IN  nodeEventMembers(socketId, socketEvents)
      \cup {methodMember(socketId, "isPaused", <<>>, booleanType),
            overloadedMethodMember(socketId, "write", chunks("value", booleanType)),
            methodMember(socketId, "read", <<>>, union({bufferType, nullType})),
            overloadedMethodMember(socketId, "end",
              {plainOverload(<<>>, socketType)} \cup chunks("data", socketType)),
            overloadedMethodMember(socketId, "setNoDelay",
              {plainOverload(<<>>, socketType),
               plainOverload(<<param("value", booleanType)>>, socketType)}),
            overloadedMethodMember(socketId, "setTimeout",
              {plainOverload(<<timeout>>, socketType),
               plainOverload(<<timeout, param("callback",
                 providerCallbackType(called, "callback", <<>>))>>, socketType)})}
      \cup {methodMember(socketId, name, <<>>, socketType)
            : name \in {"ref", "unref", "pause", "resume", "destroy"}}
      \cup {propertyMember(socketId, p[1], p[2], TRUE, FALSE) : p \in
              {<<"authorized", booleanType>>, <<"encrypted", booleanType>>,
               <<"authorizationError", union({stringType, undefinedType})>>,
               <<"servername", union({negotiatedStringType, nullType})>>,
               <<"alpnProtocol", negotiatedStringType>>, <<"bytesRead", numberType>>,
               <<"bytesWritten", numberType>>, <<"destroyed", booleanType>>}}
serverMembers ==
  nodeEventMembers(serverId, serverEvents)
  \cup {methodMember(serverId, "address", <<>>, union({Net!addressType, nullType})),
        Net!serverListenMember(moduleSpecifier),
        propertyMember(serverId, "listening", booleanType, TRUE, FALSE)}
  \cup {methodMember(serverId, name, <<>>, serverType) : name \in {"close", "ref", "unref"}}
tlsModule ==
  LET options(name) == param("options", providerRef(moduleSpecifier, name))
      callback(function, types) ==
        param("callback", providerCallbackType(
          signatureIdOf(exportIdOf(moduleSpecifier, function), <<"options", "callback">>),
          "callback", types))
  IN  {interfaceExport(contextId, {}),
       tlsOptionDeclaration(contextOptionsId, secureContextFields),
       tlsOptionDeclaration(connectOptionsId, tlsConnectionFields),
       tlsOptionDeclaration(serverOptionsId, tlsServerFields),
       classExport(socketId, socketMembers), classExport(serverId, serverMembers),
       overloadedFunctionExport(moduleSpecifier, "createSecureContext",
         {plainOverload(<<>>, contextType),
          plainOverload(<<options("SecureContextOptions")>>, contextType)}),
       overloadedFunctionExport(moduleSpecifier, "connect",
         {plainOverload(<<options("ConnectionOptions")>>, socketType),
          plainOverload(<<options("ConnectionOptions"), callback("connect", <<>>)>>, socketType)}),
       overloadedFunctionExport(moduleSpecifier, "createServer",
         {plainOverload(<<options("TlsOptions")>>, serverType),
          plainOverload(<<options("TlsOptions"), callback("createServer", <<socketType>>)>>,
                        serverType)})}

tlsTypes ==
  {nodeProviderType(contextId, secureContextCarrier, FALSE),
   nodeProviderType(contextOptionsId, secureContextOptionsCarrier, TRUE),
   nodeProviderType(connectOptionsId, tlsConnectOptionsCarrier, TRUE),
   nodeProviderType(serverOptionsId, tlsServerOptionsCarrier, TRUE),
   nodeProviderType(socketId, tlsSocketCarrier, FALSE),
   nodeProviderType(serverId, tlsServerCarrier, FALSE)}

socketCall(member, signature, targetName, parameters, resultType, raises) ==
  instanceCall(socketId, member, signature, <<targetName>>, tlsSocketCarrier, parameters,
               resultType, raises, "mut")
socketProperty(member, targetName, resultType) ==
  propertyRead(socketId, member, <<targetName>>, tlsSocketCarrier, resultType, "method")
socketRows ==
  {socketCall("write", <<"buffer">>, "write_buffer", <<bufferCarrier>>, boolCarrier, TRUE),
   socketCall("write", <<"string">>, "write_string", <<nativeString>>, boolCarrier, TRUE),
   socketCall("read", <<>>, "read", <<>>, optional(bufferCarrier), TRUE),
   socketCall("isPaused", <<>>, "is_paused", <<>>, boolCarrier, FALSE),
   socketProperty("authorized", "authorized", boolCarrier),
   socketProperty("authorizationError", "authorization_error", optionalStringCarrier),
   socketProperty("encrypted", "encrypted", boolCarrier),
   socketProperty("servername", "servername_value", optional(negotiatedStringCarrier)),
   socketProperty("alpnProtocol", "alpn_protocol", negotiatedStringCarrier),
   socketProperty("bytesRead", "bytes_read", float64Carrier),
   socketProperty("bytesWritten", "bytes_written", float64Carrier),
   socketProperty("destroyed", "closed", boolCarrier)}
  \cup {socketCall(row[1], row[2], row[3], row[4], tlsSocketCarrier, TRUE) : row \in
          {<<"end", <<>>, "end", <<>>>>,
           <<"end", <<"buffer">>, "end_buffer", <<bufferCarrier>>>>,
           <<"end", <<"string">>, "end_string", <<nativeString>>>>,
           <<"setNoDelay", <<>>, "set_no_delay", <<>>>>,
           <<"setNoDelay", <<"value">>, "set_no_delay", <<boolCarrier>>>>,
           <<"setTimeout", <<"timeout">>, "set_timeout", <<float64Carrier>>>>,
           <<"setTimeout", <<"timeout", "callback">>, "set_timeout_callback",
             <<float64Carrier, emptyCallbackCarrier>>>>}}
  \cup {socketCall(name, <<>>, name, <<>>, tlsSocketCarrier, FALSE)
        : name \in {"pause", "resume", "destroy", "ref", "unref"}}
serverRows ==
  {instanceCall(serverId, "address", <<>>, <<"address">>, tlsServerCarrier, <<>>,
                optional(Net!addressCarrier), TRUE, "imm"),
   propertyRead(serverId, "listening", <<"listening">>, tlsServerCarrier, boolCarrier, "method")}
  \cup {instanceCall(serverId, name, <<>>, <<name>>, tlsServerCarrier, <<>>, tlsServerCarrier,
                     name = "close", "mut") : name \in {"close", "ref", "unref"}}
functionRows ==
  {functionCall(exportIdOf(moduleSpecifier, row[1]), row[2], "tls", <<row[3]>>, row[4], row[5], TRUE)
   : row \in
     {<<"createSecureContext", <<>>, "create_secure_context", <<>>, secureContextCarrier>>,
      <<"createSecureContext", <<"options">>, "create_secure_context",
        <<secureContextOptionsCarrier>>, secureContextCarrier>>,
      <<"connect", <<"options">>, "connect", <<tlsConnectOptionsCarrier>>, tlsSocketCarrier>>,
      <<"connect", <<"options", "callback">>, "connect_callback",
        <<tlsConnectOptionsCarrier, emptyCallbackCarrier>>, tlsSocketCarrier>>,
      <<"createServer", <<"options", "callback">>, "create_server",
        <<tlsServerOptionsCarrier, tlsSocketCallbackCarrier>>, tlsServerCarrier>>,
      <<"createServer", <<"options">>, "create_server", <<tlsServerOptionsCarrier>>,
        tlsServerCarrier>>}}
tlsOperations ==
  tlsOptionOperations(contextOptionsId, secureContextOptionsCarrier, secureContextFields)
  \cup tlsOptionOperations(connectOptionsId, tlsConnectOptionsCarrier, tlsConnectionFields)
  \cup tlsOptionOperations(serverOptionsId, tlsServerOptionsCarrier, tlsServerFields)
  \cup nodeEventOperations(socketId, tlsSocketCarrier, socketEvents)
  \cup nodeEventOperations(serverId, tlsServerCarrier, serverEvents)
  \cup functionRows \cup socketRows \cup serverRows
  \cup Net!serverListenOperations(moduleSpecifier, tlsServerCarrier)
=============================================================================
