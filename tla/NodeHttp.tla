-------------------------------- MODULE NodeHttp -------------------------------
(***************************************************************************)
(* `node:http` and `node:https` (nodejs/src/provider/modules/http and      *)
(* https.ts), which share the client.                                      *)
(***************************************************************************)
EXTENDS ProviderModel

Net == INSTANCE NodeNet
Tls == INSTANCE NodeTls

bufferType == providerRef("node:buffer", "Buffer")
incomingType == providerRef("node:http", "IncomingMessage")
responseType == providerRef("node:http", "ServerResponse")
incomingId == exportIdOf("node:http", "IncomingMessage")
responseId == exportIdOf("node:http", "ServerResponse")
serverId(module) == exportIdOf(module, "Server")
serverType(module) == providerRef(module, "Server")

(***************************************************************************)
(* The client (client.ts).                                                 *)
(***************************************************************************)
clientCarrier == namedCarrier("ClientRequest", "http")
optionsCarrier == namedCarrier("RequestOptions", "http")
clientId(module) == exportIdOf(module, "ClientRequest")
optionsId(module) == exportIdOf(module, "RequestOptions")
certificateType == union({stringType, bufferType})
authoritiesType == union({stringType, bufferType, stringArrayType})
certificateCarrier == unionCarrier({nativeString, bufferCarrier})
commonFields ==
  {<<name, name, stringType, optionalStringCarrier>>
   : name \in {"hostname", "path", "method", "protocol"}}
  \cup {<<name, name, numberType, optionalFloat64Carrier>> : name \in {"port", "timeout"}}
tlsFields ==
  {<<"secureContext", "secure_context", Tls!contextType, optional(Tls!secureContextCarrier)>>,
   <<"ca", "ca", authoritiesType,
     optional(unionCarrier({nativeString, bufferCarrier, stringListCarrier}))>>,
   <<"cert", "cert", certificateType, optional(certificateCarrier)>>,
   <<"key", "key", certificateType, optional(certificateCarrier)>>,
   <<"pfx", "pfx", bufferType, optional(bufferCarrier)>>,
   <<"passphrase", "passphrase", stringType, optionalStringCarrier>>,
   <<"minVersion", "min_version", stringType, optionalStringCarrier>>,
   <<"maxVersion", "max_version", stringType, optionalStringCarrier>>,
   <<"rejectUnauthorized", "reject_unauthorized", booleanType, optionalBoolCarrier>>}
fields(module) == IF module = "node:http" THEN commonFields ELSE commonFields \cup tlsFields

chunkOverloads(result) ==
  {overload(<<"string">>, <<param("chunk", stringType)>>, result),
   overload(<<"buffer">>, <<param("chunk", bufferType)>>, result)}
clientRequestExport(module) ==
  LET id == clientId(module)
      clientType == providerRef(module, "ClientRequest")
      name == param("name", stringType)
  IN  classExport(id,
        {overloadedMethodMember(id, "write", chunkOverloads(booleanType)),
         overloadedMethodMember(id, "end",
           {plainOverload(<<>>, clientType)} \cup chunkOverloads(clientType)),
         methodMember(id, "setHeader", <<name, param("value", stringType)>>, voidType),
         methodMember(id, "removeHeader", <<name>>, voidType),
         methodMember(id, "destroy", <<>>, clientType)}
        \cup {propertyMember(id, p, stringType, TRUE, FALSE)
              : p \in {"path", "method", "host", "protocol"}})
requestOverloads(module, name) ==
  LET clientType == providerRef(module, "ClientRequest")
      parameter(kind) == param(kind, IF kind = "url" THEN stringType
                                     ELSE providerRef(module, "RequestOptions"))
      callback(kind) == param("callback", providerCallbackType(
        signatureIdOf(exportIdOf(module, name), <<kind, "callback">>), "callback",
        <<incomingType>>))
  IN  UNION {{plainOverload(<<parameter(kind)>>, clientType),
              plainOverload(<<parameter(kind), callback(kind)>>, clientType)}
             : kind \in {"url", "options"}}
httpClientExports(module) ==
  {interfaceExport(optionsId(module),
     {propertyMember(optionsId(module), f[1], f[3], FALSE, TRUE) : f \in fields(module)}),
   clientRequestExport(module)}
  \cup {overloadedFunctionExport(module, name, requestOverloads(module, name))
        : name \in {"request", "get"}}

httpClientTypes(module) ==
  {nodeProviderType(clientId(module), clientCarrier, FALSE),
   nodeProviderType(optionsId(module), optionsCarrier, TRUE)}

clientRows ==
  {<<"write", "write_string", boolCarrier, <<nativeString>>, <<"string">>>>,
   <<"write", "write_buffer", boolCarrier, <<bufferCarrier>>, <<"buffer">>>>,
   <<"end", "end", clientCarrier, <<>>, <<>>>>,
   <<"end", "end_string", clientCarrier, <<nativeString>>, <<"string">>>>,
   <<"end", "end_buffer", clientCarrier, <<bufferCarrier>>, <<"buffer">>>>,
   <<"setHeader", "set_header", unitCarrier, <<nativeString, nativeString>>, <<"name", "value">>>>,
   <<"removeHeader", "remove_header", unitCarrier, <<nativeString>>, <<"name">>>>,
   <<"destroy", "destroy", clientCarrier, <<>>, <<>>>>}
httpClientOperations(module) ==
  LET id == clientId(module)
      request(name, suffix, parameters) ==
        functionCall(exportIdOf(module, name), suffix,
                     IF module = "node:http" THEN "http" ELSE "https", <<name>>, parameters,
                     clientCarrier, TRUE)
      inputs == {<<"url", nativeString>>, <<"options", optionsCarrier>>}
  IN  {instanceCall(id, row[1], row[5], <<row[2]>>, clientCarrier, row[4], row[3],
                    row[1] # "destroy", "imm") : row \in clientRows}
      \cup {[propertyRead(id, name, <<name>>, clientCarrier, nativeString, "method")
               EXCEPT !.raises = (name # "method")]
            : name \in {"path", "method", "host", "protocol"}}
      \cup UNION {{propertyRead(optionsId(module), f[1], <<f[2]>>, optionsCarrier, f[4], "member"),
                   propertyWrite(optionsId(module), f[1], <<f[2]>>, optionsCarrier, f[4], "member")}
                  : f \in fields(module)}
      \cup {request(name, <<i[1]>>, <<i[2]>>) : name \in {"request", "get"}, i \in inputs}
      \cup {request(name, <<i[1], "callback">>, <<i[2], optional(httpResponseCallbackCarrier)>>)
            : name \in {"request", "get"}, i \in inputs}

(***************************************************************************)
(* node:http (http/index.ts).                                              *)
(***************************************************************************)
handlerParam(module, suffix) ==
  param("handler", providerCallbackType(
    signatureIdOf(exportIdOf(module, "createServer"), suffix), "handler",
    <<incomingType, responseType>>))
httpModule ==
  LET status == param("statusCode", int32Type)
      orMissing(type) == union({type, undefinedType})
  IN  httpClientExports("node:http") \cup
      {classExport(incomingId,
         {propertyMember(incomingId, "method", stringType, TRUE, FALSE),
          propertyMember(incomingId, "url", stringType, TRUE, FALSE),
          propertyMember(incomingId, "statusCode", orMissing(int32Type), TRUE, FALSE),
          methodMember(incomingId, "read", <<>>, orMissing(bufferType)),
          methodMember(incomingId, "readAll", <<>>, stringType),
          methodMember(incomingId, "readAllBuffer", <<>>, bufferType)}),
       classExport(responseId,
         {propertyMember(responseId, "statusCode", int32Type, FALSE, FALSE),
          methodMember(responseId, "setHeader",
                       <<param("name", stringType), param("value", stringType)>>, voidType),
          methodMember(responseId, "writeHead",
                       <<status, param("statusMessage", stringType)>>, voidType),
          methodMember(responseId, "write", <<param("chunk", bufferType)>>, booleanType),
          overloadedMethodMember(responseId, "end",
            {plainOverload(<<>>, voidType)} \cup chunkOverloads(voidType))}),
       classExport(serverId("node:http"),
         {Net!serverListenMember("node:http"),
          methodMember(serverId("node:http"), "close", <<>>, voidType),
          methodMember(serverId("node:http"), "ref", <<>>, serverType("node:http")),
          methodMember(serverId("node:http"), "unref", <<>>, serverType("node:http"))}),
       fnExport("node:http", "createServer", <<handlerParam("node:http", <<"handler">>)>>,
                serverType("node:http"))}

httpTypes ==
  httpClientTypes("node:http") \cup
  {nodeProviderType(incomingId, httpIncomingMessageCarrier, FALSE),
   nodeProviderType(responseId, httpServerResponseCarrier, FALSE),
   nodeProviderType(serverId("node:http"), httpServerCarrier, FALSE)}

incomingOperations ==
  LET read(member, name, result, raises) ==
        instanceCall(incomingId, member, <<>>, <<name>>, httpIncomingMessageCarrier, <<>>,
                     result, raises, "imm")
      show(member, name, result) ==
        propertyRead(incomingId, member, <<name>>, httpIncomingMessageCarrier, result, "member")
  IN  {show("method", "method", nativeString), show("url", "url", nativeString),
       show("statusCode", "status_code", optional(int32Carrier)),
       read("read", "read", optional(bufferCarrier), FALSE),
       read("readAll", "read_all", nativeString, TRUE),
       read("readAllBuffer", "read_all_buffer", bufferCarrier, FALSE)}
responseOperations ==
  LET call(member, suffix, name, parameters, result) ==
        instanceCall(responseId, member, suffix, <<name>>, httpServerResponseCarrier,
                     parameters, result, TRUE, "imm")
  IN  {propertyRead(responseId, "statusCode", <<"status_code">>, httpServerResponseCarrier,
                    int32Carrier, "method"),
       propertyWrite(responseId, "statusCode", <<"set_status_code">>,
                     httpServerResponseCarrier, int32Carrier, "method"),
       call("setHeader", <<"name", "value">>, "set_header", <<nativeString, nativeString>>,
            unitCarrier),
       call("writeHead", <<"statusCode", "statusMessage">>, "write_head",
            <<int32Carrier, nativeString>>, unitCarrier),
       call("write", <<"chunk">>, "write_buffer", <<bufferCarrier>>, boolCarrier),
       call("end", <<>>, "end_empty", <<>>, unitCarrier),
       call("end", <<"string">>, "end_string", <<nativeString>>, unitCarrier),
       call("end", <<"buffer">>, "end_buffer", <<bufferCarrier>>, unitCarrier)}
httpOperations ==
  LET server(name, result) == instanceCall(serverId("node:http"), name, <<>>, <<name>>,
                                           httpServerCarrier, <<>>, result, FALSE, "imm")
  IN  httpClientOperations("node:http") \cup incomingOperations \cup responseOperations
      \cup {functionCall(exportIdOf("node:http", "createServer"), <<"handler">>, "http",
                         <<"create_server">>, <<httpRequestCallbackCarrier>>,
                         httpServerCarrier, FALSE),
            server("close", unitCarrier), server("ref", httpServerCarrier),
            server("unref", httpServerCarrier)}
      \cup Net!serverListenOperations("node:http", httpServerCarrier)

(***************************************************************************)
(* node:https (https.ts).                                                  *)
(***************************************************************************)
serverOptionsId == exportIdOf("node:https", "ServerOptions")
httpsModule ==
  httpClientExports("node:https") \cup
  {Tls!tlsOptionDeclaration(serverOptionsId, Tls!tlsServerFields),
   classExport(serverId("node:https"),
     {Net!serverListenMember("node:https"),
      propertyMember(serverId("node:https"), "listening", booleanType, TRUE, FALSE)}
     \cup {methodMember(serverId("node:https"), name, <<>>,
                        IF name = "close" THEN voidType ELSE serverType("node:https"))
           : name \in {"close", "ref", "unref"}}),
   fnExport("node:https", "createServer",
            <<param("options", providerRef("node:https", "ServerOptions")),
              handlerParam("node:https", <<"options", "handler">>)>>,
            serverType("node:https"))}

httpsTypes ==
  httpClientTypes("node:https") \cup
  {nodeProviderType(serverOptionsId, tlsServerOptionsCarrier, TRUE),
   nodeProviderType(serverId("node:https"), httpsServerCarrier, FALSE)}

httpsOperations ==
  LET id == serverId("node:https")
      server(name, result, raises) ==
        instanceCall(id, name, <<>>, <<name>>, httpsServerCarrier, <<>>, result, raises, "mut")
  IN  Tls!tlsOptionOperations(serverOptionsId, tlsServerOptionsCarrier, Tls!tlsServerFields)
      \cup httpClientOperations("node:https")
      \cup {functionCall(exportIdOf("node:https", "createServer"), <<"options", "handler">>,
                         "https", <<"create_server">>,
                         <<tlsServerOptionsCarrier, httpRequestCallbackCarrier>>,
                         httpsServerCarrier, TRUE),
            server("close", unitCarrier, TRUE), server("ref", httpsServerCarrier, FALSE),
            server("unref", httpsServerCarrier, FALSE),
            propertyRead(id, "listening", <<"listening">>, httpsServerCarrier, boolCarrier,
                         "method")}
      \cup Net!serverListenOperations("node:https", httpsServerCarrier)
=============================================================================
