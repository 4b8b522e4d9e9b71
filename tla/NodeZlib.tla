-------------------------------- MODULE NodeZlib -------------------------------
(***************************************************************************)
(* `node:zlib` (nodejs/src/provider/modules/zlib): for every codec a       *)
(* synchronous and a callback function, each in three forms that differ in *)
(* the options' field `info`, and a factory of streams.                    *)
(***************************************************************************)
EXTENDS ProviderModel

moduleSpecifier == "node:zlib"
bufferType == providerRef("node:buffer", "Buffer")
zlibId == exportIdOf(moduleSpecifier, "Zlib")
zlibType == providerRef(moduleSpecifier, "Zlib")
codecs ==
  {<<"gzip", "gzipSync", "gzip", "createGzip", "zlib">>,
   <<"gunzip", "gunzipSync", "gunzip", "createGunzip", "zlib">>,
   <<"deflate", "deflateSync", "deflate", "createDeflate", "zlib">>,
   <<"inflate", "inflateSync", "inflate", "createInflate", "zlib">>,
   <<"deflateRaw", "deflateRawSync", "deflate_raw", "createDeflateRaw", "zlib">>,
   <<"inflateRaw", "inflateRawSync", "inflate_raw", "createInflateRaw", "zlib">>,
   <<"unzip", "unzipSync", "unzip", "createUnzip", "zlib">>,
   <<"brotliCompress", "brotliCompressSync", "brotli_compress", "createBrotliCompress", "brotli">>,
   <<"brotliDecompress", "brotliDecompressSync", "brotli_decompress", "createBrotliDecompress",
     "brotli">>}
families == {"zlib", "brotli"}
modes == {"info", "buffer", "result"}
optionSuffix(mode) ==
  CASE mode = "result" -> "options" [] mode = "info" -> "infoOptions" [] OTHER -> "bufferOptions"
targetSuffix(mode) ==
  CASE mode = "buffer" -> "options" [] mode = "info" -> "info_options" [] OTHER -> "result_options"

(***************************************************************************)
(* The option records (options.ts): three interfaces over one carrier for  *)
(* each family of codecs.                                                  *)
(***************************************************************************)
brotliCarrier == namedCarrier("BrotliOptions", "zlib")
parametersType == recordType(numberType, union({booleanType, numberType}))
parametersCarrier == dictionary(float64Carrier, unionCarrier({float64Carrier, boolCarrier}))
commonFields ==
  {<<"flush", "flush">>, <<"finishFlush", "finish_flush">>, <<"chunkSize", "chunk_size">>,
   <<"maxOutputLength", "max_output_length">>}
zlibFields ==
  {<<"windowBits", "window_bits">>, <<"level", "level">>, <<"memLevel", "mem_level">>,
   <<"strategy", "strategy">>}
optionName(family, mode) ==
  LET names == [zlib |-> [result |-> "ZlibOptions", buffer |-> "ZlibBufferOptions",
                          info |-> "ZlibInfoOptions"],
                brotli |-> [result |-> "BrotliOptions", buffer |-> "BrotliBufferOptions",
                            info |-> "BrotliInfoOptions"]]
  IN  names[family][mode]
optionId(family, mode) == exportIdOf(moduleSpecifier, optionName(family, mode))
sourceOptions(family, mode) == providerRef(moduleSpecifier, optionName(family, mode))
targetOptions(family) == IF family = "zlib" THEN zlibOptionsCarrier ELSE brotliCarrier
fieldOf(source, target, sourceType, targetType, isOptional) ==
  [source |-> source, target |-> target, sourceType |-> sourceType,
   targetType |-> targetType, optional |-> isOptional]
fields(family, mode) ==
  {fieldOf(f[1], f[2], numberType, float64Carrier, TRUE)
   : f \in IF family = "zlib" THEN commonFields \cup zlibFields ELSE commonFields}
  \cup {IF family = "zlib"
        THEN fieldOf("dictionary", "dictionary", bufferType, bufferCarrier, TRUE)
        ELSE fieldOf("params", "params", parametersType, parametersCarrier, TRUE),
        fieldOf("info", "info",
                CASE mode = "result" -> booleanType
                  [] mode = "info" -> literalType("true")
                  [] OTHER -> literalType("false"),
                boolCarrier, mode # "info")}
compressionOptionExports ==
  {interfaceExport(optionId(family, mode),
     {propertyMember(optionId(family, mode), f.source, f.sourceType, FALSE, f.optional)
      : f \in fields(family, mode)})
   : family \in families, mode \in modes}
compressionOptionTypes ==
  {nodeProviderType(optionId(family, mode), targetOptions(family), TRUE)
   : family \in families, mode \in modes}
\* The one field that may not be left out is read by a method and written as
\* if it could be.
optionOperations(family, mode) ==
  LET id == optionId(family, mode)
      carrier == targetOptions(family)
  IN  {propertyRead(id, f.source, <<IF f.optional THEN f.target ELSE "info_value">>, carrier,
                    IF f.optional THEN optional(f.targetType) ELSE f.targetType,
                    IF f.optional THEN "member" ELSE "method") : f \in fields(family, mode)}
      \cup {propertyWrite(id, f.source, <<f.target>>, carrier, optional(f.targetType), "member")
            : f \in fields(family, mode)}
compressionOptionOperations ==
  UNION {optionOperations(family, mode) : family \in families, mode \in modes}

(***************************************************************************)
(* What the functions give back (results.ts).                              *)
(***************************************************************************)
infoId == exportIdOf(moduleSpecifier, "ZlibInfo")
infoType == providerRef(moduleSpecifier, "ZlibInfo")
infoCarrier == namedCarrier("ZlibInfo", "zlib")
sourceResult(mode) ==
  CASE mode = "buffer" -> bufferType [] mode = "info" -> infoType
    [] OTHER -> union({bufferType, infoType})
targetResult(mode) ==
  CASE mode = "buffer" -> bufferCarrier [] mode = "info" -> infoCarrier
    [] OTHER -> unionCarrier({bufferCarrier, infoCarrier})
compressionCallbackType(signature, mode) ==
  providerCallbackType(signature, "callback",
                       <<anyType, union({sourceResult(mode), undefinedType})>>)
\* Mutant: the callback's result is carried as if it were always there.
compressionCallbackCarrierMutant(mode) ==
  callbackCarrier(<<jsValueCarrier, targetResult(mode)>>)
compressionCallbackCarrier(mode) ==
  callbackCarrier(<<jsValueCarrier, optional(targetResult(mode))>>)
compressionInfoExport ==
  interfaceExport(infoId, {propertyMember(infoId, "buffer", bufferType, TRUE, FALSE),
                           propertyMember(infoId, "engine", zlibType, TRUE, FALSE)})
compressionInfoType == nodeProviderType(infoId, infoCarrier, FALSE)
compressionInfoOperations ==
  {propertyRead(infoId, "buffer", <<"buffer">>, infoCarrier, bufferCarrier, "member"),
   propertyRead(infoId, "engine", <<"engine">>, infoCarrier, zlibTransformCarrier, "member")}

(***************************************************************************)
(* The stream (stream.ts): one table of rows feeds both sides.             *)
(***************************************************************************)
argument(name, source, target) == [name |-> name, source |-> source, target |-> target]
input == argument("input", bufferType, bufferCarrier)
text == argument("input", stringType, nativeString)
number(name) == argument(name, numberType, float64Carrier)
callback(member, suffix) ==
  argument("callback",
    providerCallbackType(signatureIdOf(memberIdOf(zlibId, member), suffix), "callback", <<>>),
    emptyCallbackCarrier)
rowOf(name, target, suffix, arguments, result, carrier, raises) ==
  [name |-> name, target |-> target, suffix |-> suffix, arguments |-> arguments,
   result |-> result, carrier |-> carrier, raises |-> raises]
rows ==
  LET flow(name, target, suffix, arguments) ==
        rowOf(name, target, suffix, arguments,
              IF name = "write" THEN booleanType ELSE zlibType,
              IF name = "write" THEN boolCarrier ELSE zlibTransformCarrier, TRUE)
      act(name, target, suffix, arguments, raises) ==
        rowOf(name, target, suffix, arguments, voidType, unitCarrier, raises)
      both == <<"kind", "callback">>
      all == <<"level", "strategy", "callback">>
      called == <<"callback">>
  IN  {flow("write", "write", <<"input">>, <<input>>),
       flow("write", "write_string", <<"text">>, <<text>>),
       rowOf("read", "read", <<>>, <<>>, union({bufferType, undefinedType}),
             optional(bufferCarrier), TRUE),
       flow("end", "end", <<>>, <<>>), flow("end", "end_buffer", <<"input">>, <<input>>),
       flow("end", "end_string", <<"text">>, <<text>>),
       act("flush", "flush", <<>>, <<>>, TRUE),
       act("flush", "flush_kind", <<"kind">>, <<number("kind")>>, TRUE),
       act("flush", "flush_callback", called, <<callback("flush", called)>>, TRUE),
       act("flush", "flush_kind_callback", both, <<number("kind"), callback("flush", both)>>, TRUE),
       act("params", "params_callback", all,
           <<number("level"), number("strategy"), callback("params", all)>>, TRUE),
       act("reset", "reset", <<>>, <<>>, TRUE), act("destroy", "destroy", <<>>, <<>>, FALSE),
       act("close", "close", <<>>, <<>>, FALSE),
       act("close", "close_callback", called, <<callback("close", called)>>, TRUE)}
compressionStreamExport ==
  classExport(zlibId,
    {overloadedMethodMember(zlibId, name,
       {overload(row.suffix,
                 [i \in DOMAIN row.arguments |->
                    param(row.arguments[i].name, row.arguments[i].source)], row.result)
        : row \in {r \in rows : r.name = name}}) : name \in {r.name : r \in rows}}
    \cup {propertyMember(zlibId, "bytesWritten", numberType, TRUE, FALSE),
          propertyMember(zlibId, "closed", booleanType, TRUE, FALSE)})
compressionStreamOperations ==
  {instanceCall(zlibId, row.name, row.suffix, <<row.target>>, zlibTransformCarrier,
                [i \in DOMAIN row.arguments |-> row.arguments[i].target], row.carrier,
                row.raises, "imm") : row \in rows}
  \cup {propertyRead(zlibId, "bytesWritten", <<"bytes_written">>, zlibTransformCarrier,
                     float64Carrier, "method"),
        propertyRead(zlibId, "closed", <<"closed">>, zlibTransformCarrier, boolCarrier, "method")}

(***************************************************************************)
(* The module (index.ts), without the thirty-six numeric constants         *)
(* (constants.ts), which differ in nothing but their names.                *)
(***************************************************************************)
syncOverloads(family) ==
  {plainOverload(<<param("input", bufferType)>>, bufferType)}
  \cup {overload(<<"input", optionSuffix(mode)>>,
                 <<param("input", bufferType), param("options", sourceOptions(family, mode))>>,
                 sourceResult(mode)) : mode \in modes}
callbackOverloads(name, family) ==
  LET answer(suffix, mode) == param("callback", compressionCallbackType(
        signatureIdOf(exportIdOf(moduleSpecifier, name), suffix), mode))
      full(mode) == <<"input", optionSuffix(mode), "callback">>
  IN  {plainOverload(<<param("input", bufferType), answer(<<"input", "callback">>, "buffer")>>,
                     voidType)}
      \cup {overload(full(mode),
                     <<param("input", bufferType), param("options", sourceOptions(family, mode)),
                       answer(full(mode), mode)>>, voidType) : mode \in modes}
zlibModule ==
  compressionOptionExports \cup {compressionInfoExport, compressionStreamExport}
  \cup UNION {{overloadedFunctionExport(moduleSpecifier, c[2], syncOverloads(c[5])),
               overloadedFunctionExport(moduleSpecifier, c[1], callbackOverloads(c[1], c[5])),
               overloadedFunctionExport(moduleSpecifier, c[4],
                 {plainOverload(<<>>, zlibType),
                  plainOverload(<<param("options", sourceOptions(c[5], "result"))>>, zlibType)})}
              : c \in codecs}

zlibTypes ==
  compressionOptionTypes \cup
  {compressionInfoType, nodeProviderType(zlibId, zlibTransformCarrier, FALSE)}

codecOperations(codec) ==
  LET name == codec[1]
      sync == codec[2]
      target == codec[3]
      options == targetOptions(codec[5])
      call(function, suffix, words, parameters, result) ==
        functionCall(exportIdOf(moduleSpecifier, function), suffix, "zlib", words, parameters,
                     result, TRUE)
  IN  {call(sync, <<"input">>, <<target, "sync">>, <<bufferCarrier>>, bufferCarrier),
       call(name, <<"input", "callback">>, <<target, "callback">>,
            <<bufferCarrier, compressionCallbackCarrier("buffer")>>, unitCarrier),
       call(codec[4], <<>>, <<"create", target>>, <<>>, zlibTransformCarrier),
       call(codec[4], <<"options">>, <<"create", target, "options">>, <<options>>,
            zlibTransformCarrier)}
      \cup {call(sync, <<"input", optionSuffix(mode)>>,
                 <<target, "sync", targetSuffix(mode)>>, <<bufferCarrier, options>>,
                 targetResult(mode)) : mode \in modes}
      \cup {call(name, <<"input", optionSuffix(mode), "callback">>,
                 <<target, "callback", targetSuffix(mode)>>,
                 <<bufferCarrier, options, compressionCallbackCarrier(mode)>>, unitCarrier)
            : mode \in modes}
zlibOperations ==
  compressionOptionOperations \cup compressionInfoOperations \cup compressionStreamOperations
  \cup UNION {codecOperations(codec) : codec \in codecs}
=============================================================================
