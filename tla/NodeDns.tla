-------------------------------- MODULE NodeDns --------------------------------
(***************************************************************************)
(* `node:dns` and `node:dns/promises` (nodejs/src/provider/modules/dns.ts  *)
(* and dns/lookup-contract.ts).                                            *)
(***************************************************************************)
EXTENDS ProviderModel

moduleSpecifier == "node:dns"
promisesSpecifier == "node:dns/promises"
lookupAddressId == exportIdOf(moduleSpecifier, "LookupAddress")
addressType == providerRef(moduleSpecifier, "LookupAddress")
addressesType == arrayType(addressType)
addressesCarrier == list(dnsLookupAddressCarrier)
optionsCarrier == namedCarrier("LookupOptions", "dns")

(***************************************************************************)
(* The option records: three source types over one target type.            *)
(***************************************************************************)
optionRecords ==
  {[name |-> "LookupAllOptions", all |-> literalType("true"), optional |-> FALSE],
   [name |-> "LookupOneOptions", all |-> literalType("false"), optional |-> TRUE],
   [name |-> "LookupOptions", all |-> booleanType, optional |-> TRUE]}
optionFields ==
  {<<"family", union({numberType, stringType}),
     optional(unionCarrier({float64Carrier, nativeString}))>>,
   <<"hints", numberType, optionalFloat64Carrier>>,
   <<"verbatim", booleanType, optionalBoolCarrier>>,
   <<"order", stringType, optionalStringCarrier>>}

lookupRecordExports ==
  {LET id == exportIdOf(moduleSpecifier, record.name)
   IN  interfaceExport(id,
         {propertyMember(id, f[1], f[2], FALSE, TRUE) : f \in optionFields}
         \cup {propertyMember(id, "all", record.all, FALSE, record.optional)})
   : record \in optionRecords}
lookupOptionTypes ==
  {nodeProviderType(exportIdOf(moduleSpecifier, record.name), optionsCarrier, TRUE)
   : record \in optionRecords}
lookupOptionOperations ==
  UNION {LET id == exportIdOf(moduleSpecifier, record.name)
         IN  {propertyRead(id, f[1], <<f[1]>>, optionsCarrier, f[3], "member"),
              propertyWrite(id, f[1], <<f[1]>>, optionsCarrier, f[3], "member")}
         : record \in optionRecords,
           f \in optionFields \cup {<<"all", booleanType, optionalBoolCarrier>>}}

(***************************************************************************)
(* The five shapes of lookup, each with a callback and as a promise.       *)
(***************************************************************************)
shape(suffix, parameters, result, resultCarrier, callbackTypes, callbackCarriers, native) ==
  [suffix |-> suffix, parameters |-> parameters, result |-> result,
   resultCarrier |-> resultCarrier, callbackTypes |-> callbackTypes,
   callbackCarrier |-> callbackCarrier(callbackCarriers), native |-> native]
oneShape(suffix, parameters, native) ==
  shape(suffix, parameters, addressType, dnsLookupAddressCarrier,
        <<anyType, union({stringType, undefinedType}), union({numberType, undefinedType})>>,
        dnsLookupCallbackCarrier[2], native)
optionsParameter(name) == <<param("options", providerRef(moduleSpecifier, name))>>

lookupShapes ==
  {oneShape(<<>>, <<>>, "lookup"),
   oneShape(<<"family">>, <<param("family", numberType)>>, "lookup_family"),
   shape(<<"allOptions">>, optionsParameter("LookupAllOptions"), addressesType,
         addressesCarrier, <<anyType, union({addressesType, undefinedType})>>,
         <<jsValueCarrier, optional(addressesCarrier)>>, "lookup_all"),
   oneShape(<<"oneOptions">>, optionsParameter("LookupOneOptions"), "lookup_one"),
   shape(<<"options">>, optionsParameter("LookupOptions"), union({addressType, addressesType}),
         unionCarrier({dnsLookupAddressCarrier, addressesCarrier}),
         <<anyType, union({stringType, addressesType, undefinedType}),
           union({numberType, undefinedType})>>,
         <<jsValueCarrier, optional(unionCarrier({nativeString, addressesCarrier})),
           optionalFloat64Carrier>>, "lookup_any")}

lookupId(promises) ==
  exportIdOf(IF promises THEN promisesSpecifier ELSE moduleSpecifier, "lookup")
lookupSuffix(s, promises) ==
  <<"hostname">> \o s.suffix \o IF promises THEN <<>> ELSE <<"callback">>
lookupExport(promises) ==
  LET id == lookupId(promises)
  IN  overloadedFunctionExport(id[1], id[2],
        {LET suffix == lookupSuffix(s, promises)
         IN  overload(suffix,
               <<param("hostname", stringType)>> \o s.parameters
                 \o IF promises THEN <<>>
                    ELSE <<param("callback", providerCallbackType(
                             signatureIdOf(id, suffix), "callback", s.callbackTypes))>>,
               IF promises THEN sourcePromise(s.result) ELSE voidType)
         : s \in lookupShapes})
lookupCallOperations ==
  {functionCall(lookupId(promises), lookupSuffix(s, promises), "dns",
     <<s.native, IF promises THEN "async" ELSE "callback">>,
     <<nativeString>>
       \o [i \in DOMAIN s.parameters |-> IF s.parameters[i].type = numberType
                                         THEN float64Carrier ELSE optionsCarrier]
       \o IF promises THEN <<>> ELSE <<s.callbackCarrier>>,
     IF promises THEN future(s.resultCarrier) ELSE unitCarrier, TRUE)
   : promises \in BOOLEAN, s \in lookupShapes}

constants == {<<"ADDRCONFIG", "addrconfig">>, <<"V4MAPPED", "v4mapped">>,
              <<"ALL", "all_addresses">>}
lookupConstantExports == {valueExport(moduleSpecifier, c[1], numberType) : c \in constants}
lookupConstantOperations ==
  {functionValue(exportIdOf(moduleSpecifier, c[1]), "dns", <<c[2]>>, float64Carrier)
   : c \in constants}

(***************************************************************************)
(* The modules (dns.ts): the resolvers take a hostname, reverse an address.*)
(***************************************************************************)
resolvers == {"resolve4", "resolve6", "reverse"}
resolverParameter(name) == IF name = "reverse" THEN "address" ELSE "hostname"

dnsModule ==
  lookupRecordExports \cup lookupConstantExports
  \cup {interfaceExport(lookupAddressId,
          {propertyMember(lookupAddressId, "address", stringType, TRUE, FALSE),
           propertyMember(lookupAddressId, "family", numberType, TRUE, FALSE)}),
        lookupExport(FALSE)}
  \cup {LET suffix == <<resolverParameter(name), "callback">>
            signature == signatureIdOf(exportIdOf(moduleSpecifier, name), suffix)
        IN  overloadedFunctionExport(moduleSpecifier, name,
              {overload(suffix,
                 <<param(suffix[1], stringType),
                   param("callback", providerCallbackType(signature, "callback",
                     <<anyType, union({stringArrayType, undefinedType})>>))>>,
                 voidType)})
        : name \in resolvers}

dnsPromisesModule ==
  {lookupExport(TRUE)}
  \cup {fnExport(promisesSpecifier, name, <<param(resolverParameter(name), stringType)>>,
                 sourcePromise(stringArrayType)) : name \in resolvers}

dnsTypes ==
  {nodeProviderType(lookupAddressId, dnsLookupAddressCarrier, FALSE)} \cup lookupOptionTypes

dnsOperations ==
  LET resolve(name, suffix) ==
        functionCall(exportIdOf(moduleSpecifier, name), <<suffix, "callback">>, "dns",
                     <<name, "callback">>, <<nativeString, dnsAddressArrayCallbackCarrier>>,
                     unitCarrier, TRUE)
      resolveAsync(name, suffix) ==
        functionCall(exportIdOf(promisesSpecifier, name), <<suffix>>, "dns",
                     <<name, "async">>, <<nativeString>>, future(stringListCarrier), TRUE)
  IN  lookupCallOperations \cup lookupOptionOperations \cup lookupConstantOperations
      \cup {resolve("resolve4", "hostname"), resolve("resolve6", "hostname"),
            resolve("reverse", "address"),
            propertyRead(lookupAddressId, "address", <<"address_value">>,
                         dnsLookupAddressCarrier, nativeString, "method"),
            propertyRead(lookupAddressId, "family", <<"family_value">>,
                         dnsLookupAddressCarrier, float64Carrier, "method"),
            resolveAsync("resolve4", "hostname"), resolveAsync("resolve6", "hostname"),
            resolveAsync("reverse", "address")}
=============================================================================
