---------------------------- MODULE ProviderPackage ----------------------------
(***************************************************************************)
(* The provider package (nodejs/src/provider/package.ts): the tables of    *)
(* all modules put together, and withNodeModuleObjects                     *)
(* (module-objects.ts), which gives a module without a default export one: *)
(* a class whose static members project the module's functions and values. *)
(*                                                                         *)
(* The state machine first runs that projection, one module a step, and    *)
(* then answers the compiler: a source program imports a module under one  *)
(* of its names and uses something declared there, and the operations that *)
(* fit the use are looked up by id.  The compiler (@tsonic/target-mojo) is *)
(* external: what it needs is that exactly one operation fits and that its *)
(* carriers are those of the declared types.                               *)
(*                                                                         *)
(* Twelve of the package's twenty-three modules are tabulated: those whose *)
(* runtime is asynchronous.  Of the others only Buffer appears, a type of  *)
(* theirs that these use.                                                  *)
(***************************************************************************)
EXTENDS ProviderModel, TLC

Dns == INSTANCE NodeDns
Events == INSTANCE NodeEvents
Http == INSTANCE NodeHttp
Net == INSTANCE NodeNet
Readline == INSTANCE NodeReadline
Stream == INSTANCE NodeStream
Timers == INSTANCE NodeTimers
Tls == INSTANCE NodeTls
Workers == INSTANCE NodeWorkers
Zlib == INSTANCE NodeZlib

VARIABLES
  position,   \* the module the projection comes to next
  failed,     \* the projection threw
  defaults,   \* the members of the default exports made so far, by module
  additions,  \* the operations made for them
  specifier,  \* the name under which the program imported, "" before it did
  use,        \* what it uses of the module, NoUse before it does
  bound       \* the operations found for the use

vars == <<position, failed, defaults, additions, specifier, use, bound>>

(***************************************************************************)
(* The package's tables.                                                   *)
(***************************************************************************)
moduleOf(name, exports) == [moduleSpecifier |-> name, exports |-> exports]
modules ==
  <<moduleOf("node:dns", Dns!dnsModule), moduleOf("node:dns/promises", Dns!dnsPromisesModule),
    moduleOf("node:events", Events!eventsModule), moduleOf("node:http", Http!httpModule),
    moduleOf("node:https", Http!httpsModule), moduleOf("node:net", Net!netModule),
    moduleOf("node:readline", Readline!readlineModule),
    moduleOf("node:stream", Stream!streamModule), moduleOf("node:timers", Timers!timersModule),
    moduleOf("node:tls", Tls!tlsModule),
    moduleOf("node:worker_threads", Workers!workerThreadsModule),
    moduleOf("node:zlib", Zlib!zlibModule)>>

\* The one type that a module outside these lends to them.
bufferTypes == {nodeProviderType(exportIdOf("node:buffer", "Buffer"), bufferCarrier, FALSE)}
types ==
  bufferTypes \cup Dns!dnsTypes \cup Events!eventsTypes \cup Http!httpTypes
  \cup Http!httpsTypes \cup Net!netTypes \cup Readline!readlineTypes
  \cup Stream!streamTypes \cup Timers!timersTypes \cup Tls!tlsTypes
  \cup Workers!workerThreadsTypes \cup Zlib!zlibTypes

operations ==
  Dns!dnsOperations \cup Events!eventsOperations \cup Http!httpOperations
  \cup Http!httpsOperations \cup Net!netOperations \cup Readline!readlineOperations
  \cup Stream!streamOperations \cup Timers!timersOperations \cup Tls!tlsOperations
  \cup Workers!workerThreadsOperations \cup Zlib!zlibOperations

\* The bare names of the tabulated modules.
moduleAliases ==
  ("dns" :> "node:dns") @@ ("dns/promises" :> "node:dns/promises")
  @@ ("events" :> "node:events") @@ ("http" :> "node:http")
  @@ ("https" :> "node:https") @@ ("net" :> "node:net")
  @@ ("readline" :> "node:readline") @@ ("stream" :> "node:stream")
  @@ ("timers" :> "node:timers") @@ ("tls" :> "node:tls")
  @@ ("worker_threads" :> "node:worker_threads") @@ ("zlib" :> "node:zlib")

moduleNames == {modules[i].moduleSpecifier : i \in DOMAIN modules}
canonical(name) == IF name \in DOMAIN moduleAliases THEN moduleAliases[name] ELSE name
exportsOf(name) ==
  UNION {modules[i].exports : i \in {j \in DOMAIN modules : modules[j].moduleSpecifier = name}}

(***************************************************************************)
(* withNodeModuleObjects: one turn of its loop over the modules.           *)
(***************************************************************************)
moduleObjects ==
  {"node:buffer", "node:child_process", "node:crypto", "node:dns", "node:dns/promises",
   "node:fs", "node:fs/promises", "node:http", "node:https", "node:net", "node:os",
   "node:path", "node:readline", "node:timers", "node:tls", "node:url", "node:util",
   "node:worker_threads", "node:zlib"}

defaultId(module) == <<module.moduleSpecifier, ".default">>
projectedId(module, declaration) == memberIdOf(defaultId(module), declaration.id[2])
projectedSignatureId(memberId, signatureId) == signatureIdOf(memberId, signatureId[2])
\* Mutant: the values of a module are left out of its default export.
projectableMutant(module) == {d \in module.exports : d.kind = "function"}
projectable(module) == {d \in module.exports : d.kind \in {"function", "value"}}

projectedMember(module, d) ==
  LET memberId == projectedId(module, d)
  IN  memberOf(memberId, IF d.kind = "function" THEN "method" ELSE "property",
               {[s EXCEPT !.id = projectedSignatureId(memberId, s.id)] : s \in d.signatures},
               d.type, TRUE, FALSE)

exportOperations(d) == {o \in operations : o.exportId = d.id /\ o.memberId = Absent}
undeclared(d) ==
  {o \in exportOperations(d) : /\ o.signatureId # Absent
                               /\ ~\E s \in d.signatures : s.id = o.signatureId}
projectedOperations(module, d) ==
  LET memberId == projectedId(module, d)
  IN  {[o EXCEPT !.exportId = defaultId(module), !.memberId = memberId,
                 !.signatureId = IF @ = Absent THEN Absent
                                 ELSE projectedSignatureId(memberId, @),
                 !.operationKind = IF d.kind = "value" THEN "property" ELSE @]
       : o \in exportOperations(d)}

\* A module that is not listed stays as it is; one that already has a default
\* export, or an operation for a signature it does not declare, throws.
ProjectModule ==
  /\ position <= Len(modules) /\ ~failed
  /\ LET module == modules[position]
         name == module.moduleSpecifier
         declarations == projectable(module)
         throws == \/ \E e \in module.exports : e.exportKind = "default"
                   \/ \E d \in declarations : undeclared(d) # {}
     IN  IF name \notin moduleObjects
         THEN UNCHANGED <<failed, defaults, additions>>
         ELSE IF throws
         THEN failed' = TRUE /\ UNCHANGED <<defaults, additions>>
         ELSE /\ defaults' = defaults @@ (name :> {projectedMember(module, d) : d \in declarations})
              /\ additions' = additions \cup UNION {projectedOperations(module, d) : d \in declarations}
              /\ UNCHANGED failed
  /\ position' = position + 1
  /\ UNCHANGED <<specifier, use, bound>>

(***************************************************************************)
(* What a program may do with what is declared: call a signature, construct*)
(* with one, read a property or value, write a property that is not        *)
(* readonly.                                                               *)
(***************************************************************************)
NoUse == [access |-> "none"]
useOf(ids, access, parameters, result) ==
  [exportId |-> ids[1], memberId |-> ids[2], signatureId |-> ids[3], access |-> access,
   parameters |-> parameters, result |-> result]
typesOf(parameters) == [i \in DOMAIN parameters |-> parameters[i].type]
propertyType(member) ==
  IF member.optional THEN union({member.type, undefinedType}) ELSE member.type

memberUses(exportId, member) ==
  {useOf(<<exportId, member.id, s.id>>,
         IF member.kind = "constructor" THEN "constructor" ELSE "call",
         typesOf(s.parameters), s.returnType) : s \in member.signatures}
  \cup IF member.kind # "property" THEN {}
       ELSE {useOf(<<exportId, member.id, Absent>>, "property", <<>>, propertyType(member))}
            \cup IF member.readonly THEN {}
                 ELSE {useOf(<<exportId, member.id, Absent>>, "property-set",
                             <<propertyType(member)>>, voidType)}
exportUses(d) ==
  UNION {memberUses(d.id, member) : member \in d.members}
  \cup {useOf(<<d.id, Absent, s.id>>, "call", typesOf(s.parameters), s.returnType)
        : s \in d.signatures}
  \cup IF d.kind # "value" THEN {}
       ELSE {useOf(<<d.id, Absent, Absent>>, "property", <<>>, d.type)}
declaredUses(name) == UNION {exportUses(d) : d \in exportsOf(name)}
defaultUses(name) ==
  IF name \notin DOMAIN defaults THEN {}
  ELSE UNION {memberUses(<<name, ".default">>, member) : member \in defaults[name]}

fits(o, u) ==
  /\ o.exportId = u.exportId /\ o.memberId = u.memberId
  /\ o.signatureId = u.signatureId /\ o.operationKind = u.access

Ready == position > Len(modules) /\ ~failed

Import(name) ==
  /\ Ready /\ specifier = ""
  /\ specifier' = name
  /\ UNCHANGED <<position, failed, defaults, additions, use, bound>>

Bind(u) ==
  /\ specifier # "" /\ use = NoUse
  /\ use' = u
  /\ bound' = {o \in operations \cup additions : fits(o, u)}
  /\ UNCHANGED <<position, failed, defaults, additions, specifier>>

\* The program goes on to its next import.
Continue ==
  /\ use # NoUse
  /\ specifier' = "" /\ use' = NoUse /\ bound' = {}
  /\ UNCHANGED <<position, failed, defaults, additions>>

Init ==
  /\ position = 1 /\ failed = FALSE
  /\ defaults = [name \in {} |-> {}] /\ additions = {}
  /\ specifier = "" /\ use = NoUse /\ bound = {}

Next ==
  \/ ProjectModule
  \/ \E name \in moduleNames \cup DOMAIN moduleAliases : Import(name)
  \/ \E u \in declaredUses(canonical(specifier)) \cup defaultUses(canonical(specifier)) : Bind(u)
  \/ Continue

Spec == Init /\ [][Next]_vars

(***************************************************************************)
(* The event names the runtime's listener methods accept, by the suffix    *)
(* the methods are named for: any other name raises there.                 *)
(***************************************************************************)
readableAccepts ==
  ("data" :> {"data"}) @@ ("error" :> {"error"})
  @@ ("empty" :> {"end", "close", "readable", "pause", "resume"})
writableAccepts ==
  ("error" :> {"error"}) @@ ("empty" :> {"drain", "finish", "close"})
interfaceAccepts ==
  ("line" :> {"line"}) @@ ("error" :> {"error"}) @@ ("empty" :> {"pause", "resume", "close"})
socketAccepts ==
  ("data" :> {"data"}) @@ ("error" :> {"error"}) @@ ("close" :> {"close"})
  @@ ("empty" :> {"connect", "end", "finish", "drain", "timeout", "readable"})
serverAccepts ==
  ("connection" :> {"connection"}) @@ ("error" :> {"error"})
  @@ ("empty" :> {"listening", "close"})
tlsSocketAccepts ==
  ("data" :> {"data"}) @@ ("error" :> {"error"}) @@ ("close" :> {"close"})
  @@ ("empty" :> {"secureConnect", "end", "finish", "drain", "timeout", "readable"})
tlsServerAccepts ==
  ("tls_client_error" :> {"tlsClientError"}) @@ ("connection" :> {"secureConnection"})
  @@ ("error" :> {"error"}) @@ ("empty" :> {"listening", "close"})
acceptsOf ==
  (readableCarrier :> readableAccepts) @@ (writableCarrier :> writableAccepts)
  @@ (readlineInterfaceCarrier :> interfaceAccepts) @@ (netSocketCarrier :> socketAccepts)
  @@ (netServerCarrier :> serverAccepts) @@ (tlsSocketCarrier :> tlsSocketAccepts)
  @@ (tlsServerCarrier :> tlsServerAccepts)

(***************************************************************************)
(* Properties.                                                             *)
(***************************************************************************)
\* README: "Provider identities and overloads are exact closed data. Missing
\* operations do not fall back to runtime name lookup."  Whatever a program
\* uses, by whichever name of the module and through the default export or
\* not, exactly one operation fits; once the package is built every operation
\* fits some use; and building it never throws.
ExactClosedData ==
  /\ ~failed
  /\ use # NoUse => Cardinality(bound) = 1
  /\ (Ready /\ specifier = "") =>
       \A o \in operations \cup additions :
         \E u \in declaredUses(o.exportId[1]) \cup defaultUses(o.exportId[1]) : fits(o, u)

\* The carrier of a declared class or record.
carrierOf(exportId) ==
  (CHOOSE t \in types : t.exportId = exportId).targetType
literals(type) ==
  IF type[1] = "union" THEN {t[2] : t \in {x \in type[2] : x[1] = "literal"}}
  ELSE IF type[1] = "literal" THEN {type[2]} ELSE {}
onlyLiterals(type) ==
  type[1] = "literal" \/ (type[1] = "union" /\ \A t \in type[2] : t[1] = "literal")
truths == {"true", "false"}

\* Whether a carrier can stand for the values of a source type: the rules the
\* tables follow throughout.
RECURSIVE Lowers(_, _)
Lowers(type, carrier) ==
  CASE type = stringType -> carrier = nativeString
    [] type = numberType -> carrier = float64Carrier
    [] type = booleanType -> carrier = boolCarrier
    [] type = int32Type -> carrier = int32Carrier
    [] type \in {voidType, undefinedType} -> carrier = unitCarrier
    [] type = anyType -> carrier = jsValueCarrier
    [] type = errorType -> carrier = errorCarrier
    [] type[1] = "provider-ref" -> carrier = carrierOf(<<type[2], type[3]>>)
    [] type[1] = "promise" -> carrier[1] = "future" /\ Lowers(type[2], carrier[2])
    [] type[1] = "record" ->
         carrier[1] = "dictionary" /\ Lowers(type[2], carrier[2]) /\ Lowers(type[3], carrier[3])
    [] type[1] = "array" -> carrier[1] = "list" /\ Lowers(type[2], carrier[2])
    [] type[1] = "function" ->
         /\ carrier[1] = "callable" /\ Len(type[3]) = Len(carrier[2])
         /\ \A i \in DOMAIN type[3] : Lowers(type[3][i], carrier[2][i])
    [] onlyLiterals(type) ->
         IF literals(type) \subseteq truths THEN carrier = boolCarrier
         ELSE carrier \in {nativeString, jsValueCarrier}
    [] type[1] = "union" ->
         LET present == type[2] \ {undefinedType, nullType}
             whole == IF Cardinality(present) = 1 THEN CHOOSE t \in present : TRUE
                      ELSE union(present)
         IN  IF {anyType, symbolType} \cap present # {} THEN carrier = jsValueCarrier
             ELSE IF present # type[2] THEN carrier[1] = "optional" /\ Lowers(whole, carrier[2])
             ELSE /\ carrier[1] = "union"
                  /\ \A t \in present : \E c \in carrier[2] : Lowers(t, c)
                  /\ \A c \in carrier[2] : \E t \in present : Lowers(t, c)
    [] OTHER -> FALSE

\* What is passed in may be carried by an optional; a field is also read as one
\* when a record that shares the carrier may leave it out.
Takes(type, carrier) ==
  Lowers(type, carrier) \/ (carrier[1] = "optional" /\ Lowers(type, carrier[2]))
sharedFields(u) ==
  {v \in UNION {declaredUses(t.exportId[1]) : t \in types} :
     /\ v.access = "property" /\ v.memberId # Absent
     /\ carrierOf(v.exportId) = carrierOf(u.exportId) /\ v.memberId[3] = u.memberId[3]}
Gives(u, carrier) ==
  \/ Lowers(u.result, carrier)
  \/ /\ u.access = "property" /\ u.memberId # Absent
     /\ \E v \in sharedFields(u) : Lowers(v.result, carrier)

\* The operation a use is bound to takes as many arguments as the declaration
\* has parameters, each carried as its declared type is; it gives back the
\* declared result (a constructor the class itself), and is called on the
\* carrier of the class that declares it.
CarriersAgree ==
  \A o \in bound :
    /\ Len(o.parameterTypes) = Len(use.parameters)
    /\ \A i \in DOMAIN use.parameters : Takes(use.parameters[i], o.parameterTypes[i])
    /\ IF use.access = "constructor" THEN o.resultType = carrierOf(use.exportId)
       ELSE Gives(use, o.resultType)
    /\ o.receiverType # Absent => o.receiverType = carrierOf(use.exportId)

\* Using a function or value through the default export is using it by name:
\* a default member exists for exactly the functions and values of a listed
\* module, and it is bound to the same target with the same carriers.
SameThroughDefault ==
  /\ Ready => \A i \in DOMAIN modules :
       LET name == modules[i].moduleSpecifier IN
       (name \in moduleObjects) =>
         {u.memberId[3] : u \in defaultUses(name)} =
         {u.exportId[2] : u \in {v \in declaredUses(name) : v.memberId = Absent}}
  /\ (use # NoUse /\ use.exportId[2] = ".default") =>
       \A o \in bound : \E named \in operations :
         /\ named.exportId = <<use.exportId[1], use.memberId[3]>> /\ named.memberId = Absent
         /\ (named.signatureId = Absent) <=> (o.signatureId = Absent)
         /\ named.signatureId # Absent => named.signatureId[2] = o.signatureId[2]
         /\ named.target = o.target /\ named.parameterTypes = o.parameterTypes
         /\ named.resultType = o.resultType /\ named.raises = o.raises

\* A listener added for a declared event never raises for its name: the names
\* a declaration admits are exactly those the Mojo method it is bound to
\* accepts, and no name is admitted by two signatures of the same method.
EventsAccepted ==
  \A o \in bound :
    (Len(o.target.name) = 2 /\ o.target.name[1] \in eventMethods
     /\ o.receiverType \in DOMAIN acceptsOf) =>
      /\ literals(use.parameters[1]) = acceptsOf[o.receiverType][o.target.name[2]]
      /\ \A u \in declaredUses(use.exportId[1]) :
           (u.memberId = use.memberId /\ u # use) =>
             literals(u.parameters[1]) \cap literals(use.parameters[1]) = {}
=============================================================================
