------------------------------ MODULE NodeEvents ------------------------------
(***************************************************************************)
(* `node:events` (nodejs/src/provider/modules/events.ts): EventEmitter,    *)
(* whose listeners and emits come in one signature per number of values.   *)
(***************************************************************************)
EXTENDS ProviderModel

moduleSpecifier == "node:events"
emitterId == exportIdOf(moduleSpecifier, "EventEmitter")
emitterType == providerRef(moduleSpecifier, "EventEmitter")
eventNameType == union({stringType, symbolType})

Arities == 0..3
\* The word an arity is written as, in a signature and in a target's name.
arityWord == <<"0", "1", "2", "3">>
word(arity) == arityWord[arity + 1]
suffixed(name, arity) == IF arity = 0 THEN <<name>> ELSE <<name, word(arity)>>
values(arity) == [i \in 1..arity |-> anyType]
listenerMembers ==
  {"addListener", "on", "once", "off", "prependListener", "prependOnceListener",
   "removeListener"}

listenerMember(name) ==
  LET id == memberIdOf(emitterId, name)
  IN  overloadedMethodMember(emitterId, name,
        {overload(<<word(arity)>>,
                  <<param("eventName", eventNameType),
                    param("listener", providerCallbackType(
                      <<id, <<"Listener", word(arity)>>>>, "listener", values(arity)))>>,
                  emitterType) : arity \in Arities})
emitMember ==
  overloadedMethodMember(emitterId, "emit",
    {overload(<<word(arity)>>,
              <<param("eventName", eventNameType)>>
                \o [i \in 1..arity |-> param("value", anyType)],
              booleanType) : arity \in Arities})

eventsModule ==
  {classExport(emitterId,
     {constructorMember(emitterId, <<>>), emitMember,
      methodMember(emitterId, "eventNames", <<>>, arrayType(eventNameType)),
      methodMember(emitterId, "getMaxListeners", <<>>, numberType),
      methodMember(emitterId, "listenerCount", <<param("eventName", eventNameType)>>,
                   numberType),
      overloadedMethodMember(emitterId, "removeAllListeners",
        {plainOverload(<<>>, emitterType),
         plainOverload(<<param("eventName", eventNameType)>>, emitterType)}),
      methodMember(emitterId, "setMaxListeners", <<param("count", numberType)>>, emitterType)}
     \cup {listenerMember(name) : name \in listenerMembers}),
   fnExport(moduleSpecifier, "listenerCount",
            <<param("emitter", emitterType), param("eventName", eventNameType)>>, numberType)}

eventsTypes == {nodeProviderType(emitterId, eventEmitterCarrier, FALSE)}

instance(member, name, suffix, parameterTypes, resultType, mutating, raises) ==
  instanceCall(emitterId, member, suffix, name, eventEmitterCarrier, parameterTypes,
               resultType, raises, IF mutating THEN "mut" ELSE "imm")

\* The runtime method that adds or removes for a listener member.
listenerTarget(member) ==
  CASE member = "once" -> "once_callable"
    [] member = "prependListener" -> "prepend_callable"
    [] member = "prependOnceListener" -> "prepend_once_callable"
    [] member \in {"off", "removeListener"} -> "off_callable"
    [] OTHER -> "on_callable"

eventsOperations ==
  LET callbackCarriers == <<emptyCallbackCarrier, oneValueCallbackCarrier,
                            twoValueCallbackCarrier, threeValueCallbackCarrier>>
      emitter == eventEmitterCarrier
  IN  {constructorCall(emitterId, <<>>, "events", <<"event_emitter_new">>, <<>>, emitter, FALSE)}
      \cup {instance(member, suffixed(listenerTarget(member), arity), <<word(arity)>>,
                     <<jsValueCarrier, callbackCarriers[arity + 1]>>, emitter, TRUE, TRUE)
            : member \in listenerMembers, arity \in Arities}
      \cup {instance("emit", suffixed("emit_callable", arity), <<word(arity)>>,
                     [i \in 1..(arity + 1) |-> jsValueCarrier], boolCarrier, TRUE, TRUE)
            : arity \in Arities}
      \cup {instance("listenerCount", <<"listener_count">>, <<"eventName">>,
                     <<jsValueCarrier>>, float64Carrier, FALSE, TRUE),
            instance("removeAllListeners", <<"remove_all_listeners">>, <<>>, <<>>, emitter,
                     TRUE, FALSE),
            instance("removeAllListeners", <<"remove_all_listeners_for">>, <<"eventName">>,
                     <<jsValueCarrier>>, emitter, TRUE, TRUE),
            instance("eventNames", <<"event_names">>, <<>>, <<>>, list(jsValueCarrier),
                     FALSE, TRUE),
            instance("getMaxListeners", <<"get_max_listeners">>, <<>>, <<>>, float64Carrier,
                     FALSE, FALSE),
            instance("setMaxListeners", <<"set_max_listeners">>, <<"count">>,
                     <<float64Carrier>>, emitter, TRUE, TRUE),
            functionCall(exportIdOf(moduleSpecifier, "listenerCount"),
                         <<"emitter", "eventName">>, "events", <<"listener_count">>,
                         <<emitter, jsValueCarrier>>, float64Carrier, TRUE)}
=============================================================================
