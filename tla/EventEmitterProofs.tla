-------------------------- MODULE EventEmitterProofs --------------------------
(***************************************************************************)
(* What EventEmitter promises of its groups and of its once listeners, for *)
(* any events and callbacks, any number of registrations and emits nested  *)
(* to any depth.                                                           *)
(*                                                                         *)
(* Neither property is inductive.  A once listener is removed only from    *)
(* the group that the emit holds, which may have been thrown away and      *)
(* replaced since: that no listed group keeps it rests on a registration   *)
(* being a listener of one group at most, and on the group an emit holds   *)
(* being that of every listener of its snapshot.  That it is not called    *)
(* twice rests on the count of its calls being the mark it carries.        *)
(*                                                                         *)
(* With the same facts, and the group an emit holds being one of its event,*)
(* every step of the emitter is one of a table of typed listeners.         *)
(***************************************************************************)
EXTENDS EventEmitter, SequenceTheorems, WellFoundedInduction, TLAPS

Registration == [callback : Callbacks, once : BOOLEAN]
Group == [event : Events, listeners : Seq(Nat)]
Frame == [event : Events, group : Nat, calling : BOOLEAN, rest : Seq(Nat)]

Entry == 1..Len(registrations)

Types ==
  /\ groups \in Seq(Nat) /\ made \in Seq(Group)
  /\ registrations \in Seq(Registration)
  /\ consumed \in SUBSET Nat
  /\ frames \in Seq(Frame)
  /\ calls \in Seq(Nat)

\* Whatever is named exists.
Named ==
  /\ \A i \in 1..Len(groups) : groups[i] \in 1..Len(made)
  /\ \A g \in 1..Len(made) : \A i \in 1..Len(made[g].listeners) : made[g].listeners[i] \in Entry
  /\ consumed \subseteq Entry
  /\ \A f \in 1..Len(frames) : frames[f].group \in 1..Len(made)
  /\ \A f \in 1..Len(frames) : \A i \in 1..Len(frames[f].rest) : frames[f].rest[i] \in Entry

\* An emit inside a listener has that listener still in its snapshot.
Calling == \A f \in 1..Len(frames) : frames[f].calling => Len(frames[f].rest) > 0

\* A registration has one place in one group at most.
OnePlace ==
  \A g, h \in 1..Len(made) :
    \A i \in 1..Len(made[g].listeners), j \in 1..Len(made[h].listeners) :
      made[g].listeners[i] = made[h].listeners[j] => g = h /\ i = j

\* The listeners of a snapshot are listeners of no group but the one held.
Held ==
  \A f \in 1..Len(frames), g \in 1..Len(made) :
    \A k \in 1..Len(frames[f].rest), i \in 1..Len(made[g].listeners) :
      frames[f].rest[k] = made[g].listeners[i] => g = frames[f].group

\* No group, listed or not, has a once listener that was called.
Unmarked ==
  \A g \in 1..Len(made) : \A i \in 1..Len(made[g].listeners) : made[g].listeners[i] \notin consumed

OneGroup ==
  \A i, j \in 1..Len(groups) : made[groups[i]].event = made[groups[j]].event => i = j

NoneEmpty == \A i \in 1..Len(groups) : Len(made[groups[i]].listeners) > 0

\* A once registration was called once if it is marked, and otherwise never.
Counted ==
  /\ Len(calls) = Len(registrations)
  /\ \A r \in Entry : registrations[r].once => calls[r] = IF r \in consumed THEN 1 ELSE 0

IInv == /\ Types /\ Named /\ Calling /\ OnePlace /\ Held /\ Unmarked /\ OneGroup /\ NoneEmpty
        /\ Counted
-----------------------------------------------------------------------------
(***************************************************************************)
(* Popping from a list.                                                    *)
(***************************************************************************)
\* A set of numbers that is not empty has a least one.
LEMMA Least ==
  ASSUME NEW T \in SUBSET Nat, T # {}
  PROVE  \E x \in T : \A y \in T : x <= y
<1>1. PICK x \in T : \A y \in T : ~ (<<y, x>> \in OpToRel(<, Nat))
  BY NatLessThanWellFounded, WFMin, Zenon
<1>2. x \in Nat /\ T \subseteq Nat
  OBVIOUS
<1>3. \A y \in T : ~ (y < x)
  BY <1>1, <1>2 DEF OpToRel
<1>4. \A y \in T : x <= y
  BY <1>2, <1>3
<1> QED
  BY <1>1, <1>4

\* List.pop(index).
LEMMA RemoveAtFacts ==
  ASSUME NEW S, NEW s \in Seq(S), NEW k \in 1..Len(s)
  PROVE  /\ RemoveAt(s, k) \in Seq(S)
         /\ Len(RemoveAt(s, k)) = Len(s) - 1
         /\ \A j \in 1..(Len(s) - 1) : RemoveAt(s, k)[j] = IF j < k THEN s[j] ELSE s[j + 1]
<1> DEFINE before == SubSeq(s, 1, k - 1)
           after == SubSeq(s, k + 1, Len(s))
<1>1. Len(s) \in Nat /\ k \in Nat /\ 1 <= k /\ k <= Len(s)
  OBVIOUS
<1>2. /\ before \in Seq(S) /\ Len(before) = k - 1
      /\ \A j \in 1..(k - 1) : before[j] = s[j]
  BY <1>1
<1>3. /\ after \in Seq(S) /\ Len(after) = Len(s) - k
      /\ \A j \in 1..(Len(s) - k) : after[j] = s[k + j]
  BY <1>1
<1>4. RemoveAt(s, k) = before \o after
  BY DEF RemoveAt
<1> HIDE DEF before, after
<1>5. /\ before \o after \in Seq(S)
      /\ Len(before \o after) = Len(s) - 1
  <2>1. before \o after \in Seq(S) /\ Len(before \o after) = Len(before) + Len(after)
    BY <1>2, <1>3, ConcatProperties
  <2> QED
    BY <1>1, <1>2, <1>3, <2>1
<1>6. ASSUME NEW j \in 1..(Len(s) - 1)
      PROVE  (before \o after)[j] = IF j < k THEN s[j] ELSE s[j + 1]
  <2>1. CASE j < k
    BY <1>1, <1>2, <1>3, <2>1
  <2>2. CASE ~ (j < k)
    <3>1. j - (k - 1) \in 1..(Len(s) - k) /\ k + (j - (k - 1)) = j + 1
      BY <1>1, <2>2
    <3>2. (before \o after)[j] = after[j - (k - 1)]
      BY <1>1, <1>2, <1>3, <2>2
    <3> QED
      BY <1>3, <2>2, <3>1, <3>2
  <2> QED
    BY <2>1, <2>2
<1> QED
  BY <1>4, <1>5, <1>6

\* Where the j-th element after a pop at k was before it: not at k, and no two
\* elements at the same place.
Before(k, j) == IF j < k THEN j ELSE j + 1

AfterPop(s, k, t, S) ==
  /\ t \in Seq(S) /\ Len(t) = Len(s) - 1
  /\ \A j \in 1..Len(t) :
       Before(k, j) \in 1..Len(s) /\ Before(k, j) # k /\ t[j] = s[Before(k, j)]
  /\ \A i, j \in 1..Len(t) : Before(k, i) = Before(k, j) => i = j

\* RemoveAt moves every other element by at most one place.
LEMMA PlacesAfterPop ==
  ASSUME NEW S, NEW s \in Seq(S), NEW k \in 1..Len(s)
  PROVE  AfterPop(s, k, RemoveAt(s, k), S)
<1>1. RemoveAt(s, k) \in Seq(S) /\ Len(RemoveAt(s, k)) = Len(s) - 1
  BY RemoveAtFacts
<1>2. \A j \in 1..(Len(s) - 1) : RemoveAt(s, k)[j] = s[Before(k, j)]
  BY RemoveAtFacts DEF Before
<1>3. \A j \in 1..(Len(s) - 1) : Before(k, j) \in 1..Len(s) /\ Before(k, j) # k
  BY DEF Before
<1>4. \A i, j \in 1..(Len(s) - 1) : Before(k, i) = Before(k, j) => i = j
  BY DEF Before
<1> QED
  BY <1>1, <1>2, <1>3, <1>4 DEF AfterPop

\* without pops one place of x, or leaves alone a list without x.
LEMMA WithoutFacts ==
  ASSUME NEW S, NEW s \in Seq(S), NEW x
  PROVE  /\ (\E i \in 1..Len(s) : s[i] = x) =>
              \E k \in 1..Len(s) : s[k] = x /\ without(s, x) = RemoveAt(s, k)
         /\ ~(\E i \in 1..Len(s) : s[i] = x) => without(s, x) = s
<1>1. ASSUME \E i \in 1..Len(s) : s[i] = x
      PROVE  \E k \in 1..Len(s) : s[k] = x /\ without(s, x) = RemoveAt(s, k)
  <2> DEFINE I == {i \in 1..Len(s) : s[i] = x}
  <2>1. I # {} /\ I \in SUBSET Nat
    BY <1>1
  <2>2. Min(I) \in I
    <3> HIDE DEF I
    <3> QED
      BY <2>1, Least DEF Min
  <2>3. SelectInSeq(s, LAMBDA v : v = x) = Min(I)
    BY <2>1 DEF SelectInSeq
  <2> QED
    BY <1>1, <2>2, <2>3 DEF without, RemoveFirst
<1>2. ~(\E i \in 1..Len(s) : s[i] = x) => without(s, x) = s
  BY DEF without, RemoveFirst
<1> QED
  BY <1>1, <1>2

\* What _find answers: no group of the list is for the event, or the one it
\* answers is.
LEMMA FindFacts ==
  ASSUME Types, Named, NEW e
  PROVE  /\ _find(e) = 0 => \A i \in 1..Len(groups) : made[groups[i]].event # e
         /\ _find(e) # 0 => \E i \in 1..Len(groups) :
                              _find(e) = groups[i] /\ made[groups[i]].event = e
<1> DEFINE I == {i \in 1..Len(groups) : made[groups[i]].event = e}
<1>1. DOMAIN groups = 1..Len(groups) /\ Len(groups) \in Nat
  BY DEF Types
<1>2. CASE I = {}
  BY <1>1, <1>2 DEF _find
<1>3. CASE I # {}
  <2>1. PICK i \in I : \A j \in I : i <= j
    <3>1. I \in SUBSET Nat
      OBVIOUS
    <3> HIDE DEF I
    <3> QED
      BY <1>3, <3>1, Least
  <2>2. \A j \in 1..(i - 1) : made[groups[j]].event # e
    <3> SUFFICES ASSUME NEW j \in 1..(i - 1), made[groups[j]].event = e
                 PROVE  FALSE
      OBVIOUS
    <3>1. j \in I
      BY <1>1
    <3>2. i \in Nat /\ i <= j
      BY <2>1, <3>1
    <3> QED
      BY <3>2
  <2> DEFINE k == CHOOSE k \in DOMAIN groups :
                    /\ made[groups[k]].event = e
                    /\ \A j \in 1..(k - 1) : made[groups[j]].event # e
  <2>3. k \in DOMAIN groups /\ made[groups[k]].event = e
    BY <1>1, <2>1, <2>2
  <2>4. _find(e) = groups[k]
    BY <1>1, <2>3 DEF _find
  <2>5. groups[k] # 0
    BY <1>1, <2>3 DEF Named
  <2> HIDE DEF k
  <2> QED
    BY <1>1, <2>3, <2>4, <2>5
<1> QED
  BY <1>2, <1>3
-----------------------------------------------------------------------------
\* The type of a group.
LEMMA GroupTyped ==
  ASSUME Types, NEW g \in 1..Len(made)
  PROVE  made[g] \in Group /\ made[g].listeners \in Seq(Nat) /\ made[g].event \in Events
<1>1. made[g] \in Group
  BY DEF Types
<1> QED
  BY <1>1 DEF Group

\* IInv says what the two properties do.
LEMMA Implied ==
  ASSUME IInv
  PROVE  GroupsSound /\ CalledOnce
<1>1. /\ DOMAIN groups = 1..Len(groups) /\ DOMAIN calls = Entry
      /\ \A g \in 1..Len(made) : made[g].listeners \in Seq(Nat)
  <2>1. calls \in Seq(Nat) /\ groups \in Seq(Nat)
    BY DEF IInv, Types
  <2>2. DOMAIN calls = Entry
    BY <2>1 DEF IInv, Counted, Entry
  <2> QED
    BY <2>1, <2>2, GroupTyped DEF IInv
<1>2. \A i \in DOMAIN groups : groups[i] \in 1..Len(made)
  BY <1>1 DEF IInv, Named
<1>3. \A i \in DOMAIN groups : made[groups[i]].listeners # <<>>
  BY <1>1 DEF IInv, NoneEmpty
<1>4. ASSUME NEW i \in DOMAIN groups
      PROVE  ToSet(made[groups[i]].listeners) \cap consumed = {}
  <2>1. DOMAIN made[groups[i]].listeners = 1..Len(made[groups[i]].listeners)
    BY <1>1, <1>2
  <2> QED
    BY <1>2, <2>1 DEF IInv, Unmarked, ToSet
<1>5. GroupsSound
  BY <1>1, <1>3, <1>4 DEF IInv, OneGroup, GroupsSound
<1>6. CalledOnce
  BY <1>1 DEF IInv, Counted, CalledOnce
<1> QED
  BY <1>5, <1>6

\* An emitter without listeners.
LEMMA InitKeeps ==
  ASSUME Init
  PROVE  IInv
BY DEF Init, IInv, Types, Named, Calling, OnePlace, Held, Unmarked, OneGroup, NoneEmpty,
       Counted, Entry

\* A listener leaves a group, and with the last of them the group the list.
LEMMA Leaves ==
  ASSUME IInv, NEW g \in 1..Len(made), NEW k \in 1..Len(made[g].listeners),
         made' = [made EXCEPT ![g].listeners = RemoveAt(made[g].listeners, k)],
         groups' = _prune(g, RemoveAt(made[g].listeners, k))
  PROVE  /\ groups' \in Seq(Nat) /\ made' \in Seq(Group) /\ Len(made') = Len(made)
         /\ \A i \in 1..Len(groups') : groups'[i] \in 1..Len(made')
         /\ OnePlace' /\ OneGroup' /\ NoneEmpty'
         /\ \A h \in 1..Len(made) : \A j \in 1..Len(made'[h].listeners) :
              /\ made'[h].listeners[j] # made[g].listeners[k]
              /\ \E i \in 1..Len(made[h].listeners) : made'[h].listeners[j] = made[h].listeners[i]
<1> DEFINE old == made[g].listeners
           new == RemoveAt(made[g].listeners, k)
<1>1. groups \in Seq(Nat) /\ made \in Seq(Group) /\ old \in Seq(Nat) /\ Len(groups) \in Nat
  BY GroupTyped DEF IInv, Types
<1>0. new = RemoveAt(old, k) /\ k \in 1..Len(old)
  OBVIOUS
<1>2. /\ new \in Seq(Nat) /\ Len(new) = Len(old) - 1
      /\ \A j \in 1..Len(new) :
           Before(k, j) \in 1..Len(old) /\ Before(k, j) # k /\ new[j] = old[Before(k, j)]
      /\ \A i, j \in 1..Len(new) : Before(k, i) = Before(k, j) => i = j
  <2> HIDE DEF old, new
  <2> QED
    <3>1. AfterPop(old, k, new, Nat)
      BY <1>1, <1>0, PlacesAfterPop
    <3> QED
      BY <3>1 DEF AfterPop
<1>3. /\ made' \in Seq(Group) /\ Len(made') = Len(made)
      /\ made'[g].listeners = new
      /\ \A h \in 1..Len(made) : made'[h].event = made[h].event
      /\ \A h \in 1..Len(made) : h # g => made'[h].listeners = made[h].listeners
  <2> DEFINE x == [made[g] EXCEPT !.listeners = new]
  <2>1. x \in Group /\ x.event = made[g].event /\ x.listeners = new
    <3> HIDE DEF new
    <3> QED
      BY <1>2, GroupTyped DEF IInv, Group
  <2>2. made' = [made EXCEPT ![g] = x]
    BY <1>1
  <2> HIDE DEF x, new
  <2>3. made' \in Seq(Group) /\ Len(made') = Len(made)
    <3>1. made \in [1..Len(made) -> Group] /\ Len(made) \in Nat
      BY <1>1
    <3>2. made' \in [1..Len(made) -> Group]
      BY <2>1, <2>2, <3>1
    <3> QED
      BY <3>1, <3>2
  <2>4. \A h \in 1..Len(made) : made'[h] = IF h = g THEN x ELSE made[h]
    BY <1>1, <2>2
  <2> QED
    BY <2>1, <2>3, <2>4
<1>4. \A i, j \in 1..Len(old) : old[i] = old[j] => i = j
  BY DEF IInv, OnePlace
<1>5. \A h \in 1..Len(made), i \in 1..Len(old) : \A j \in 1..Len(made[h].listeners) :
        old[i] = made[h].listeners[j] => g = h
  BY DEF IInv, OnePlace
<1>6. \A j \in 1..Len(new) : new[j] # old[k] /\ \E i \in 1..Len(old) : new[j] = old[i]
  <2> HIDE DEF old, new
  <2> QED
    BY <1>0, <1>2, <1>4
<1>7. \A i, j \in 1..Len(new) : new[i] = new[j] => i = j
  <2> SUFFICES ASSUME NEW i \in 1..Len(new), NEW j \in 1..Len(new), new[i] = new[j]
               PROVE  i = j
    OBVIOUS
  <2>1. Before(k, i) = Before(k, j)
    <3> HIDE DEF old, new
    <3> QED
      BY <1>2, <1>4
  <2> QED
    BY <1>2, <2>1
<1> HIDE DEF old, new
<1>8. \A h \in 1..Len(made) : \A j \in 1..Len(made'[h].listeners) :
        /\ made'[h].listeners[j] # old[k]
        /\ \E i \in 1..Len(made[h].listeners) : made'[h].listeners[j] = made[h].listeners[i]
  <2> SUFFICES ASSUME NEW h \in 1..Len(made), NEW j \in 1..Len(made'[h].listeners)
               PROVE  /\ made'[h].listeners[j] # old[k]
                      /\ \E i \in 1..Len(made[h].listeners) :
                           made'[h].listeners[j] = made[h].listeners[i]
    OBVIOUS
  <2>1. CASE h = g
    BY <1>3, <1>6, <2>1 DEF old
  <2>2. CASE h # g
    <3>1. k \in 1..Len(old)
      BY DEF old
    <3> QED
      BY <1>3, <1>5, <2>2, <3>1
  <2> QED
    BY <2>1, <2>2
<1>9. OnePlace'
  <2> SUFFICES ASSUME NEW h1 \in 1..Len(made), NEW h2 \in 1..Len(made),
                      NEW i \in 1..Len(made'[h1].listeners), NEW j \in 1..Len(made'[h2].listeners),
                      made'[h1].listeners[i] = made'[h2].listeners[j]
               PROVE  h1 = h2 /\ i = j
    BY <1>3 DEF OnePlace
  <2>1. h1 = h2
    <3>1. PICK i1 \in 1..Len(made[h1].listeners) : made'[h1].listeners[i] = made[h1].listeners[i1]
      BY <1>8
    <3>2. PICK j1 \in 1..Len(made[h2].listeners) : made'[h2].listeners[j] = made[h2].listeners[j1]
      BY <1>8
    <3> QED
      BY <3>1, <3>2 DEF IInv, OnePlace
  <2>2. CASE h1 = g
    BY <1>3, <1>7, <2>1, <2>2
  <2>3. CASE h1 # g
    BY <1>3, <2>1, <2>3 DEF IInv, OnePlace
  <2> QED
    BY <2>1, <2>2, <2>3
<1>10. groups' = IF new # <<>> THEN groups ELSE without(groups, g)
  BY DEF _prune, new
<1>11. \A i, j \in 1..Len(groups) : groups[i] = groups[j] => i = j
  BY DEF IInv, OneGroup
<1>12. \/ groups' = groups /\ \A i \in 1..Len(groups) : Len(made'[groups[i]].listeners) > 0
       \/ \E l \in 1..Len(groups) : groups[l] = g /\ groups' = RemoveAt(groups, l)
  <2>1. \A i \in 1..Len(groups) : groups[i] # g => Len(made'[groups[i]].listeners) > 0
    BY <1>3 DEF IInv, Named, NoneEmpty
  <2>2. CASE new # <<>>
    <3>1. Len(new) > 0
      BY <1>2, <2>2
    <3> QED
      BY <1>3, <1>10, <2>1, <2>2, <3>1
  <2>3. CASE new = <<>>
    <3>1. CASE \E i \in 1..Len(groups) : groups[i] = g
      <4>1. \E l \in 1..Len(groups) : groups[l] = g /\ without(groups, g) = RemoveAt(groups, l)
        BY <1>1, <3>1, WithoutFacts
      <4> QED
        BY <1>10, <2>3, <4>1
    <3>2. CASE ~ \E i \in 1..Len(groups) : groups[i] = g
      <4>1. groups' = groups
        BY <1>1, <1>10, <2>3, <3>2, WithoutFacts
      <4> QED
        BY <2>1, <3>2, <4>1
    <3> QED
      BY <3>1, <3>2
  <2> QED
    BY <2>2, <2>3
<1>13. CASE groups' = groups /\ \A i \in 1..Len(groups) : Len(made'[groups[i]].listeners) > 0
  <2>1. OneGroup'
    BY <1>3, <1>13 DEF IInv, Named, OneGroup
  <2>2. NoneEmpty'
    BY <1>13 DEF NoneEmpty
  <2> QED
    BY <1>1, <1>3, <1>8, <1>9, <1>13, <2>1, <2>2 DEF IInv, Named, old
<1>14. CASE \E l \in 1..Len(groups) : groups[l] = g /\ groups' = RemoveAt(groups, l)
  <2>1. PICK l \in 1..Len(groups) : groups[l] = g /\ groups' = RemoveAt(groups, l)
    BY <1>14
  <2>2. /\ groups' \in Seq(Nat) /\ Len(groups') = Len(groups) - 1
        /\ \A j \in 1..Len(groups') :
             /\ Before(l, j) \in 1..Len(groups) /\ Before(l, j) # l
             /\ groups'[j] = groups[Before(l, j)]
        /\ \A i, j \in 1..Len(groups') : Before(l, i) = Before(l, j) => i = j
    <3>1. AfterPop(groups, l, groups', Nat)
      BY <1>1, <2>1, PlacesAfterPop
    <3> QED
      BY <3>1 DEF AfterPop
  <2>3. \A i \in 1..Len(groups) : groups[i] \in 1..Len(made)
    BY DEF IInv, Named
  <2>4. \A j \in 1..Len(groups') : groups'[j] \in 1..Len(made)
    BY <2>2, <2>3
  <2>5. OneGroup'
    <3> SUFFICES ASSUME NEW i \in 1..Len(groups'), NEW j \in 1..Len(groups'),
                        made'[groups'[i]].event = made'[groups'[j]].event
                 PROVE  i = j
      BY DEF OneGroup
    <3>1. made[groups'[i]].event = made[groups'[j]].event
      BY <1>3, <2>4
    <3>2. Before(l, i) = Before(l, j)
      <4>1. /\ Before(l, i) \in 1..Len(groups) /\ Before(l, j) \in 1..Len(groups)
            /\ groups'[i] = groups[Before(l, i)] /\ groups'[j] = groups[Before(l, j)]
        BY <2>2
      <4> QED
        BY <3>1, <4>1 DEF IInv, OneGroup
    <3> QED
      BY <2>2, <3>2
  <2>6. NoneEmpty'
    <3> SUFFICES ASSUME NEW j \in 1..Len(groups')
                 PROVE  Len(made'[groups'[j]].listeners) > 0
      BY DEF NoneEmpty
    <3>1. PICK i \in 1..Len(groups) : i # l /\ groups'[j] = groups[i]
      BY <2>2
    <3>2. groups[i] # g
      BY <1>11, <2>1, <3>1
    <3> QED
      BY <1>3, <2>3, <3>1, <3>2 DEF IInv, NoneEmpty
  <2> QED
    BY <1>3, <1>8, <1>9, <2>2, <2>4, <2>5, <2>6 DEF old
<1> QED
  BY <1>12, <1>13, <1>14
-----------------------------------------------------------------------------
(***************************************************************************)
(* The emits under way.                                                    *)
(***************************************************************************)
\* The frame x holds the group that y does, and its listeners are among y's.
Within(x, y) ==
  /\ x.group = y.group
  /\ \A k \in 1..Len(x.rest) : \E l \in 1..Len(y.rest) : x.rest[k] = y.rest[l]

FramesWithin ==
  /\ frames' \in Seq(Frame)
  /\ \A f \in 1..Len(frames') : frames'[f].calling => Len(frames'[f].rest) > 0
  /\ \A f \in 1..Len(frames') : \E h \in 1..Len(frames) : Within(frames'[f], frames[h])

\* All of a sequence but its last element.
LEMMA FrontFacts ==
  ASSUME NEW S, NEW s \in Seq(S), Len(s) \in 1..Len(s)
  PROVE  /\ Front(s) \in Seq(S) /\ Len(Front(s)) = Len(s) - 1
         /\ \A f \in 1..(Len(s) - 1) : Front(s)[f] = s[f]
<1>1. Len(s) \in Nat /\ Len(s) >= 1 /\ \A i \in 1..(Len(s) - 1) : s[i] \in S
  OBVIOUS
<1>2. Front(s) \in Seq(S)
  BY <1>1, SubSeqProperties DEF Front
<1>3. Len(Front(s)) = Len(s) - 1
  <2>1. Len(Front(s)) = IF 1 <= Len(s) - 1 THEN (Len(s) - 1) - 1 + 1 ELSE 0
    BY <1>1, SubSeqProperties DEF Front
  <2>2. CASE Len(s) = 1
    BY <2>1, <2>2
  <2>3. CASE Len(s) # 1
    <3>1. 1 <= Len(s) - 1
      <4>1. \A n \in Nat : n >= 1 /\ n # 1 => 1 <= n - 1
        OBVIOUS
      <4> QED
        BY <1>1, <2>3, <4>1
    <3> QED
      BY <1>1, <2>1, <3>1
  <2> QED
    BY <2>2, <2>3
<1>4. \A f \in 1..(Len(s) - 1) : Front(s)[f] = s[f]
  BY <1>1 DEF Front
<1> QED
  BY <1>2, <1>3, <1>4

\* The type of a frame.
LEMMA FrameTyped ==
  ASSUME Types, NEW f \in 1..Len(frames)
  PROVE  /\ frames[f] \in Frame /\ frames[f].rest \in Seq(Nat) /\ frames[f].group \in Nat
         /\ frames[f].calling \in BOOLEAN
<1>1. frames[f] \in Frame
  BY DEF Types
<1> QED
  BY <1>1 DEF Frame

\* The emit on top calls its next listener, or is done with it.
LEMMA WalkFacts ==
  ASSUME IInv, NEW b \in BOOLEAN, frames # <<>>, Len(frame.rest) > 0, walk(b)
  PROVE  FramesWithin
<1> DEFINE n == Len(frames)
           rest == IF b THEN frames[n].rest ELSE Tail(frames[n].rest)
           x == [frames[n] EXCEPT !.calling = b, !.rest = rest]
<1>1. frames \in Seq(Frame) /\ n \in Nat /\ n \in 1..n /\ frame = frames[n]
  BY DEF IInv, Types, frame, Last
<1>2. frames[n] \in Frame /\ frames[n].rest \in Seq(Nat) /\ Len(frames[n].rest) > 0
  BY <1>1, FrameTyped DEF IInv
<1>3. /\ rest \in Seq(Nat) /\ (b => Len(rest) > 0)
      /\ \A k \in 1..Len(rest) : \E l \in 1..Len(frames[n].rest) : rest[k] = frames[n].rest[l]
  <2>1. CASE b
    BY <1>2, <2>1
  <2>2. CASE ~b
    <3> DEFINE old == frames[n].rest
    <3>1. rest = Tail(old) /\ old \in Seq(Nat) /\ Len(old) > 0
      BY <1>2, <2>2
    <3> HIDE DEF rest, old
    <3>2. /\ rest \in Seq(Nat) /\ Len(rest) = Len(old) - 1 /\ Len(old) \in Nat
          /\ \A k \in 1..Len(rest) : rest[k] = old[k + 1]
      BY <3>1
    <3>3. \A k \in 1..Len(rest) : k + 1 \in 1..Len(old)
      BY <3>2
    <3> QED
      BY <2>2, <3>2, <3>3 DEF old
  <2> QED
    BY <2>1, <2>2
<1>4. frames' = [frames EXCEPT ![n] = x]
  BY <1>1 DEF walk
<1> HIDE DEF rest
<1>5. x \in Frame /\ x.group = frames[n].group /\ x.calling = b /\ x.rest = rest
  BY <1>2, <1>3 DEF Frame
<1> HIDE DEF x, n
<1>6. frames' \in Seq(Frame) /\ Len(frames') = n
  <2>1. frames \in [1..n -> Frame] /\ n = Len(frames)
    BY <1>1 DEF n
  <2>2. frames' \in [1..n -> Frame]
    BY <1>4, <1>5, <2>1
  <2> QED
    BY <1>1, <2>1, <2>2
<1>7. \A f \in 1..n : frames'[f] = IF f = n THEN x ELSE frames[f]
  BY <1>1, <1>4 DEF n
<1>8. \A f \in 1..n : f # n => Within(frames'[f], frames[f])
  BY <1>7 DEF Within
<1>9. Within(frames'[n], frames[n])
  BY <1>1, <1>3, <1>5, <1>7 DEF Within
<1>10. \A f \in 1..n : frames'[f].calling => Len(frames'[f].rest) > 0
  <2>1. \A f \in 1..n : frames[f].calling => Len(frames[f].rest) > 0
    BY DEF IInv, Calling, n
  <2> QED
    BY <1>3, <1>5, <1>7, <2>1
<1> QED
  BY <1>6, <1>8, <1>9, <1>10 DEF FramesWithin, n

\* Emits that go on or end change nothing else.
LEMMA FramesKeep ==
  ASSUME IInv, FramesWithin, UNCHANGED <<groups, made, registrations, consumed, calls>>
  PROVE  IInv'
<1>1. Types' /\ Calling'
  BY DEF IInv, Types, FramesWithin, Calling
<1>2. OnePlace' /\ Unmarked' /\ OneGroup' /\ NoneEmpty' /\ Counted'
  BY DEF IInv, OnePlace, Unmarked, OneGroup, NoneEmpty, Counted, Entry
<1>3. Named'
  <2>1. \A f \in 1..Len(frames') : frames'[f].group \in 1..Len(made)
    BY DEF FramesWithin, Within, IInv, Named
  <2>2. \A f \in 1..Len(frames') : \A i \in 1..Len(frames'[f].rest) : frames'[f].rest[i] \in Entry
    BY DEF FramesWithin, Within, IInv, Named
  <2> QED
    BY <2>1, <2>2 DEF IInv, Named, Entry
<1>4. Held'
  <2> SUFFICES ASSUME NEW f \in 1..Len(frames'), NEW g \in 1..Len(made),
                      NEW k \in 1..Len(frames'[f].rest), NEW i \in 1..Len(made[g].listeners),
                      frames'[f].rest[k] = made[g].listeners[i]
               PROVE  g = frames'[f].group
    BY DEF Held
  <2>1. PICK h \in 1..Len(frames) : Within(frames'[f], frames[h])
    BY DEF FramesWithin
  <2>2. PICK l \in 1..Len(frames[h].rest) : frames'[f].rest[k] = frames[h].rest[l]
    BY <2>1 DEF Within
  <2> QED
    BY <2>1, <2>2 DEF Within, IInv, Held
<1> QED
  BY <1>1, <1>2, <1>3, <1>4 DEF IInv

\* A listener returns, one is passed over, or an emit is over.
LEMMA WalkKeeps ==
  ASSUME IInv, skip \/ returned \/ finished
  PROVE  IInv'
<1>1. UNCHANGED <<groups, made, registrations, consumed, calls>> /\ frames # <<>>
  BY DEF skip, returned, finished, Walking
<1>2. frames \in Seq(Frame) /\ Len(frames) \in Nat /\ Len(frames) \in 1..Len(frames)
      /\ frame = frames[Len(frames)]
  BY <1>1 DEF IInv, Types, frame, Last
<1>3. CASE skip \/ returned
  <2>1. Len(frame.rest) > 0
    <3>1. frame.rest \in Seq(Nat)
      BY <1>2, FrameTyped DEF IInv
    <3>2. CASE skip
      BY <3>1, <3>2 DEF skip
    <3>3. CASE returned
      BY <1>2, <3>3 DEF returned, IInv, Calling
    <3> QED
      BY <1>3, <3>2, <3>3
  <2>2. walk(FALSE)
    BY <1>3 DEF skip, returned
  <2> QED
    BY <1>1, <2>1, <2>2, WalkFacts, FramesKeep
<1>4. CASE finished
  <2>1. frames' = Front(frames)
    BY <1>4 DEF finished
  <2>2. /\ frames' \in Seq(Frame) /\ Len(frames') = Len(frames) - 1
        /\ \A f \in 1..(Len(frames) - 1) : frames'[f] = frames[f]
    BY <1>2, <2>1, FrontFacts
  <2>3. \A f \in 1..Len(frames') : f \in 1..Len(frames)
    BY <1>2, <2>2
  <2>4. FramesWithin
    BY <2>2, <2>3 DEF FramesWithin, Within, IInv, Calling
  <2> QED
    BY <1>1, <2>4, FramesKeep
<1> QED
  BY <1>3, <1>4
-----------------------------------------------------------------------------
\* _emit copies the listeners of the group it finds.
LEMMA EmitKeeps ==
  ASSUME IInv, NEW e \in Events, _emit(e)
  PROVE  IInv'
<1> DEFINE g == _find(e)
           x == [event |-> e, group |-> g, calling |-> FALSE, rest |-> made[g].listeners]
<1>1. g # 0 /\ frames' = Append(frames, x)
      /\ UNCHANGED <<groups, made, registrations, consumed, calls>>
  BY DEF _emit
<1>2. g \in 1..Len(made)
  BY <1>1, FindFacts DEF IInv, Named
<1> HIDE DEF g
<1>3. made[g].listeners \in Seq(Nat) /\ g \in Nat
  BY <1>2, GroupTyped DEF IInv
<1>4. /\ x \in Frame /\ x.group = g /\ ~x.calling /\ x.rest = made[g].listeners
  BY <1>3 DEF Frame
<1> HIDE DEF x
<1>5. frames \in Seq(Frame) /\ Len(frames) \in Nat
  BY DEF IInv, Types
<1>6. /\ frames' \in Seq(Frame) /\ Len(frames') = Len(frames) + 1
      /\ frames'[Len(frames) + 1] = x
      /\ \A f \in 1..Len(frames) : frames'[f] = frames[f]
  BY <1>1, <1>4, <1>5
<1>7. \A f \in 1..Len(frames') : f \in 1..Len(frames) \/ f = Len(frames) + 1
  BY <1>5, <1>6
<1>8. Types'
  BY <1>1, <1>6 DEF IInv, Types
<1>9. OnePlace' /\ Unmarked' /\ OneGroup' /\ NoneEmpty' /\ Counted'
  BY <1>1 DEF IInv, OnePlace, Unmarked, OneGroup, NoneEmpty, Counted, Entry
<1>10. Calling'
  BY <1>4, <1>6, <1>7 DEF IInv, Calling
<1>11. Named'
  <2>1. \A f \in 1..Len(frames') : frames'[f].group \in 1..Len(made)
    BY <1>2, <1>4, <1>6, <1>7 DEF IInv, Named
  <2>2. \A f \in 1..Len(frames') : \A i \in 1..Len(frames'[f].rest) : frames'[f].rest[i] \in Entry
    BY <1>2, <1>4, <1>6, <1>7 DEF IInv, Named
  <2> QED
    BY <1>1, <2>1, <2>2 DEF IInv, Named, Entry
<1>12. Held'
  <2> SUFFICES ASSUME NEW f \in 1..Len(frames'), NEW h \in 1..Len(made),
                      NEW k \in 1..Len(frames'[f].rest), NEW i \in 1..Len(made[h].listeners),
                      frames'[f].rest[k] = made[h].listeners[i]
               PROVE  h = frames'[f].group
    BY <1>1 DEF Held
  <2>1. CASE f \in 1..Len(frames)
    BY <1>6, <2>1 DEF IInv, Held
  <2>2. CASE f = Len(frames) + 1
    BY <1>2, <1>4, <1>6, <2>2 DEF IInv, OnePlace
  <2> QED
    BY <1>7, <2>1, <2>2
<1> QED
  BY <1>8, <1>9, <1>10, <1>11, <1>12 DEF IInv

\* remove_all_listeners and remove_all_listeners_for take groups off the list,
\* and leave them to the emits that hold them.
LEMMA RemoveAllKeeps ==
  ASSUME IInv,
         remove_all_listeners \/ \E e \in Events : remove_all_listeners_for(e)
  PROVE  IInv'
<1>1. UNCHANGED <<made, registrations, consumed, frames, calls>>
  BY DEF remove_all_listeners, remove_all_listeners_for
<1>2. ASSUME groups' \in Seq(Nat),
             NEW p \in [1..Len(groups') -> 1..Len(groups)],
             \A j \in 1..Len(groups') : groups'[j] = groups[p[j]],
             \A i, j \in 1..Len(groups') : p[i] = p[j] => i = j
      PROVE  IInv'
  <2>0. Types'
    BY <1>1, <1>2 DEF IInv, Types
  <2>1. Calling' /\ OnePlace' /\ Held' /\ Unmarked' /\ Counted'
    <3>1. Calling'
      BY <1>1 DEF IInv, Calling
    <3>2. OnePlace' /\ Unmarked'
      BY <1>1 DEF IInv, OnePlace, Unmarked
    <3>3. Held'
      BY <1>1 DEF IInv, Held
    <3>4. Counted'
      BY <1>1 DEF IInv, Counted, Entry
    <3> QED
      BY <3>1, <3>2, <3>3, <3>4
  <2>2. \A i \in 1..Len(groups') : groups'[i] \in 1..Len(made)
    BY <1>2 DEF IInv, Named
  <2>3. Named'
    BY <1>1, <2>2 DEF IInv, Named, Entry
  <2>4. NoneEmpty'
    BY <1>1, <1>2 DEF IInv, NoneEmpty
  <2>5. OneGroup'
    <3> SUFFICES ASSUME NEW i \in 1..Len(groups'), NEW j \in 1..Len(groups'),
                        made[groups'[i]].event = made[groups'[j]].event
                 PROVE  i = j
      BY <1>1 DEF OneGroup
    <3>1. p[i] \in 1..Len(groups) /\ p[j] \in 1..Len(groups)
          /\ groups'[i] = groups[p[i]] /\ groups'[j] = groups[p[j]]
      BY <1>2
    <3>2. p[i] = p[j]
      BY <3>1 DEF IInv, OneGroup
    <3> QED
      BY <1>2, <3>2
  <2> QED
    BY <2>0, <2>1, <2>3, <2>4, <2>5 DEF IInv
<1>3. groups \in Seq(Nat)
  BY DEF IInv, Types
<1>4. \/ groups' = <<>> \/ groups' = groups
      \/ \E l \in 1..Len(groups) : groups' = RemoveAt(groups, l)
  <2>1. CASE remove_all_listeners
    BY <2>1 DEF remove_all_listeners
  <2>2. CASE \E e \in Events : remove_all_listeners_for(e)
    <3>1. PICK e \in Events : groups' = without(groups, _find(e))
      BY <2>2 DEF remove_all_listeners_for
    <3>2. CASE \E i \in 1..Len(groups) : groups[i] = _find(e)
      <4>1. \E l \in 1..Len(groups) :
              groups[l] = _find(e) /\ without(groups, _find(e)) = RemoveAt(groups, l)
        BY <1>3, <3>2, WithoutFacts
      <4> QED
        BY <3>1, <4>1
    <3>3. CASE ~ \E i \in 1..Len(groups) : groups[i] = _find(e)
      BY <1>3, <3>1, <3>3, WithoutFacts
    <3> QED
      BY <3>2, <3>3
  <2> QED
    BY <2>1, <2>2
<1>5. CASE groups' = <<>> \/ groups' = groups
  <2> DEFINE p == [j \in 1..Len(groups') |-> j]
  <2>1. groups' \in Seq(Nat) /\ p \in [1..Len(groups') -> 1..Len(groups)]
    <3>1. groups' \in Seq(Nat)
      BY <1>3, <1>5, EmptySeq
    <3>2. 1..Len(groups') \subseteq 1..Len(groups)
      BY <1>3, <1>5
    <3> QED
      BY <3>1, <3>2
  <2>2. \A j \in 1..Len(groups') : groups'[j] = groups[p[j]]
    BY <1>3, <1>5
  <2>3. \A i, j \in 1..Len(groups') : p[i] = p[j] => i = j
    OBVIOUS
  <2> HIDE DEF p
  <2> QED
    BY <1>2, <2>1, <2>2, <2>3
<1>6. CASE \E l \in 1..Len(groups) : groups' = RemoveAt(groups, l)
  <2>1. PICK l \in 1..Len(groups) : groups' = RemoveAt(groups, l)
    BY <1>6
  <2>2. AfterPop(groups, l, groups', Nat)
    BY <1>3, <2>1, PlacesAfterPop
  <2> DEFINE p == [j \in 1..Len(groups') |-> Before(l, j)]
  <2>3. groups' \in Seq(Nat) /\ p \in [1..Len(groups') -> 1..Len(groups)]
    BY <2>2 DEF AfterPop
  <2>4. \A j \in 1..Len(groups') : groups'[j] = groups[p[j]]
    BY <2>2 DEF AfterPop
  <2>5. \A i, j \in 1..Len(groups') : p[i] = p[j] => i = j
    BY <2>2 DEF AfterPop
  <2> HIDE DEF p
  <2> QED
    BY <1>2, <2>3, <2>4, <2>5
<1> QED
  BY <1>4, <1>5, <1>6

\* _remove takes the last registration of the callback from the group of the
\* event; emits that hold a snapshot with it are left alone.
LEMMA RemoveKeeps ==
  ASSUME IInv, NEW e \in Events, NEW callback \in Callbacks, _remove(e, callback)
  PROVE  IInv'
<1> DEFINE g == _find(e)
<1>1. /\ g # 0 /\ UNCHANGED <<registrations, consumed, frames, calls>>
      /\ \E k \in DOMAIN made[g].listeners :
           /\ made' = [made EXCEPT ![g].listeners = RemoveAt(@, k)]
           /\ groups' = _prune(g, RemoveAt(made[g].listeners, k))
  BY DEF _remove
<1>2. g \in 1..Len(made)
  BY <1>1, FindFacts DEF IInv, Named
<1> HIDE DEF g
<1>3. made \in Seq(Group) /\ made[g].listeners \in Seq(Nat)
  BY <1>2, GroupTyped DEF IInv, Types
<1>4. PICK k \in 1..Len(made[g].listeners) :
        /\ made' = [made EXCEPT ![g].listeners = RemoveAt(made[g].listeners, k)]
        /\ groups' = _prune(g, RemoveAt(made[g].listeners, k))
  <2>1. DOMAIN made[g].listeners = 1..Len(made[g].listeners)
    BY <1>3
  <2> QED
    BY <1>1, <2>1
<1>5. /\ groups' \in Seq(Nat) /\ made' \in Seq(Group) /\ Len(made') = Len(made)
      /\ \A i \in 1..Len(groups') : groups'[i] \in 1..Len(made')
      /\ OnePlace' /\ OneGroup' /\ NoneEmpty'
      /\ \A h \in 1..Len(made) : \A j \in 1..Len(made'[h].listeners) :
           /\ made'[h].listeners[j] # made[g].listeners[k]
           /\ \E i \in 1..Len(made[h].listeners) : made'[h].listeners[j] = made[h].listeners[i]
  BY <1>2, <1>4, Leaves, ZenonT(60)
<1>6. Types' /\ Calling' /\ Counted'
  BY <1>1, <1>5 DEF IInv, Types, Calling, Counted, Entry
<1>7. Named'
  <2>1. \A h \in 1..Len(made') : \A j \in 1..Len(made'[h].listeners) : made'[h].listeners[j] \in Entry
    <3> SUFFICES ASSUME NEW h \in 1..Len(made), NEW j \in 1..Len(made'[h].listeners)
                 PROVE  made'[h].listeners[j] \in Entry
      BY <1>5
    <3>1. PICK i \in 1..Len(made[h].listeners) : made'[h].listeners[j] = made[h].listeners[i]
      BY <1>5
    <3> QED
      BY <3>1 DEF IInv, Named
  <2> QED
    BY <1>1, <1>5, <2>1 DEF IInv, Named, Entry
<1>8. Held'
  <2> SUFFICES ASSUME NEW f \in 1..Len(frames), NEW h \in 1..Len(made),
                      NEW l \in 1..Len(frames[f].rest), NEW j \in 1..Len(made'[h].listeners),
                      frames[f].rest[l] = made'[h].listeners[j]
               PROVE  h = frames[f].group
    BY <1>1, <1>5 DEF Held
  <2>1. PICK i \in 1..Len(made[h].listeners) : made'[h].listeners[j] = made[h].listeners[i]
    BY <1>5
  <2> QED
    BY <2>1 DEF IInv, Held
<1>9. Unmarked'
  <2> SUFFICES ASSUME NEW h \in 1..Len(made), NEW j \in 1..Len(made'[h].listeners)
               PROVE  made'[h].listeners[j] \notin consumed
    BY <1>1, <1>5 DEF Unmarked
  <2>1. PICK i \in 1..Len(made[h].listeners) : made'[h].listeners[j] = made[h].listeners[i]
    BY <1>5
  <2> QED
    BY <2>1 DEF IInv, Unmarked
<1> QED
  BY <1>5, <1>6, <1>7, <1>8, <1>9 DEF IInv
-----------------------------------------------------------------------------
\* The call of a listener: one that is called once is marked before, and leaves
\* the group the emit holds, whether that group is still listed or not.
LEMMA CallKeeps ==
  ASSUME IInv, call
  PROVE  IInv'
<1> DEFINE n == Len(frames)
           r == Head(frame.rest)
           g == frame.group
           listeners == without(made[g].listeners, r)
<1>1. frames # <<>> /\ frame.rest # <<>> /\ walk(TRUE) /\ registrations' = registrations
      /\ r \notin consumed
  BY DEF call, Walking
<1>2. /\ frames \in Seq(Frame) /\ n \in Nat /\ n \in 1..n /\ frame = frames[n]
      /\ made \in Seq(Group) /\ groups \in Seq(Nat)
  BY <1>1 DEF IInv, Types, frame, Last
<1>3. frame.rest \in Seq(Nat) /\ Len(frame.rest) > 0
  <2>1. frame.rest \in Seq(Nat)
    BY <1>2, FrameTyped DEF IInv
  <2> QED
    BY <1>1, <2>1
<1>4. r = frame.rest[1] /\ 1 \in 1..Len(frame.rest)
  BY <1>3
<1>5. FramesWithin
  BY <1>1, <1>3, WalkFacts
<1>6. r \in Entry /\ g \in 1..Len(made)
  BY <1>2, <1>4 DEF IInv, Named
<1>7. CASE ~registrations[r].once
  <2>1. UNCHANGED <<groups, made, registrations, consumed, calls>>
    BY <1>7 DEF call
  <2> QED
    BY <1>5, <2>1, FramesKeep
<1>8. CASE registrations[r].once
  <2>1. /\ consumed' = consumed \cup {r}
        /\ calls' = [calls EXCEPT ![r] = calls[r] + 1]
        /\ made' = [made EXCEPT ![g].listeners = listeners]
        /\ groups' = _prune(g, listeners)
    BY <1>8 DEF call
  <2> HIDE DEF n, r, g
  <2>2. made[g].listeners \in Seq(Nat) /\ made[g] \in Group
    BY <1>6, GroupTyped DEF IInv
  <2>3. /\ groups' \in Seq(Nat) /\ made' \in Seq(Group) /\ Len(made') = Len(made)
        /\ \A i \in 1..Len(groups') : groups'[i] \in 1..Len(made')
        /\ OnePlace' /\ OneGroup' /\ NoneEmpty'
        /\ \A h \in 1..Len(made) : \A j \in 1..Len(made'[h].listeners) :
             /\ made'[h].listeners[j] # r
             /\ \E i \in 1..Len(made[h].listeners) : made'[h].listeners[j] = made[h].listeners[i]
    <3>1. CASE \E i \in 1..Len(made[g].listeners) : made[g].listeners[i] = r
      <4>1. PICK k \in 1..Len(made[g].listeners) :
              made[g].listeners[k] = r /\ listeners = RemoveAt(made[g].listeners, k)
        BY <2>2, <3>1, WithoutFacts
      <4> HIDE DEF listeners
      <4>2. /\ made' = [made EXCEPT ![g].listeners = RemoveAt(made[g].listeners, k)]
            /\ groups' = _prune(g, RemoveAt(made[g].listeners, k))
        BY <2>1, <4>1
      <4>3. /\ groups' \in Seq(Nat) /\ made' \in Seq(Group) /\ Len(made') = Len(made)
            /\ \A i \in 1..Len(groups') : groups'[i] \in 1..Len(made')
            /\ OnePlace' /\ OneGroup' /\ NoneEmpty'
            /\ \A h \in 1..Len(made) : \A j \in 1..Len(made'[h].listeners) :
                 /\ made'[h].listeners[j] # made[g].listeners[k]
                 /\ \E i \in 1..Len(made[h].listeners) :
                      made'[h].listeners[j] = made[h].listeners[i]
        BY <1>6, <4>2, Leaves, ZenonT(60)
      <4> QED
        BY <4>1, <4>3, Zenon
    <3>2. CASE ~ \E i \in 1..Len(made[g].listeners) : made[g].listeners[i] = r
      <4>1. listeners = made[g].listeners
        BY <2>2, <3>2, WithoutFacts
      <4> HIDE DEF listeners
      <4>2. made' = made
        BY <1>2, <1>6, <2>1, <2>2, <4>1 DEF Group
      <4>3. groups' = groups
        <5>1. CASE listeners # <<>>
          BY <2>1, <5>1 DEF _prune
        <5>2. CASE listeners = <<>>
          <6>1. ~ \E i \in 1..Len(groups) : groups[i] = g
            <7>1. ~(Len(made[g].listeners) > 0)
              BY <4>1, <5>2
            <7> QED
              BY <7>1 DEF IInv, NoneEmpty
          <6>2. without(groups, g) = groups
            BY <1>2, <6>1, WithoutFacts
          <6> QED
            BY <2>1, <5>2, <6>2 DEF _prune
        <5> QED
          BY <5>1, <5>2
      <4>4. OnePlace' /\ OneGroup' /\ NoneEmpty'
        BY <4>2, <4>3 DEF IInv, OnePlace, OneGroup, NoneEmpty
      <4>5. \A h \in 1..Len(made) : \A j \in 1..Len(made[h].listeners) : made[h].listeners[j] # r
        <5> SUFFICES ASSUME NEW h \in 1..Len(made), NEW j \in 1..Len(made[h].listeners),
                            made[h].listeners[j] = r
                     PROVE  FALSE
          OBVIOUS
        <5>1. h = g
          BY <1>2, <1>4 DEF IInv, Held, n, g
        <5> QED
          BY <3>2, <5>1
      <4> QED
        BY <1>2, <4>2, <4>3, <4>4, <4>5 DEF IInv, Named
    <3> QED
      BY <3>1, <3>2
  <2> HIDE DEF listeners
  <2>4. calls \in Seq(Nat) /\ r \in 1..Len(calls) /\ r \in Nat /\ Len(calls) = Len(registrations)
    BY <1>6 DEF IInv, Types, Counted, Entry
  <2>5. calls' \in Seq(Nat) /\ Len(calls') = Len(calls)
        /\ \A i \in 1..Len(calls) : calls'[i] = IF i = r THEN calls[r] + 1 ELSE calls[i]
    BY <2>1, <2>4
  <2>6. Types'
    BY <1>1, <1>5, <2>1, <2>3, <2>4, <2>5 DEF IInv, Types, FramesWithin
  <2>7. Counted'
    <3>1. calls[r] = 0
      BY <1>1, <1>6, <1>8 DEF IInv, Counted, r
    <3>2. ASSUME NEW i \in Entry, registrations[i].once
          PROVE  calls'[i] = IF i \in consumed' THEN 1 ELSE 0
      <4>1. i \in 1..Len(calls)
        BY <2>4 DEF Entry
      <4>2. CASE i = r
        BY <2>1, <2>5, <3>1, <4>1, <4>2
      <4>3. CASE i # r
        <5>1. calls[i] = IF i \in consumed THEN 1 ELSE 0
          BY <3>2 DEF IInv, Counted
        <5>2. i \in consumed' <=> i \in consumed
          BY <2>1, <4>3
        <5> QED
          BY <2>5, <4>1, <4>3, <5>1, <5>2
      <4> QED
        BY <4>2, <4>3
    <3> QED
      BY <1>1, <2>4, <2>5, <3>2 DEF Counted, Entry
  <2>8. Calling'
    BY <1>5 DEF FramesWithin, Calling
  <2>9. Unmarked'
    <3> SUFFICES ASSUME NEW h \in 1..Len(made), NEW j \in 1..Len(made'[h].listeners)
                 PROVE  made'[h].listeners[j] \notin consumed'
      BY <2>3 DEF Unmarked
    <3>1. PICK i \in 1..Len(made[h].listeners) : made'[h].listeners[j] = made[h].listeners[i]
      BY <2>3
    <3>2. made'[h].listeners[j] \notin consumed
      BY <3>1 DEF IInv, Unmarked
    <3>3. made'[h].listeners[j] # r
      BY <2>3
    <3> QED
      BY <2>1, <3>2, <3>3
  <2>10. Named'
    <3>1. \A f \in 1..Len(frames') : frames'[f].group \in 1..Len(made)
      BY <1>5 DEF FramesWithin, Within, IInv, Named
    <3>2. \A f \in 1..Len(frames') : \A i \in 1..Len(frames'[f].rest) :
            frames'[f].rest[i] \in Entry
      BY <1>5 DEF FramesWithin, Within, IInv, Named
    <3>3. ASSUME NEW h \in 1..Len(made), NEW j \in 1..Len(made'[h].listeners)
          PROVE  made'[h].listeners[j] \in Entry
      <4>1. PICK i \in 1..Len(made[h].listeners) : made'[h].listeners[j] = made[h].listeners[i]
        BY <2>3
      <4> QED
        BY <4>1 DEF IInv, Named
    <3>4. consumed' \subseteq Entry
      BY <1>6, <2>1 DEF IInv, Named
    <3>5. Entry' = Entry
      BY <1>1 DEF Entry
    <3> QED
      BY <2>3, <3>1, <3>2, <3>3, <3>4, <3>5 DEF Named
  <2>11. Held'
    <3> SUFFICES ASSUME NEW f \in 1..Len(frames'), NEW h \in 1..Len(made),
                        NEW k \in 1..Len(frames'[f].rest), NEW j \in 1..Len(made'[h].listeners),
                        frames'[f].rest[k] = made'[h].listeners[j]
                 PROVE  h = frames'[f].group
      BY <2>3 DEF Held
    <3>1. PICK f0 \in 1..Len(frames) : Within(frames'[f], frames[f0])
      BY <1>5 DEF FramesWithin
    <3>2. PICK l \in 1..Len(frames[f0].rest) : frames'[f].rest[k] = frames[f0].rest[l]
      BY <3>1 DEF Within
    <3>3. PICK i \in 1..Len(made[h].listeners) : made'[h].listeners[j] = made[h].listeners[i]
      BY <2>3
    <3> QED
      BY <3>1, <3>2, <3>3 DEF Within, IInv, Held
  <2> QED
    BY <2>3, <2>6, <2>7, <2>8, <2>9, <2>10, <2>11 DEF IInv
<1> QED
  BY <1>7, <1>8
-----------------------------------------------------------------------------
\* t is s with x put at place q: where the other elements were before.
Formerly(q, j) == IF j < q THEN j ELSE j - 1

AfterPut(s, q, x, t) ==
  /\ t \in Seq(Nat) /\ Len(t) = Len(s) + 1
  /\ q \in 1..Len(t) /\ t[q] = x
  /\ \A j \in 1..Len(t) : j # q => Formerly(q, j) \in 1..Len(s) /\ t[j] = s[Formerly(q, j)]
  /\ \A i, j \in 1..Len(t) : i # q /\ j # q /\ Formerly(q, i) = Formerly(q, j) => i = j

\* A listener is put first or last.
LEMMA PutFacts ==
  ASSUME NEW s \in Seq(Nat), NEW x \in Nat
  PROVE  /\ AfterPut(s, 1, x, <<x>> \o s)
         /\ AfterPut(s, Len(s) + 1, x, Append(s, x))
<1>1. AfterPut(s, 1, x, <<x>> \o s)
  <2> DEFINE t == <<x>> \o s
  <2>1. t \in Seq(Nat) /\ Len(t) = Len(s) + 1 /\ Len(s) \in Nat
    BY ConcatProperties
  <2>2. t[1] = x /\ \A j \in 1..Len(t) : j # 1 => t[j] = s[j - 1]
    BY <2>1
  <2>3. \A j \in 1..Len(t) : j # 1 => Formerly(1, j) = j - 1 /\ j - 1 \in 1..Len(s)
    BY <2>1 DEF Formerly
  <2>4. 1 \in 1..Len(t)
    BY <2>1
  <2>5. \A i, j \in 1..Len(t) : i # 1 /\ j # 1 /\ Formerly(1, i) = Formerly(1, j) => i = j
    BY <2>1, <2>3
  <2> HIDE DEF t
  <2> QED
    BY <2>1, <2>2, <2>3, <2>4, <2>5 DEF AfterPut, t
<1>2. AfterPut(s, Len(s) + 1, x, Append(s, x))
  <2> DEFINE t == Append(s, x)
  <2>1. t \in Seq(Nat) /\ Len(t) = Len(s) + 1 /\ Len(s) \in Nat
    OBVIOUS
  <2>2. t[Len(s) + 1] = x /\ \A j \in 1..Len(s) : t[j] = s[j]
    OBVIOUS
  <2>3. \A j \in 1..Len(t) : j # Len(s) + 1 => Formerly(Len(s) + 1, j) = j /\ j \in 1..Len(s)
    BY <2>1 DEF Formerly
  <2> HIDE DEF t
  <2> QED
    BY <2>1, <2>2, <2>3 DEF AfterPut, t
<1> QED
  BY <1>1, <1>2

\* _add: the registration is new, so it is in no other place, in no snapshot and
\* not marked; a group is made only for an event that has none.
LEMMA AddKeeps ==
  ASSUME IInv, NEW e \in Events, NEW callback \in Callbacks,
         NEW once \in BOOLEAN, NEW prepend \in BOOLEAN,
         _add(e, callback, once, prepend)
  PROVE  IInv'
<1> DEFINE entry == Len(registrations) + 1
           found == _find(e)
           g == IF found = 0 THEN Len(made) + 1 ELSE found
           M == Len(made)
           old(h) == IF h \in 1..M THEN made[h].listeners ELSE <<>>
<1>1. /\ registrations' = Append(registrations, [callback |-> callback, once |-> once])
      /\ calls' = Append(calls, 0) /\ consumed' = consumed /\ frames' = frames
      /\ groups' = IF found = 0 THEN Append(groups, g) ELSE groups
      /\ made' = IF found = 0 THEN Append(made, [event |-> e, listeners |-> <<entry>>])
                 ELSE [made EXCEPT ![g].listeners =
                         IF prepend THEN <<entry>> \o @ ELSE Append(@, entry)]
  BY DEF _add
<1>2. /\ groups \in Seq(Nat) /\ made \in Seq(Group) /\ registrations \in Seq(Registration)
      /\ calls \in Seq(Nat) /\ M \in Nat /\ Len(groups) \in Nat
      /\ Len(registrations) \in Nat /\ entry \in Nat
  BY DEF IInv, Types
<1>3. found # 0 => found \in 1..M
  BY FindFacts DEF IInv, Named
<1>4. g \in Nat /\ (found = 0 => g = M + 1) /\ (found # 0 => g \in 1..M)
  BY <1>2, <1>3
<1>5. /\ made' \in Seq(Group)
      /\ Len(made') = IF found = 0 THEN M + 1 ELSE M
      /\ \A h \in 1..M : h # g => made'[h] = made[h]
      /\ \E q \in 1..Len(made'[g].listeners) : AfterPut(old(g), q, entry, made'[g].listeners)
      /\ found = 0 => made'[g].event = e
      /\ \A h \in 1..M : made'[h].event = made[h].event
  <2>1. CASE found = 0
    <3> DEFINE x == [event |-> e, listeners |-> <<entry>>]
    <3> HIDE DEF found, entry
    <3>1. x \in Group /\ x.event = e /\ x.listeners = <<entry>>
      BY <1>2 DEF Group
    <3>2. made' = Append(made, x)
      BY <1>1, <2>1
    <3> HIDE DEF x
    <3>3. /\ made' \in Seq(Group) /\ Len(made') = M + 1 /\ made'[M + 1] = x
          /\ \A h \in 1..M : made'[h] = made[h]
      BY <1>2, <3>1, <3>2
    <3>4. g = M + 1 /\ g \notin 1..M /\ old(g) = <<>>
      BY <1>2, <1>4, <2>1
    <3>5. AfterPut(<<>>, Len(<<>>) + 1, entry, Append(<<>>, entry))
      BY <1>2, PutFacts, EmptySeq
    <3>6. Len(<<>>) + 1 = 1 /\ Append(<<>>, entry) = <<entry>>
      OBVIOUS
    <3>7. AfterPut(<<>>, 1, entry, <<entry>>)
      BY <3>5, <3>6
    <3>8. made'[g].listeners = <<entry>> /\ 1 \in 1..Len(<<entry>>)
      BY <3>1, <3>3, <3>4
    <3> HIDE DEF old, g, M
    <3> QED
      BY <2>1, <3>1, <3>3, <3>4, <3>7, <3>8
  <2>2. CASE found # 0
    <3> DEFINE s == made[g].listeners
               t == IF prepend THEN <<entry>> \o s ELSE Append(s, entry)
               x == [made[g] EXCEPT !.listeners = t]
    <3>1. g \in 1..M /\ old(g) = s
      BY <1>4, <2>2
    <3>2. made[g] \in Group /\ s \in Seq(Nat)
      BY <3>1, GroupTyped DEF IInv
    <3>3. made' = [made EXCEPT ![g] = x]
      BY <1>1, <2>2, <1>2, <3>1
    <3> HIDE DEF s, entry, found
    <3>4. \E q \in 1..Len(t) : AfterPut(s, q, entry, t)
      <4>1. AfterPut(s, 1, entry, <<entry>> \o s) /\ AfterPut(s, Len(s) + 1, entry, Append(s, entry))
        BY <1>2, <3>2, PutFacts
      <4>2. CASE prepend
        BY <4>1, <4>2 DEF AfterPut
      <4>3. CASE ~prepend
        BY <4>1, <4>3 DEF AfterPut
      <4> QED
        BY <4>2, <4>3
    <3>5. t \in Seq(Nat)
      BY <3>4 DEF AfterPut
    <3> HIDE DEF t
    <3>6. x \in Group /\ x.event = made[g].event /\ x.listeners = t
      BY <3>2, <3>5 DEF Group
    <3> HIDE DEF x
    <3>7. made' \in Seq(Group) /\ Len(made') = M
      <4>1. made \in [1..M -> Group]
        BY <1>2
      <4>2. made' \in [1..M -> Group]
        BY <3>1, <3>3, <3>6, <4>1
      <4>3. M \in Nat
        BY <1>2
      <4> HIDE DEF M
      <4> QED
        BY <4>2, <4>3
    <3>8. \A h \in 1..M : made'[h] = IF h = g THEN x ELSE made[h]
      BY <1>2, <3>3
    <3> HIDE DEF old, g, M
    <3> QED
      BY <2>2, <3>1, <3>4, <3>6, <3>7, <3>8
  <2> QED
    BY <2>1, <2>2
<1>6. PICK q \in 1..Len(made'[g].listeners) : AfterPut(old(g), q, entry, made'[g].listeners)
  BY <1>5
<1> DEFINE was(h, j) == IF h = g THEN Formerly(q, j) ELSE j
           new == made'
<1>7. ASSUME NEW h \in 1..Len(new), NEW j \in 1..Len(new[h].listeners)
      PROVE  \/ h = g /\ j = q /\ new[h].listeners[j] = entry
             \/ /\ h \in 1..M /\ was(h, j) \in 1..Len(made[h].listeners)
                /\ new[h].listeners[j] = made[h].listeners[was(h, j)]
  <2>1. h = g \/ (h \in 1..M /\ h # g)
    <3>1. CASE found = 0
      <4>1. g = M + 1 /\ Len(new) = M + 1
        BY <1>4, <1>5, <3>1
      <4>2. h \in 1..(M + 1)
        BY <4>1
      <4> HIDE DEF g, M
      <4> QED
        BY <1>2, <4>1, <4>2
    <3>2. CASE found # 0
      <4>1. Len(new) = M
        BY <1>5, <3>2
      <4> QED
        BY <4>1, Zenon
    <3> QED
      BY <3>1, <3>2
  <2>2. CASE h = g /\ j = q
    BY <1>6, <2>2 DEF AfterPut
  <2>3. CASE h = g /\ j # q
    <3>1. Formerly(q, j) \in 1..Len(old(g)) /\ new[g].listeners[j] = old(g)[Formerly(q, j)]
      BY <1>6, <2>3 DEF AfterPut
    <3>2. g \in 1..M
      <4>1. CASE g \notin 1..M
        <5>1. 1..Len(old(g)) = {}
          BY <4>1
        <5> QED
          BY <3>1, <5>1
      <4> QED
        BY <4>1
    <3> QED
      BY <2>3, <3>1, <3>2
  <2>4. CASE h \in 1..M /\ h # g
    BY <1>5, <2>4
  <2> QED
    BY <2>1, <2>2, <2>3, <2>4
<1>8. \A i, j \in 1..Len(new[g].listeners) : i # q /\ j # q /\ was(g, i) = was(g, j) => i = j
  BY <1>6 DEF AfterPut
<1>9. \A h \in 1..M : \A j \in 1..Len(made[h].listeners) : made[h].listeners[j] # entry
  <2>1. \A r \in Entry : r # entry
    BY <1>2 DEF Entry
  <2> QED
    BY <2>1 DEF IInv, Named
<1>10. /\ calls' \in Seq(Nat) /\ Len(calls') = Len(calls) + 1
       /\ calls'[entry] = 0 /\ \A r \in Entry : calls'[r] = calls[r]
       /\ Len(registrations') = entry /\ Entry' = Entry \cup {entry} /\ entry \notin Entry
       /\ registrations' \in Seq(Registration)
       /\ \A r \in Entry : registrations'[r] = registrations[r]
  <2>1. Len(calls) = Len(registrations)
    BY DEF IInv, Counted
  <2>2. [callback |-> callback, once |-> once] \in Registration
    BY DEF Registration
  <2>3. /\ calls' \in Seq(Nat) /\ Len(calls') = Len(calls) + 1
        /\ calls'[entry] = 0 /\ \A r \in Entry : calls'[r] = calls[r]
    BY <1>1, <1>2, <2>1 DEF Entry
  <2>4. registrations' \in Seq(Registration) /\ Len(registrations') = entry
        /\ \A r \in Entry : registrations'[r] = registrations[r]
    BY <1>1, <1>2, <2>2 DEF Entry
  <2>5. Entry' = Entry \cup {entry} /\ entry \notin Entry
    BY <1>2, <2>4 DEF Entry
  <2> QED
    BY <2>3, <2>4, <2>5
<1>11. /\ groups' \in Seq(Nat)
       /\ \A i \in 1..Len(groups') : groups'[i] \in 1..Len(new)
       /\ OneGroup'
  <2>1. \A i \in 1..Len(groups) : groups[i] \in 1..M
    BY DEF IInv, Named
  <2>2. CASE found = 0
    <3>1. /\ groups' \in Seq(Nat) /\ Len(groups') = Len(groups) + 1
          /\ groups'[Len(groups) + 1] = g /\ \A i \in 1..Len(groups) : groups'[i] = groups[i]
      <4> HIDE DEF found, g
      <4> QED
        BY <1>1, <1>2, <1>4, <2>2
    <3>2. \A i \in 1..Len(groups') : i \in 1..Len(groups) \/ i = Len(groups) + 1
      BY <1>2, <3>1
    <3>3. g \in 1..Len(new) /\ \A h \in 1..M : h \in 1..Len(new)
      BY <1>2, <1>4, <1>5, <2>2
    <3>4. \A i \in 1..Len(groups) : made[groups[i]].event # e
      BY <2>2, FindFacts DEF IInv
    <3>5. new[g].event = e /\ \A h \in 1..M : new[h].event = made[h].event
      BY <1>5, <2>2
    <3> HIDE DEF g, M, found, new
    <3>6. \A i \in 1..Len(groups') : groups'[i] \in 1..Len(new)
      BY <2>1, <3>1, <3>2, <3>3
    <3>7. \A i, j \in 1..Len(groups') : new[groups'[i]].event = new[groups'[j]].event => i = j
      <4> SUFFICES ASSUME NEW i \in 1..Len(groups'), NEW j \in 1..Len(groups'),
                          new[groups'[i]].event = new[groups'[j]].event
                   PROVE  i = j
        OBVIOUS
      <4>1. CASE i \in 1..Len(groups) /\ j \in 1..Len(groups)
        BY <2>1, <3>1, <3>5, <4>1 DEF IInv, OneGroup
      <4>2. CASE i \in 1..Len(groups) /\ j = Len(groups) + 1
        BY <2>1, <3>1, <3>4, <3>5, <4>2
      <4>3. CASE i = Len(groups) + 1 /\ j \in 1..Len(groups)
        BY <2>1, <3>1, <3>4, <3>5, <4>3
      <4> QED
        BY <3>2, <4>1, <4>2, <4>3
    <3> QED
      BY <3>1, <3>6, <3>7 DEF OneGroup, new
  <2>3. CASE found # 0
    <3>1. groups' = groups /\ Len(new) = M
      BY <1>1, <1>5, <2>3
    <3>2. \A h \in 1..M : new[h].event = made[h].event
      BY <1>5
    <3> HIDE DEF M, new
    <3>3. OneGroup'
      BY <2>1, <3>1, <3>2 DEF IInv, OneGroup, new
    <3> QED
      BY <1>2, <2>1, <3>1, <3>3
  <2> QED
    BY <2>2, <2>3
<1> HIDE DEF found, g, old, entry, M, new, was
<1>12. Types'
  BY <1>1, <1>5, <1>10, <1>11 DEF IInv, Types, new
<1>13. Calling'
  BY <1>1 DEF IInv, Calling
<1>14. Counted'
  <2>1. \A r \in Entry : registrations'[r].once => calls'[r] = IF r \in consumed THEN 1 ELSE 0
    BY <1>10 DEF IInv, Counted
  <2>2. calls'[entry] = 0 /\ entry \notin consumed
    BY <1>10 DEF IInv, Named
  <2>3. Len(calls') = Len(registrations')
    BY <1>2, <1>10 DEF IInv, Counted, entry
  <2> QED
    BY <1>1, <1>10, <2>1, <2>2, <2>3 DEF Counted
<1>15. \A h \in 1..M : h \in 1..Len(new)
  BY <1>2, <1>5 DEF M, new
<1>16. Named'
  <2>1. ASSUME NEW h \in 1..Len(new), NEW j \in 1..Len(new[h].listeners)
        PROVE  new[h].listeners[j] \in Entry'
    <3>1. CASE new[h].listeners[j] = entry
      BY <1>10, <3>1
    <3>2. CASE \E i \in 1..Len(made[h].listeners) :
                 h \in 1..M /\ new[h].listeners[j] = made[h].listeners[i]
      BY <1>10, <3>2 DEF IInv, Named, M
    <3> QED
      BY <1>7, <3>1, <3>2
  <2>2. consumed' \subseteq Entry'
    BY <1>1, <1>10 DEF IInv, Named
  <2>3. \A f \in 1..Len(frames) : frames[f].group \in 1..Len(new)
    BY <1>15 DEF IInv, Named, M
  <2>4. \A f \in 1..Len(frames) : \A i \in 1..Len(frames[f].rest) : frames[f].rest[i] \in Entry'
    BY <1>10 DEF IInv, Named
  <2> QED
    BY <1>1, <1>11, <2>1, <2>2, <2>3, <2>4 DEF Named, new
<1>17. OnePlace'
  <2> SUFFICES ASSUME NEW h1 \in 1..Len(new), NEW h2 \in 1..Len(new),
                      NEW i \in 1..Len(new[h1].listeners), NEW j \in 1..Len(new[h2].listeners),
                      new[h1].listeners[i] = new[h2].listeners[j]
               PROVE  h1 = h2 /\ i = j
    BY DEF OnePlace, new
  <2>1. CASE new[h1].listeners[i] = entry
    BY <1>7, <1>9, <2>1
  <2>2. CASE new[h1].listeners[i] # entry
    <3>1. /\ h1 \in 1..M /\ was(h1, i) \in 1..Len(made[h1].listeners)
          /\ new[h1].listeners[i] = made[h1].listeners[was(h1, i)]
      BY <1>7, <2>2
    <3>2. /\ h2 \in 1..M /\ was(h2, j) \in 1..Len(made[h2].listeners)
          /\ new[h2].listeners[j] = made[h2].listeners[was(h2, j)]
      BY <1>7, <2>2
    <3>3. h1 = h2 /\ was(h1, i) = was(h2, j)
      <4>1. \A a \in 1..Len(made[h1].listeners), b \in 1..Len(made[h2].listeners) :
              made[h1].listeners[a] = made[h2].listeners[b] => h1 = h2 /\ a = b
        BY <3>1, <3>2 DEF IInv, OnePlace, M
      <4> QED
        BY <3>1, <3>2, <4>1
    <3>4. CASE h1 = g
      <4>1. i # q /\ j # q
        BY <1>6, <2>2, <3>3, <3>4 DEF AfterPut, new
      <4> QED
        BY <1>8, <3>3, <3>4, <4>1
    <3>5. CASE h1 # g
      BY <3>3, <3>5 DEF was
    <3> QED
      BY <3>3, <3>4, <3>5
  <2> QED
    BY <2>1, <2>2
<1>18. Held'
  <2>0. frames' = frames
    BY <1>1
  <2> SUFFICES ASSUME NEW f \in 1..Len(frames), NEW h \in 1..Len(new),
                      NEW k \in 1..Len(frames[f].rest), NEW j \in 1..Len(new[h].listeners),
                      frames[f].rest[k] = new[h].listeners[j]
               PROVE  h = frames[f].group
    BY <2>0, Zenon DEF Held, new
  <2>1. frames[f].rest[k] # entry
    BY <1>10 DEF IInv, Named
  <2>2. /\ h \in 1..M /\ was(h, j) \in 1..Len(made[h].listeners)
        /\ new[h].listeners[j] = made[h].listeners[was(h, j)]
    BY <1>7, <2>1
  <2> QED
    BY <2>2 DEF IInv, Held, M
<1>19. Unmarked'
  <2> SUFFICES ASSUME NEW h \in 1..Len(new), NEW j \in 1..Len(new[h].listeners)
               PROVE  new[h].listeners[j] \notin consumed
    BY <1>1 DEF Unmarked, new
  <2>1. entry \notin consumed
    BY <1>10 DEF IInv, Named
  <2> QED
    BY <1>7, <2>1 DEF IInv, Unmarked, M
<1>20. NoneEmpty'
  <2>1. Len(new[g].listeners) > 0
    <3>1. new[g].listeners \in Seq(Nat) /\ q \in 1..Len(new[g].listeners)
      BY <1>6 DEF AfterPut, new
    <3> QED
      BY <3>1
  <2>2. \A h \in 1..M : h # g => new[h] = made[h]
    BY <1>5 DEF new
  <2>3. \A i \in 1..Len(groups) : Len(new[groups[i]].listeners) > 0
    BY <2>1, <2>2 DEF IInv, NoneEmpty, Named, M
  <2>4. \A i \in 1..Len(groups') : groups'[i] = g \/ \E j \in 1..Len(groups) : groups'[i] = groups[j]
    <3>1. CASE found = 0
      <4>1. groups' = Append(groups, g)
        BY <1>1, <3>1
      <4> QED
        BY <1>2, <1>4, <4>1
    <3>2. CASE found # 0
      BY <1>1, <3>2
    <3> QED
      BY <3>1, <3>2
  <2> QED
    BY <2>1, <2>3, <2>4 DEF NoneEmpty, new
<1> QED
  BY <1>11, <1>12, <1>13, <1>14, <1>16, <1>17, <1>18, <1>19, <1>20 DEF IInv
-----------------------------------------------------------------------------
\* Every operation of the emitter, called from anywhere, keeps IInv.
LEMMA StepKeeps ==
  ASSUME IInv, [Next]_vars
  PROVE  IInv'
<1>1. ASSUME UNCHANGED vars
      PROVE  IInv'
  <2>1. UNCHANGED <<groups, made, registrations, consumed, frames, calls>>
    BY <1>1 DEF vars
  <2>2. FramesWithin
    BY <2>1 DEF FramesWithin, Within, IInv, Types, Calling
  <2> QED
    BY <2>1, <2>2, FramesKeep
<1> QED
  BY <1>1, AddKeeps, RemoveKeeps, RemoveAllKeeps, EmitKeeps, CallKeeps, WalkKeeps DEF Next

\* IInv holds in every state of every behaviour of an emitter.
THEOREM Inductive == Spec => []IInv
BY InitKeeps, StepKeeps, PTL DEF Spec

\* What listener_count and event_names rely on: an event has one group at most,
\* no listed group is empty, and none holds a once listener already called,
\* whatever emits hold and call while groups are pruned, thrown away and made
\* again.
THEOREM GroupsStaySound == Spec => []GroupsSound
BY Inductive, Implied, PTL

\* A once listener is called at most once, however emits are nested and however
\* many snapshots hold it.
THEOREM OnceMeansOnce == Spec => []CalledOnce
BY Inductive, Implied, PTL
-----------------------------------------------------------------------------
(***************************************************************************)
(* The table of typed listeners.  To compare it before and after a step,   *)
(* it is a function of the list gs of groups and of the groups md made.    *)
(***************************************************************************)
FindIn(gs, md, e) ==
  IF \E i \in DOMAIN gs : md[gs[i]].event = e
  THEN LET i == CHOOSE i \in DOMAIN gs :
                  /\ md[gs[i]].event = e
                  /\ \A j \in 1..(i - 1) : md[gs[j]].event # e
       IN  gs[i]
  ELSE 0
ListIn(gs, md, e) == IF FindIn(gs, md, e) = 0 THEN <<>> ELSE md[FindIn(gs, md, e)].listeners

SoundIn(gs, md) ==
  /\ gs \in Seq(Nat) /\ \A i \in 1..Len(gs) : gs[i] # 0
  /\ \A i, j \in 1..Len(gs) : md[gs[i]].event = md[gs[j]].event => i = j

\* The group an emit holds is one of its event.
Shown == \A f \in 1..Len(frames) : made[frames[f].group].event = frames[f].event

\* The table, before and after a step.
LEMMA EntriesIn ==
  /\ DOMAIN Entries = Events /\ DOMAIN Entries' = Events
  /\ \A e \in Events : /\ Entries[e] = ListIn(groups, made, e)
                       /\ Entries'[e] = ListIn(groups', made', e)
                       /\ _find(e) = FindIn(groups, made, e)
BY DEF Entries, _find, FindIn, ListIn

\* IInv keeps the list of groups sound.
LEMMA GroupsIn ==
  /\ IInv => SoundIn(groups, made)
  /\ IInv' => SoundIn(groups', made')
<1>1. ASSUME NEW gs \in Seq(Nat), NEW n, \A i \in 1..Len(gs) : gs[i] \in 1..n
      PROVE  \A i \in 1..Len(gs) : gs[i] # 0
  BY <1>1
<1>2. IInv => SoundIn(groups, made)
  BY <1>1 DEF IInv, Types, Named, OneGroup, SoundIn
<1>3. IInv' => SoundIn(groups', made')
  BY <1>1 DEF IInv, Types, Named, OneGroup, SoundIn
<1> QED
  BY <1>2, <1>3

\* The search finds the one group of the event, if it has one.
LEMMA ListFacts ==
  ASSUME NEW gs, NEW md, SoundIn(gs, md), NEW e
  PROVE  /\ \A i \in 1..Len(gs) : md[gs[i]].event = e =>
              FindIn(gs, md, e) = gs[i] /\ ListIn(gs, md, e) = md[gs[i]].listeners
         /\ (\A i \in 1..Len(gs) : md[gs[i]].event # e) =>
              FindIn(gs, md, e) = 0 /\ ListIn(gs, md, e) = <<>>
<1>1. /\ DOMAIN gs = 1..Len(gs) /\ Len(gs) \in Nat /\ \A i \in 1..Len(gs) : gs[i] # 0
      /\ \A i, j \in 1..Len(gs) : md[gs[i]].event = md[gs[j]].event => i = j
  BY DEF SoundIn
<1>2. ASSUME NEW i \in 1..Len(gs), md[gs[i]].event = e
      PROVE  FindIn(gs, md, e) = gs[i] /\ ListIn(gs, md, e) = md[gs[i]].listeners
  <2> DEFINE P(k) == md[gs[k]].event = e /\ \A j \in 1..(k - 1) : md[gs[j]].event # e
             c == CHOOSE k \in DOMAIN gs : P(k)
  <2>1. P(i)
    <3> SUFFICES ASSUME NEW j \in 1..(i - 1), md[gs[j]].event = e PROVE FALSE
      BY <1>2
    <3>1. j \in 1..Len(gs) /\ j # i
      BY <1>1
    <3> QED
      BY <1>1, <1>2, <3>1
  <2>2. c \in DOMAIN gs /\ P(c)
    <3> HIDE DEF P
    <3> QED
      BY <1>1, <2>1
  <2>3. c = i
    BY <1>1, <1>2, <2>2
  <2>4. FindIn(gs, md, e) = gs[c]
    BY <1>1, <1>2 DEF FindIn
  <2> HIDE DEF c
  <2> QED
    BY <1>1, <2>3, <2>4 DEF ListIn
<1>3. (\A i \in 1..Len(gs) : md[gs[i]].event # e) =>
         FindIn(gs, md, e) = 0 /\ ListIn(gs, md, e) = <<>>
  BY <1>1 DEF FindIn, ListIn
<1> QED
  BY <1>2, <1>3

\* So, for an event that the list has a group of.
LEMMA FoundAt ==
  ASSUME NEW gs, NEW md, SoundIn(gs, md), NEW e, NEW i \in 1..Len(gs), md[gs[i]].event = e
  PROVE  FindIn(gs, md, e) = gs[i] /\ ListIn(gs, md, e) = md[gs[i]].listeners
BY ListFacts

\* So, for an event without one.
LEMMA FoundNone ==
  ASSUME NEW gs, NEW md, SoundIn(gs, md), NEW e, \A i \in 1..Len(gs) : md[gs[i]].event # e
  PROVE  FindIn(gs, md, e) = 0 /\ ListIn(gs, md, e) = <<>>
BY ListFacts

\* An event whose group is the same after a step, and listed if it was, has the
\* same listeners.
LEMMA SameList ==
  ASSUME NEW gs, NEW md, SoundIn(gs, md), NEW hs, NEW nd, SoundIn(hs, nd), NEW e,
         \A i \in 1..Len(gs) : md[gs[i]].event = e =>
           /\ nd[gs[i]] = md[gs[i]]
           /\ \E j \in 1..Len(hs) : hs[j] = gs[i],
         \A j \in 1..Len(hs) : nd[hs[j]].event = e =>
           \E i \in 1..Len(gs) : hs[j] = gs[i] /\ md[gs[i]].event = e
  PROVE  ListIn(hs, nd, e) = ListIn(gs, md, e)
<1>1. CASE \A i \in 1..Len(gs) : md[gs[i]].event # e
  <2>1. \A j \in 1..Len(hs) : nd[hs[j]].event # e
    BY <1>1
  <2>2. ListIn(hs, nd, e) = <<>>
    BY <2>1, FoundNone
  <2>3. ListIn(gs, md, e) = <<>>
    BY <1>1, FoundNone
  <2> QED
    BY <2>2, <2>3
<1>2. ASSUME NEW i \in 1..Len(gs), md[gs[i]].event = e
      PROVE  ListIn(hs, nd, e) = ListIn(gs, md, e)
  <2>1. nd[gs[i]] = md[gs[i]] /\ \E j \in 1..Len(hs) : hs[j] = gs[i]
    BY <1>2
  <2>2. PICK j \in 1..Len(hs) : hs[j] = gs[i]
    BY <2>1
  <2>3. nd[hs[j]] = md[gs[i]] /\ nd[hs[j]].event = e
    BY <1>2, <2>1, <2>2
  <2>4. ListIn(hs, nd, e) = nd[hs[j]].listeners
    BY <2>3, FoundAt
  <2>5. ListIn(gs, md, e) = md[gs[i]].listeners
    BY <1>2, FoundAt
  <2> QED
    BY <2>3, <2>4, <2>5
<1> QED
  BY <1>1, <1>2

\* hs lists what groups does, but for g.
Lists(hs, g) ==
  /\ \A j \in 1..Len(hs) : \E i \in 1..Len(groups) : hs[j] = groups[i] /\ groups[i] # g
  /\ \A i \in 1..Len(groups) : groups[i] # g => \E j \in 1..Len(hs) : hs[j] = groups[i]

\* A group is taken off the list, if it is there.
LEMMA PoppedGroups ==
  ASSUME IInv, NEW g
  PROVE  Lists(without(groups, g), g)
<1>0. PICK hs : hs = without(groups, g)
  OBVIOUS
<1>1. /\ groups \in Seq(Nat) /\ Len(groups) \in Nat
      /\ \A i, j \in 1..Len(groups) : groups[i] = groups[j] => i = j
  BY DEF IInv, Types, OneGroup
<1>2. CASE ~\E i \in 1..Len(groups) : groups[i] = g
  <2>1. hs = groups
    BY <1>0, <1>1, <1>2, WithoutFacts
  <2> QED
    BY <1>0, <1>2, <2>1 DEF Lists
<1>3. CASE \E i \in 1..Len(groups) : groups[i] = g
  <2>1. PICK k \in 1..Len(groups) : groups[k] = g /\ hs = RemoveAt(groups, k)
    BY <1>0, <1>1, <1>3, WithoutFacts
  <2>2. AfterPop(groups, k, hs, Nat)
    BY <1>1, <2>1, PlacesAfterPop
  <2>3. /\ Len(hs) = Len(groups) - 1
        /\ \A j \in 1..Len(hs) : /\ Before(k, j) \in 1..Len(groups) /\ Before(k, j) # k
                                 /\ hs[j] = groups[Before(k, j)]
    BY <2>2 DEF AfterPop
  <2>4. ASSUME NEW j \in 1..Len(hs)
        PROVE  \E i \in 1..Len(groups) : hs[j] = groups[i] /\ groups[i] # g
    BY <1>1, <2>1, <2>3
  <2>5. ASSUME NEW i \in 1..Len(groups), groups[i] # g
        PROVE  \E j \in 1..Len(hs) : hs[j] = groups[i]
    <3>1. PICK j : j = IF i < k THEN i ELSE i - 1
      OBVIOUS
    <3>2. i # k
      BY <2>1, <2>5
    <3>3. j \in 1..Len(hs) /\ Before(k, j) = i
      BY <1>1, <2>3, <3>1, <3>2 DEF Before
    <3> QED
      BY <2>3, <3>3
  <2> QED
    BY <1>0, <2>4, <2>5 DEF Lists
<1> QED
  BY <1>2, <1>3
\* The listeners of the group g become new, and a group without any leaves the
\* list: only the event of a listed g sees it.
LEMMA ListedSee ==
  ASSUME IInv, IInv', NEW g \in 1..Len(made), NEW new,
         made' = [made EXCEPT ![g].listeners = new], groups' = _prune(g, new)
  PROVE  \A e \in Events : Entries'[e] = IF _find(e) = g THEN new ELSE Entries[e]
<1>0. PICK hs, nd : hs = groups' /\ nd = made'
  OBVIOUS
<1>1. /\ SoundIn(groups, made) /\ SoundIn(hs, nd) /\ g # 0
      /\ made \in Seq(Group) /\ groups \in Seq(Nat) /\ made[g] \in Group
      /\ \A i \in 1..Len(groups) : groups[i] \in 1..Len(made)
  <2>1. SoundIn(groups, made) /\ SoundIn(hs, nd)
    BY <1>0, GroupsIn
  <2>2. made[g] \in Group
    BY GroupTyped DEF IInv
  <2> QED
    BY <2>1, <2>2 DEF IInv, Types, Named
<1>2. /\ nd[g].listeners = new /\ nd[g].event = made[g].event
      /\ \A h \in 1..Len(made) : h # g => nd[h] = made[h]
  BY <1>0, <1>1 DEF Group
<1>3. /\ \A j \in 1..Len(hs) : \E i \in 1..Len(groups) :
             hs[j] = groups[i] /\ (new = <<>> => groups[i] # g)
      /\ \A i \in 1..Len(groups) : groups[i] # g \/ new # <<>> =>
             \E j \in 1..Len(hs) : hs[j] = groups[i]
  <2>1. CASE new # <<>>
    BY <1>0, <2>1 DEF _prune
  <2>2. CASE new = <<>>
    <3>1. IInv /\ hs = without(groups, g)
      BY <1>0, <2>2 DEF _prune
    <3>2. Lists(hs, g)
      BY <3>1, PoppedGroups
    <3> QED
      BY <2>2, <3>2 DEF Lists
  <2> QED
    BY <2>1, <2>2
<1>4. ASSUME NEW e \in Events, _find(e) = g
      PROVE  Entries'[e] = new
  <2>1. FindIn(groups, made, e) = g
    BY <1>4, EntriesIn
  <2>2. PICK i \in 1..Len(groups) : groups[i] = g /\ made[g].event = e
    <3>1. PICK i \in 1..Len(groups) : made[groups[i]].event = e
      BY <1>1, <2>1, FoundNone
    <3>2. FindIn(groups, made, e) = groups[i]
      BY <1>1, <3>1, FoundAt
    <3> QED
      BY <2>1, <3>1, <3>2
  <2>3. CASE new # <<>>
    <3>1. PICK j \in 1..Len(hs) : hs[j] = g
      BY <1>3, <2>2, <2>3
    <3>2. nd[hs[j]].event = e /\ nd[hs[j]].listeners = new
      BY <1>2, <2>2, <3>1
    <3>3. ListIn(hs, nd, e) = new
      <4>1. SoundIn(hs, nd) /\ j \in 1..Len(hs) /\ nd[hs[j]].event = e
        BY <1>1, <3>2
      <4>2. ListIn(hs, nd, e) = nd[hs[j]].listeners
        BY ONLY <4>1, FoundAt
      <4> QED
        BY <3>2, <4>2
    <3> QED
      BY <3>3, <1>0, EntriesIn
  <2>4. CASE new = <<>>
    <3>1. ASSUME NEW j \in 1..Len(hs) PROVE nd[hs[j]].event # e
      <4>1. PICK l \in 1..Len(groups) : hs[j] = groups[l] /\ groups[l] # g
        BY <1>3, <2>4
      <4>2. nd[groups[l]] = made[groups[l]]
        BY <1>1, <1>2, <4>1
      <4>3. made[groups[l]].event # e
        BY <1>1, <2>2, <4>1 DEF SoundIn
      <4> QED
        BY <4>1, <4>2, <4>3
    <3>2. ListIn(hs, nd, e) = <<>>
      BY <1>1, <3>1, FoundNone
    <3> QED
      BY <2>4, <3>2, <1>0, EntriesIn
  <2> QED
    BY <2>3, <2>4
<1>5. ASSUME NEW e \in Events, _find(e) # g
      PROVE  Entries'[e] = Entries[e]
  <2>1. FindIn(groups, made, e) # g
    BY <1>5, EntriesIn
  <2>2. ASSUME NEW i \in 1..Len(groups), made[groups[i]].event = e
        PROVE  groups[i] # g
    <3>1. FindIn(groups, made, e) = groups[i]
      BY <1>1, <2>2, FoundAt
    <3> QED
      BY <2>1, <3>1
  <2>3. ASSUME NEW i \in 1..Len(groups), made[groups[i]].event = e
        PROVE  /\ nd[groups[i]] = made[groups[i]]
               /\ \E j \in 1..Len(hs) : hs[j] = groups[i]
    BY <1>1, <1>2, <1>3, <2>2, <2>3
  <2>4. ASSUME NEW j \in 1..Len(hs), nd[hs[j]].event = e
        PROVE  \E i \in 1..Len(groups) : hs[j] = groups[i] /\ made[groups[i]].event = e
    <3>1. PICK i \in 1..Len(groups) : hs[j] = groups[i]
      BY <1>3
    <3>2. made[groups[i]].event = e
      BY <1>1, <1>2, <2>4, <3>1
    <3> QED
      BY <3>1, <3>2
  <2>5. ListIn(hs, nd, e) = ListIn(groups, made, e)
    <3>1. /\ SoundIn(groups, made) /\ SoundIn(hs, nd)
          /\ \A i \in 1..Len(groups) : made[groups[i]].event = e =>
               /\ nd[groups[i]] = made[groups[i]]
               /\ \E j \in 1..Len(hs) : hs[j] = groups[i]
          /\ \A j \in 1..Len(hs) : nd[hs[j]].event = e =>
               \E i \in 1..Len(groups) : hs[j] = groups[i] /\ made[groups[i]].event = e
      BY <1>1, <2>3, <2>4
    <3> QED
      BY ONLY <3>1, SameList
  <2> QED
    BY <2>5, <1>0, EntriesIn
<1> QED
  BY <1>4, <1>5

\* A table that differs from the one before for an event.
LEMMA TableChanges ==
  ASSUME NEW e \in Events, NEW new, Entries'[e] = new,
         \A d \in Events \ {e} : Entries'[d] = Entries[d]
  PROVE  Entries' = [Entries EXCEPT ![e] = new]
<1>1. \A d \in Events : Entries'[d] = [Entries EXCEPT ![e] = new][d]
  BY EntriesIn
<1>2. Entries' = [d \in Events |-> Entries'[d]] /\ Entries = [d \in Events |-> Entries[d]]
  BY DEF Entries
<1> HIDE DEF Entries
<1> QED
  BY <1>1, <1>2

\* Both tables lose a registration the same way.
LEMMA WithoutTyped ==
  ASSUME NEW s, NEW x
  PROVE  Typed!without(s, x) = without(s, x)
BY DEF without, RemoveFirst, SelectInSeq, RemoveAt, Min, Typed!without, Typed!RemoveFirst,
       Typed!SelectInSeq, Typed!RemoveAt, Typed!Min
\* The emits under way, as typed listeners see them.
LEMMA TypedTop ==
  ASSUME IInv
  PROVE  /\ DOMAIN TypedFrames = 1..Len(frames) /\ Len(TypedFrames) = Len(frames)
         /\ \A f \in 1..Len(frames) :
              TypedFrames[f] = [event |-> frames[f].event, rest |-> frames[f].rest,
                                calling |-> frames[f].calling]
         /\ frames = <<>> <=> TypedFrames = <<>>
         /\ CanCall <=> Typed!CanCall
         /\ frames # <<>> =>
              /\ Len(frames) \in 1..Len(frames) /\ frame = frames[Len(frames)]
              /\ frame.event = Typed!frame.event /\ frame.rest = Typed!frame.rest
              /\ frame.calling = Typed!frame.calling
              /\ Walking <=> Typed!Walking
<1>1. frames \in Seq(Frame) /\ Len(frames) \in Nat /\ DOMAIN frames = 1..Len(frames)
  BY DEF IInv, Types
<1>2. /\ DOMAIN TypedFrames = 1..Len(frames) /\ Len(TypedFrames) = Len(frames)
      /\ \A f \in 1..Len(frames) :
           TypedFrames[f] = [event |-> frames[f].event, rest |-> frames[f].rest,
                             calling |-> frames[f].calling]
  BY <1>1 DEF TypedFrames
<1>3. frames = <<>> <=> TypedFrames = <<>>
  <2>1. CASE frames = <<>>
    BY <2>1 DEF TypedFrames
  <2>2. CASE frames # <<>>
    <3>1. Len(frames) # 0
      BY <1>1, <2>2
    <3> QED
      BY <1>2, <2>2, <3>1
  <2> QED
    BY <2>1, <2>2
<1> HIDE DEF TypedFrames
<1>4. frames # <<>> =>
        /\ Len(frames) \in 1..Len(frames) /\ frame = frames[Len(frames)]
        /\ frame.event = Typed!frame.event /\ frame.rest = Typed!frame.rest
        /\ frame.calling = Typed!frame.calling
  <2> SUFFICES ASSUME frames # <<>>
               PROVE  /\ Len(frames) \in 1..Len(frames) /\ frame = frames[Len(frames)]
                      /\ frame.event = Typed!frame.event /\ frame.rest = Typed!frame.rest
                      /\ frame.calling = Typed!frame.calling
    OBVIOUS
  <2>1. Len(frames) \in 1..Len(frames) /\ frame = frames[Len(frames)]
    BY <1>1 DEF frame, Last
  <2>2. Typed!frame = TypedFrames[Len(frames)]
    BY <1>2 DEF Typed!frame, Typed!Last
  <2>3. Typed!frame = [event |-> frame.event, rest |-> frame.rest, calling |-> frame.calling]
    BY <1>2, <2>1, <2>2
  <2> QED
    BY <2>1, <2>3
<1>5. frames # <<>> => (Walking <=> Typed!Walking)
  BY <1>3, <1>4 DEF Walking, Typed!Walking
<1>6. CanCall <=> Typed!CanCall
  BY <1>3, <1>4 DEF CanCall, Typed!CanCall, frame, Typed!frame
<1> QED
  BY <1>2, <1>3, <1>4, <1>5, <1>6

\* The emits hold groups of their events, and keep them.
Holding ==
  \A f \in 1..Len(frames') : \E h \in 1..Len(frames) :
    frames'[f].group = frames[h].group /\ frames'[f].event = frames[h].event

\* The emit on top calls its next listener, or is done with it.
LEMMA TypedWalk ==
  ASSUME IInv, frames # <<>>, NEW b \in BOOLEAN, walk(b)
  PROVE  Typed!walk(b) /\ Holding
<1>1. PICK n : n = Len(frames)
  OBVIOUS
<1>2. frames \in Seq(Frame) /\ n \in Nat /\ n \in 1..n /\ DOMAIN frames = 1..n
  BY <1>1, TypedTop DEF IInv, Types
<1>3. frames[n] \in Frame
  BY <1>1, <1>2, FrameTyped DEF IInv
<1>4. PICK rest : rest = IF b THEN frames[n].rest ELSE Tail(frames[n].rest)
  OBVIOUS
<1>5. /\ DOMAIN frames' = 1..n /\ Len(frames') = n
      /\ \A f \in 1..n : f # n => frames'[f] = frames[f]
      /\ frames'[n].group = frames[n].group /\ frames'[n].event = frames[n].event
      /\ frames'[n].calling = b /\ frames'[n].rest = rest
  <2>1. frames' = [frames EXCEPT ![n] = [frames[n] EXCEPT !.calling = b, !.rest = rest]]
    BY <1>1, <1>2, <1>3, <1>4 DEF walk, Frame
  <2>2. PICK x : x = [frames[n] EXCEPT !.calling = b, !.rest = rest]
    OBVIOUS
  <2>3. /\ x.group = frames[n].group /\ x.event = frames[n].event
        /\ x.calling = b /\ x.rest = rest
    BY <1>3, <2>2 DEF Frame
  <2>4. frames' = [f \in 1..n |-> IF f = n THEN x ELSE frames[f]]
    BY <1>2, <2>1, <2>2
  <2> QED
    BY <1>2, <2>3, <2>4
<1>6. Holding
  BY <1>1, <1>2, <1>5 DEF Holding
<1>7. PICK tf, uf : tf = TypedFrames /\ uf = TypedFrames'
  OBVIOUS
<1>8. /\ DOMAIN tf = 1..n /\ Len(tf) = n
      /\ \A f \in 1..n : tf[f] = [event |-> frames[f].event, rest |-> frames[f].rest,
                                  calling |-> frames[f].calling]
  BY <1>1, <1>7, TypedTop
<1>9. uf = [f \in 1..n |-> [event |-> frames'[f].event, rest |-> frames'[f].rest,
                            calling |-> frames'[f].calling]]
  BY <1>5, <1>7 DEF TypedFrames
<1>10. tf = [f \in 1..n |-> tf[f]]
  BY <1>1, <1>2, <1>7 DEF TypedFrames
<1>11. uf = [tf EXCEPT ![n] = [tf[n] EXCEPT !.calling = b, !.rest = rest]]
  <2>1. ASSUME NEW f \in 1..n
        PROVE  uf[f] = [tf EXCEPT ![n] = [tf[n] EXCEPT !.calling = b, !.rest = rest]][f]
    <3>1. CASE f # n
      <4>1. frames'[f] = frames[f]
        BY <1>5, <3>1
      <4>2. uf[f] = tf[f]
        BY <1>8, <1>9, <4>1
      <4> QED
        BY <1>8, <3>1, <4>2
    <3>2. CASE f = n
      <4>1. uf[n] = [event |-> frames[n].event, rest |-> rest, calling |-> b]
        BY <1>2, <1>5, <1>9
      <4>2. tf[n] = [event |-> frames[n].event, rest |-> frames[n].rest,
                     calling |-> frames[n].calling]
        BY <1>2, <1>8
      <4>3. [tf[n] EXCEPT !.calling = b, !.rest = rest]
              = [event |-> frames[n].event, rest |-> rest, calling |-> b]
        <5>1. PICK e, s, c : e = frames[n].event /\ s = frames[n].rest /\ c = frames[n].calling
          OBVIOUS
        <5>2. PICK z : z = [event |-> e, rest |-> s, calling |-> c]
          OBVIOUS
        <5>3. PICK w : w = [z EXCEPT !.calling = b, !.rest = rest]
          OBVIOUS
        <5>4. w \in [event : {e}, rest : {rest}, calling : {b}]
          BY <5>2, <5>3
        <5>5. w = [event |-> e, rest |-> rest, calling |-> b]
          BY <5>4
        <5> QED
          BY <4>2, <5>1, <5>2, <5>3, <5>5, Zenon
      <4> QED
        BY <1>2, <1>8, <3>2, <4>1, <4>3
    <3> QED
      BY <3>1, <3>2
  <2>2. DOMAIN uf = 1..n /\ uf = [f \in 1..n |-> uf[f]]
    BY <1>9
  <2> QED
    BY <1>8, <1>10, <2>1, <2>2
<1>12. tf[n].rest = frames[n].rest /\ tf[n].calling = frames[n].calling
  BY <1>2, <1>8
<1>13. uf = [tf EXCEPT ![Len(tf)].calling = b, ![Len(tf)].rest = IF b THEN @ ELSE Tail(@)]
  BY <1>2, <1>4, <1>8, <1>11, <1>12
<1> QED
  BY <1>6, <1>7, <1>13 DEF Typed!walk

\* A listener returns, one is passed over, or an emit is over.
LEMMA WalkTyped ==
  ASSUME IInv, skip \/ returned \/ finished
  PROVE  (Typed!skip \/ Typed!returned \/ Typed!finished) /\ Holding
<1>1. UNCHANGED <<groups, made, registrations, consumed, calls>> /\ frames # <<>>
  BY DEF skip, returned, finished, Walking
<1>2. Entries' = Entries
  BY <1>1 DEF Entries, _find
<1>3. /\ TypedFrames # <<>> /\ frame.rest = Typed!frame.rest
      /\ frame.calling = Typed!frame.calling /\ (Walking <=> Typed!Walking)
  BY <1>1, TypedTop
<1>4. CASE skip
  <2>1. Typed!walk(FALSE) /\ Holding
    BY <1>1, <1>4, TypedWalk DEF skip
  <2> QED
    BY <1>1, <1>2, <1>3, <1>4, <2>1 DEF skip, Typed!skip
<1>5. CASE returned
  <2>1. Typed!walk(FALSE) /\ Holding
    BY <1>1, <1>5, TypedWalk DEF returned
  <2> QED
    BY <1>1, <1>2, <1>3, <1>5, <2>1 DEF returned, Typed!returned
<1>6. CASE finished
  <2>1. frames' = Front(frames)
    BY <1>6 DEF finished
  <2>2. PICK n : n = Len(frames)
    OBVIOUS
  <2>3. frames \in Seq(Frame) /\ n \in Nat /\ n \in 1..n /\ DOMAIN frames = 1..n
    BY <1>1, <2>2, TypedTop DEF IInv, Types
  <2>4. /\ frames' \in Seq(Frame) /\ Len(frames') = n - 1
        /\ \A f \in 1..(n - 1) : frames'[f] = frames[f]
    BY <2>1, <2>2, <2>3, FrontFacts
  <2>5. Holding
    <3>1. \A f \in 1..(n - 1) : f \in 1..n
      BY <2>3
    <3> QED
      BY <2>2, <2>4, <3>1 DEF Holding
  <2>6. PICK tf, uf : tf = TypedFrames /\ uf = TypedFrames'
    OBVIOUS
  <2>7. tf = [f \in 1..n |-> [event |-> frames[f].event, rest |-> frames[f].rest,
                              calling |-> frames[f].calling]]
    BY <2>3, <2>6 DEF TypedFrames
  <2>8. uf = [f \in 1..(n - 1) |-> [event |-> frames'[f].event, rest |-> frames'[f].rest,
                                    calling |-> frames'[f].calling]]
    <3>1. DOMAIN frames' = 1..(n - 1)
      BY <2>3, <2>4
    <3> QED
      BY <2>6, <3>1 DEF TypedFrames
  <2>9. uf = [f \in 1..(n - 1) |-> tf[f]]
    BY <2>3, <2>4, <2>7, <2>8
  <2>10. Len(tf) = n /\ SubSeq(tf, 1, n - 1) = [f \in 1..(n - 1) |-> tf[f]]
    <3>1. tf \in Seq([event : {frames[f].event : f \in 1..n}, rest : {frames[f].rest : f \in 1..n},
                      calling : {frames[f].calling : f \in 1..n}])
      BY <2>3, <2>7
    <3>2. Len(tf) = n
      BY <2>3, <2>7
    <3> QED
      BY <2>3, <3>1, <3>2
  <2>11. uf = Typed!Front(tf)
    BY <2>9, <2>10 DEF Typed!Front
  <2>12. Typed!finished
    BY <1>1, <1>2, <1>3, <1>6, <2>6, <2>11 DEF finished, Typed!finished
  <2> QED
    BY <2>5, <2>12
<1> QED
  BY <1>4, <1>5, <1>6
\* _emit walks a copy of the listeners of its event.
LEMMA EmitTyped ==
  ASSUME IInv, NEW e \in Events, _emit(e)
  PROVE  /\ Typed!emit(e)
         /\ \A f \in 1..Len(frames') :
              \/ frames'[f].event = e /\ frames'[f].group = _find(e) /\ _find(e) # 0
              \/ \E h \in 1..Len(frames) : frames'[f] = frames[h]
<1>1. PICK g, n : g = _find(e) /\ n = Len(frames)
  OBVIOUS
<1>2. PICK x : x = [event |-> e, group |-> g, calling |-> FALSE, rest |-> made[g].listeners]
  OBVIOUS
<1>3. /\ g # 0 /\ frames' = Append(frames, x) /\ CanCall /\ n < MaxDepth
      /\ UNCHANGED <<groups, made, registrations, consumed, calls>>
  BY <1>1, <1>2 DEF _emit
<1>4. frames \in Seq(Frame) /\ n \in Nat /\ DOMAIN frames = 1..n
  BY <1>1 DEF IInv, Types
<1>5. /\ DOMAIN frames' = 1..(n + 1) /\ Len(frames') = n + 1 /\ frames'[n + 1] = x
      /\ \A f \in 1..n : frames'[f] = frames[f]
  BY <1>1, <1>3, <1>4
<1>6. Entries' = Entries
  BY <1>3 DEF Entries, _find
<1>7. Entries[e] = made[g].listeners /\ Entries[e] # <<>>
  <2>1. Entries[e] = made[g].listeners
    BY <1>1, <1>3 DEF Entries
  <2>2. PICK i \in 1..Len(groups) : g = groups[i]
    BY <1>1, <1>3, FindFacts DEF IInv
  <2>3. Len(made[g].listeners) > 0
    BY <2>2 DEF IInv, NoneEmpty
  <2>4. made[g].listeners # <<>>
    BY <2>3
  <2> QED
    BY <2>1, <2>4
<1>8. PICK tf, uf : tf = TypedFrames /\ uf = TypedFrames'
  OBVIOUS
<1>9. tf = [f \in 1..n |-> [event |-> frames[f].event, rest |-> frames[f].rest,
                            calling |-> frames[f].calling]]
  BY <1>4, <1>8 DEF TypedFrames
<1>10. uf = [f \in 1..(n + 1) |-> [event |-> frames'[f].event, rest |-> frames'[f].rest,
                                   calling |-> frames'[f].calling]]
  BY <1>5, <1>8 DEF TypedFrames
<1>11. PICK y : y = [event |-> e, rest |-> Entries[e], calling |-> FALSE]
  OBVIOUS
<1>12. uf = Append(tf, y)
  <2>1. ASSUME NEW f \in 1..n PROVE uf[f] = tf[f]
    <3>1. f \in 1..(n + 1) /\ frames'[f] = frames[f]
      BY <1>4, <1>5
    <3> QED
      BY <1>9, <1>10, <3>1
  <2>2. uf[n + 1] = y
    <3>1. x.event = e /\ x.rest = Entries[e] /\ x.calling = FALSE
      BY <1>2, <1>7
    <3>2. uf[n + 1] = [event |-> x.event, rest |-> x.rest, calling |-> x.calling]
      BY <1>4, <1>5, <1>10
    <3> QED
      BY <1>11, <3>1, <3>2
  <2>3. Append(tf, y) = [f \in 1..(n + 1) |-> IF f = n + 1 THEN y ELSE tf[f]]
    <3>1. PICK S : S = {tf[f] : f \in 1..n} \cup {y}
      OBVIOUS
    <3>2. tf = [f \in 1..n |-> tf[f]] /\ \A f \in 1..n : tf[f] \in S
      BY <1>9, <3>1
    <3>3. y \in S /\ tf \in [1..n -> S]
      BY <3>1, <3>2
    <3>4. tf \in Seq(S)
      BY <1>4, <3>3
    <3>5. Len(tf) = n
      BY <1>4, <3>3, <3>4
    <3>6. PICK z : z = Append(tf, y)
      OBVIOUS
    <3>7. /\ z \in Seq(S) /\ Len(z) = n + 1 /\ z[n + 1] = y
          /\ \A f \in 1..n : z[f] = tf[f]
      BY <3>3, <3>4, <3>5, <3>6, AppendProperties
    <3>8. z = [f \in 1..(n + 1) |-> z[f]]
      BY <1>4, <3>7
    <3>9. \A f \in 1..(n + 1) : z[f] = IF f = n + 1 THEN y ELSE tf[f]
      BY <1>4, <3>7
    <3> QED
      BY <3>6, <3>8, <3>9
  <2>4. \A f \in 1..(n + 1) : uf[f] = IF f = n + 1 THEN y ELSE tf[f]
    BY <1>4, <2>1, <2>2
  <2>5. uf = [f \in 1..(n + 1) |-> uf[f]]
    BY <1>10
  <2> QED
    BY <2>3, <2>4, <2>5
<1>13. Len(tf) = n /\ Typed!CanCall
  BY <1>1, <1>3, <1>8, TypedTop
<1>14. Typed!emit(e)
  BY <1>3, <1>6, <1>7, <1>8, <1>11, <1>12, <1>13 DEF Typed!emit
<1> QED
  BY <1>1, <1>2, <1>3, <1>4, <1>5, <1>14

\* The listeners of a group, and the place of a registration among them.
LEMMA ListedOnce ==
  ASSUME IInv, NEW g \in 1..Len(made)
  PROVE  /\ made[g].listeners \in Seq(Nat)
         /\ \A x : \A i, j \in 1..Len(made[g].listeners) :
              made[g].listeners[i] = x /\ made[g].listeners[j] = x => i = j
BY GroupTyped DEF IInv, OnePlace

\* A step that leaves the emits alone.
LEMMA FramesSame ==
  ASSUME frames' = frames
  PROVE  TypedFrames' = TypedFrames
BY DEF TypedFrames

\* _remove takes the last registration of the callback.
LEMMA RemoveTyped ==
  ASSUME IInv, IInv', NEW e \in Events, NEW callback \in Callbacks, _remove(e, callback)
  PROVE  Typed!remove(e, callback)
<1>1. PICK g : g = _find(e)
  OBVIOUS
<1>2. PICK places : places = {i \in DOMAIN made[g].listeners :
                                registrations[made[g].listeners[i]].callback = callback}
  OBVIOUS
<1>3. /\ CanCall /\ g # 0 /\ UNCHANGED <<registrations, consumed, frames, calls>>
      /\ \E last \in places :
           /\ \A i \in places : i <= last
           /\ made' = [made EXCEPT ![g].listeners = RemoveAt(@, last)]
           /\ groups' = _prune(g, RemoveAt(made[g].listeners, last))
  BY <1>1, <1>2 DEF _remove
<1>4. g \in 1..Len(made) /\ made \in Seq(Group)
  BY <1>1, <1>3, FindFacts DEF IInv, Named, Types
<1>5. Entries[e] = made[g].listeners
  BY <1>1, <1>3 DEF Entries
<1>6. PICK last \in places :
        /\ \A i \in places : i <= last
        /\ made' = [made EXCEPT ![g].listeners = RemoveAt(@, last)]
        /\ groups' = _prune(g, RemoveAt(made[g].listeners, last))
  BY <1>3
<1>7. PICK new : new = RemoveAt(made[g].listeners, last)
  OBVIOUS
<1>8. \A d \in Events : Entries'[d] = IF _find(d) = g THEN new ELSE Entries[d]
  <2>1. made' = [made EXCEPT ![g].listeners = new] /\ groups' = _prune(g, new)
    BY <1>4, <1>6, <1>7
  <2> QED
    BY <1>4, <2>1, ListedSee
<1>9. \A d \in Events : _find(d) = g => d = e
  BY <1>1, <1>3, FindFacts DEF IInv
<1>10. Entries' = [Entries EXCEPT ![e] = new]
  BY <1>1, <1>8, <1>9, TableChanges
<1>11. new = Typed!RemoveAt(Entries[e], last)
  BY <1>5, <1>7 DEF RemoveAt, Typed!RemoveAt
<1>12. places = Typed!matches(e, callback)
  BY <1>2, <1>5 DEF Typed!matches
<1>13. Typed!CanCall /\ TypedFrames' = TypedFrames
  BY <1>3, TypedTop, FramesSame
<1>14. \E found \in Typed!matches(e, callback) :
         /\ \A i \in Typed!matches(e, callback) : i <= found
         /\ Entries' = [Entries EXCEPT ![e] = Typed!RemoveAt(@, found)]
  <2>1. Entries' = [Entries EXCEPT ![e] = Typed!RemoveAt(@, last)]
    BY <1>10, <1>11
  <2> QED
    BY <1>6, <1>12, <2>1
<1> QED
  BY <1>3, <1>13, <1>14 DEF Typed!remove

\* A group keeps its event.
Lasting == \A h \in 1..Len(made) : h \in 1..Len(made') /\ made'[h].event = made[h].event

\* The listeners of a group change.
LEMMA ListenersChange ==
  ASSUME IInv, NEW g \in 1..Len(made), NEW new, made' = [made EXCEPT ![g].listeners = new]
  PROVE  Lasting
<1>1. made \in Seq(Group) /\ made[g] \in Group
  BY GroupTyped DEF IInv, Types
<1>2. PICK x : x = [made[g] EXCEPT !.listeners = new]
  OBVIOUS
<1>3. x.event = made[g].event
  BY <1>1, <1>2 DEF Group
<1>4. made' = [made EXCEPT ![g] = x]
  BY <1>2
<1>5. Len(made') = Len(made) /\ \A h \in 1..Len(made) : made'[h] = IF h = g THEN x ELSE made[h]
  BY <1>1, <1>4
<1> QED
  BY <1>3, <1>5 DEF Lasting

\* _remove leaves the groups' events and the emits alone.
LEMMA RemoveLasts ==
  ASSUME IInv, NEW e \in Events, NEW callback \in Callbacks, _remove(e, callback)
  PROVE  Lasting /\ frames' = frames
<1>1. PICK g : g = _find(e)
  OBVIOUS
<1>2. /\ g # 0 /\ frames' = frames
      /\ \E last \in DOMAIN made[g].listeners :
           made' = [made EXCEPT ![g].listeners = RemoveAt(@, last)]
  BY <1>1 DEF _remove
<1>3. g \in 1..Len(made)
  BY <1>1, <1>2, FindFacts DEF IInv, Named
<1>4. PICK new : made' = [made EXCEPT ![g].listeners = new]
  BY <1>2
<1> QED
  BY <1>2, <1>3, <1>4, ListenersChange

\* The first listener of an event makes its group.
LEMMA FirstTyped ==
  ASSUME IInv, IInv', NEW e \in Events, _find(e) = 0, NEW entry \in Nat,
         groups' = Append(groups, Len(made) + 1),
         made' = Append(made, [event |-> e, listeners |-> <<entry>>])
  PROVE  /\ Entries[e] = <<>> /\ Entries' = [Entries EXCEPT ![e] = <<entry>>]
         /\ Lasting
<1>0. PICK hs, nd, m, n : hs = groups' /\ nd = made' /\ m = Len(made) /\ n = Len(groups)
  OBVIOUS
<1>1. PICK x : x = [event |-> e, listeners |-> <<entry>>]
  OBVIOUS
<1>2. /\ SoundIn(groups, made) /\ SoundIn(hs, nd)
      /\ made \in Seq(Group) /\ groups \in Seq(Nat) /\ m \in Nat /\ n \in Nat
      /\ \A i \in 1..n : groups[i] \in 1..m
  <2>1. SoundIn(groups, made) /\ SoundIn(hs, nd)
    BY <1>0, GroupsIn
  <2> QED
    BY <1>0, <2>1 DEF IInv, Types, Named
<1>3. /\ Len(hs) = n + 1 /\ hs[n + 1] = m + 1 /\ \A i \in 1..n : hs[i] = groups[i]
      /\ Len(nd) = m + 1 /\ nd[m + 1] = x /\ \A h \in 1..m : nd[h] = made[h]
  BY <1>0, <1>1, <1>2
<1>4. x.event = e /\ x.listeners = <<entry>>
  BY <1>1
<1>5. Entries[e] = <<>> /\ \A i \in 1..n : made[groups[i]].event # e
  BY <1>0, FindFacts DEF IInv, Entries
<1>6. Entries'[e] = <<entry>>
  <2>1. PICK k \in 1..Len(hs) : nd[hs[k]].event = e /\ nd[hs[k]].listeners = <<entry>>
    <3>1. n + 1 \in 1..Len(hs)
      BY <1>2, <1>3
    <3>2. nd[hs[n + 1]].event = e /\ nd[hs[n + 1]].listeners = <<entry>>
      BY <1>3, <1>4
    <3> QED
      BY <3>1, <3>2
  <2>2. ListIn(hs, nd, e) = <<entry>>
    <3>1. SoundIn(hs, nd) /\ k \in 1..Len(hs) /\ nd[hs[k]].event = e
      BY <1>2, <2>1
    <3>2. ListIn(hs, nd, e) = nd[hs[k]].listeners
      BY ONLY <3>1, FoundAt
    <3> QED
      BY <2>1, <3>2
  <2> QED
    BY <1>0, <2>2, EntriesIn
<1>7. ASSUME NEW d \in Events \ {e}
      PROVE  Entries'[d] = Entries[d]
  <2>1. ASSUME NEW i \in 1..Len(groups), made[groups[i]].event = d
        PROVE  nd[groups[i]] = made[groups[i]] /\ \E j \in 1..Len(hs) : hs[j] = groups[i]
    <3>1. i \in 1..Len(hs) /\ hs[i] = groups[i]
      BY <1>0, <1>2, <1>3
    <3> QED
      BY <1>0, <1>2, <1>3, <3>1
  <2>2. ASSUME NEW j \in 1..Len(hs), nd[hs[j]].event = d
        PROVE  \E i \in 1..Len(groups) : hs[j] = groups[i] /\ made[groups[i]].event = d
    <3>1. j # n + 1
      BY <1>3, <1>4, <1>7, <2>2
    <3>2. j \in 1..n /\ hs[j] = groups[j]
      BY <1>2, <1>3, <3>1
    <3>3. nd[groups[j]] = made[groups[j]]
      BY <1>2, <1>3, <3>2
    <3> QED
      BY <1>0, <2>2, <3>2, <3>3
  <2>3. ListIn(hs, nd, d) = ListIn(groups, made, d)
    <3>1. /\ SoundIn(groups, made) /\ SoundIn(hs, nd)
          /\ \A i \in 1..Len(groups) : made[groups[i]].event = d =>
               /\ nd[groups[i]] = made[groups[i]]
               /\ \E j \in 1..Len(hs) : hs[j] = groups[i]
          /\ \A j \in 1..Len(hs) : nd[hs[j]].event = d =>
               \E i \in 1..Len(groups) : hs[j] = groups[i] /\ made[groups[i]].event = d
      BY <1>2, <2>1, <2>2
    <3> QED
      BY ONLY <3>1, SameList
  <2> QED
    BY <1>0, <1>7, <2>3, EntriesIn
<1>8. Lasting
  BY <1>0, <1>2, <1>3 DEF Lasting
<1> QED
  BY <1>5, <1>6, <1>7, <1>8, TableChanges

\* _add puts the listener first or last.
LEMMA AddTyped ==
  ASSUME IInv, IInv', NEW e \in Events, NEW callback \in Callbacks,
         NEW once \in BOOLEAN, NEW prepend \in BOOLEAN,
         _add(e, callback, once, prepend)
  PROVE  /\ Typed!add(e, callback, once) \/ Typed!prepend(e, callback, once)
         /\ Lasting
<1>1. PICK g, entry : g = _find(e) /\ entry = Len(registrations) + 1
  OBVIOUS
<1>2. /\ CanCall /\ Len(registrations) < MaxRegistrations
      /\ registrations' = Append(registrations, [callback |-> callback, once |-> once])
      /\ consumed' = consumed /\ frames' = frames
      /\ groups' = IF g = 0 THEN Append(groups, Len(made) + 1) ELSE groups
      /\ made' = IF g = 0 THEN Append(made, [event |-> e, listeners |-> <<entry>>])
                 ELSE [made EXCEPT ![g].listeners =
                         IF prepend THEN <<entry>> \o @ ELSE Append(@, entry)]
  BY <1>1 DEF _add
<1>3. entry \in Nat
  BY <1>1 DEF IInv, Types
<1>4. /\ Typed!CanCall /\ TypedFrames' = TypedFrames
      /\ registrations' = Append(registrations, Typed!registrationOf(callback, once))
      /\ Typed!NewIdentity = entry
  BY <1>1, <1>2, TypedTop, FramesSame DEF Typed!registrationOf, Typed!NewIdentity
<1>5. CASE g = 0
  <2>1. /\ Entries[e] = <<>> /\ Entries' = [Entries EXCEPT ![e] = <<entry>>]
        /\ Lasting
    BY <1>1, <1>2, <1>3, <1>5, FirstTyped
  <2>2. Append(<<>>, entry) = <<entry>>
    OBVIOUS
  <2>3. Entries' = [Entries EXCEPT ![e] = Append(@, entry)]
    BY <2>1, <2>2
  <2> QED
    BY <1>2, <1>4, <2>1, <2>3 DEF Typed!add
<1>6. CASE g # 0
  <2>1. PICK new : new = IF prepend THEN <<entry>> \o made[g].listeners
                         ELSE Append(made[g].listeners, entry)
    OBVIOUS
  <2>2. g \in 1..Len(made) /\ Entries[e] = made[g].listeners
    BY <1>1, <1>6, FindFacts DEF IInv, Named, Entries
  <2>3. made' = [made EXCEPT ![g].listeners = new]
    BY <1>2, <1>6, <2>1
  <2>4. new # <<>>
    <3>1. made[g].listeners \in Seq(Nat)
      BY <2>2, GroupTyped DEF IInv
    <3>2. PICK s : s = made[g].listeners
      OBVIOUS
    <3>3. Len(new) = Len(s) + 1 /\ Len(s) \in Nat
      BY <1>3, <2>1, <3>1, <3>2
    <3> QED
      BY <3>3
  <2>5. groups' = _prune(g, new)
    BY <1>2, <1>6, <2>4 DEF _prune
  <2>6. \A d \in Events : Entries'[d] = IF _find(d) = g THEN new ELSE Entries[d]
    BY <2>2, <2>3, <2>5, ListedSee
  <2>7. \A d \in Events : _find(d) = g => d = e
    BY <1>1, <1>6, FindFacts DEF IInv
  <2>8. Entries' = [Entries EXCEPT ![e] = new]
    BY <1>1, <2>6, <2>7, TableChanges
  <2>9. Lasting
    BY <2>2, <2>3, ListenersChange
  <2>10. CASE prepend
    <3>1. Entries' = [Entries EXCEPT ![e] = <<entry>> \o @]
      BY <2>1, <2>2, <2>8, <2>10
    <3> QED
      BY <1>2, <1>4, <2>9, <3>1 DEF Typed!prepend
  <2>11. CASE ~prepend
    <3>1. Entries' = [Entries EXCEPT ![e] = Append(@, entry)]
      BY <2>1, <2>2, <2>8, <2>11
    <3> QED
      BY <1>2, <1>4, <2>9, <3>1 DEF Typed!add
  <2> QED
    BY <2>10, <2>11
<1> QED
  BY <1>5, <1>6

\* Every group of an event leaves the list, or every group.
LEMMA RemoveAllTyped ==
  ASSUME IInv, IInv', remove_all_listeners \/ \E e \in Events : remove_all_listeners_for(e)
  PROVE  Typed!removeAll(Events) \/ \E e \in Events : Typed!removeAll({e})
<1>1. PICK hs : hs = groups'
  OBVIOUS
<1>2. /\ CanCall /\ UNCHANGED <<made, registrations, consumed, frames, calls>>
  BY DEF remove_all_listeners, remove_all_listeners_for
<1>3. Typed!CanCall /\ TypedFrames' = TypedFrames
  BY <1>2, TypedTop, FramesSame
<1>4. SoundIn(groups, made) /\ SoundIn(hs, made)
  BY <1>1, <1>2, GroupsIn
<1>5. Entries' = [d \in Events |-> ListIn(hs, made, d)]
  <2>1. \A d \in Events : Entries'[d] = ListIn(hs, made, d)
    BY <1>1, <1>2, EntriesIn
  <2>2. Entries' = [d \in Events |-> Entries'[d]]
    BY DEF Entries
  <2> HIDE DEF Entries
  <2> QED
    BY <2>1, <2>2
<1>6. CASE remove_all_listeners
  <2>1. hs = <<>>
    BY <1>1, <1>6 DEF remove_all_listeners
  <2>2. \A d \in Events : ListIn(hs, made, d) = <<>>
    BY <2>1 DEF ListIn, FindIn
  <2>3. Entries' = [d \in Events |-> IF d \in Events THEN <<>> ELSE Entries[d]]
    BY <1>5, <2>2
  <2> QED
    BY <1>2, <1>3, <2>3 DEF Typed!removeAll
<1>7. ASSUME NEW e \in Events, remove_all_listeners_for(e)
      PROVE  Typed!removeAll({e})
  <2>1. PICK g : g = _find(e)
    OBVIOUS
  <2>2. Lists(hs, g)
    <3>1. hs = without(groups, g)
      BY <1>1, <1>7, <2>1 DEF remove_all_listeners_for
    <3> QED
      BY <3>1, PoppedGroups
  <2>3. \A i \in 1..Len(groups) : groups[i] = g <=> made[groups[i]].event = e
    <3>1. g = FindIn(groups, made, e)
      BY <2>1, EntriesIn
    <3>2. \A i \in 1..Len(groups) : made[groups[i]].event = e => groups[i] = g
      BY <1>4, <3>1, FoundAt
    <3>3. \A i \in 1..Len(groups) : groups[i] = g => made[groups[i]].event = e
      <4> SUFFICES ASSUME NEW i \in 1..Len(groups), groups[i] = g
                   PROVE  made[groups[i]].event = e
        OBVIOUS
      <4>1. g # 0
        BY <1>4 DEF SoundIn
      <4> QED
        BY <2>1, <4>1, FindFacts DEF IInv
    <3> QED
      BY <3>2, <3>3
  <2>4. ListIn(hs, made, e) = <<>>
    <3>1. \A j \in 1..Len(hs) : made[hs[j]].event # e
      BY <2>2, <2>3 DEF Lists
    <3> QED
      BY <1>4, <3>1, FoundNone
  <2>5. ASSUME NEW d \in Events \ {e}
        PROVE  ListIn(hs, made, d) = Entries[d]
    <3>1. ListIn(hs, made, d) = ListIn(groups, made, d)
      <4>1. \A i \in 1..Len(groups) : made[groups[i]].event = d =>
              /\ made[groups[i]] = made[groups[i]]
              /\ \E j \in 1..Len(hs) : hs[j] = groups[i]
        BY <2>2, <2>3 DEF Lists
      <4>2. \A j \in 1..Len(hs) : made[hs[j]].event = d =>
              \E i \in 1..Len(groups) : hs[j] = groups[i] /\ made[groups[i]].event = d
        BY <2>2 DEF Lists
      <4> QED
        BY ONLY <1>4, <4>1, <4>2, SameList
    <3> QED
      BY <3>1, EntriesIn
  <2>6. Entries' = [d \in Events |-> IF d \in {e} THEN <<>> ELSE Entries[d]]
    BY <1>5, <2>4, <2>5
  <2> QED
    BY <1>2, <1>3, <2>6 DEF Typed!removeAll
<1> QED
  BY <1>6, <1>7

\* The call of a listener: one that is called once leaves the group the emit
\* holds.  The table loses it if that group is still the one of its event; if it
\* is not, no other group has that listener to lose.
LEMMA CallTyped ==
  ASSUME IInv, IInv', Shown, call
  PROVE  Typed!call /\ Holding /\ Lasting
<1>1. PICK r, g, e, new : /\ r = Head(frame.rest) /\ g = frame.group /\ e = frame.event
                          /\ new = without(made[g].listeners, r)
  OBVIOUS
<1>2. /\ Walking /\ frames # <<>> /\ frame.rest # <<>> /\ walk(TRUE)
      /\ r \notin consumed /\ registrations' = registrations
      /\ IF registrations[r].once
         THEN /\ consumed' = consumed \cup {r}
              /\ made' = [made EXCEPT ![g].listeners = new]
              /\ groups' = _prune(g, new)
         ELSE UNCHANGED <<consumed, made, groups>>
  BY <1>1 DEF call, Walking
<1>3. Typed!walk(TRUE) /\ Holding
  BY <1>2, TypedWalk
<1>4. /\ Typed!Walking /\ Typed!frame.rest = frame.rest /\ Typed!frame.event = e
  BY <1>1, <1>2, TypedTop
<1>5. PICK n : n = Len(frames)
  OBVIOUS
<1>6. n \in 1..Len(frames) /\ frame = frames[n]
  BY <1>2, <1>5, TypedTop
<1>7. /\ g \in 1..Len(made) /\ g # 0 /\ made[g].event = e /\ e \in Events
      /\ frame.rest \in Seq(Nat) /\ frames[n].group = g
      /\ 1 \in 1..Len(frames[n].rest) /\ r = frames[n].rest[1]
  <2>1. g \in 1..Len(made) /\ made[g].event = e
    BY <1>1, <1>6 DEF IInv, Named, Shown
  <2>2. e \in Events
    BY <2>1, GroupTyped DEF IInv
  <2>3. frame.rest \in Seq(Nat) /\ frames[n].group = g
    BY <1>1, <1>6, FrameTyped DEF IInv
  <2>4. g # 0
    BY <2>1
  <2>5. 1 \in 1..Len(frames[n].rest) /\ r = frames[n].rest[1]
    BY <1>1, <1>2, <1>6, <2>3
  <2> QED
    BY <2>1, <2>2, <2>3, <2>4, <2>5
<1>8. CASE ~registrations[r].once
  <2>1. UNCHANGED <<consumed, made, groups>>
    BY <1>2, <1>8
  <2>2. Entries' = Entries
    BY <2>1 DEF Entries, _find
  <2>3. Lasting
    BY <2>1 DEF Lasting
  <2>4. Typed!call
    BY <1>1, <1>2, <1>3, <1>4, <1>8, <2>1, <2>2 DEF Typed!call
  <2> QED
    BY <1>3, <2>3, <2>4
<1>9. CASE registrations[r].once
  <2>1. /\ consumed' = consumed \cup {r} /\ made' = [made EXCEPT ![g].listeners = new]
        /\ groups' = _prune(g, new)
    BY <1>2, <1>9
  <2>2. \A d \in Events : Entries'[d] = IF _find(d) = g THEN new ELSE Entries[d]
    BY <1>7, <2>1, ListedSee
  <2>3. \A d \in Events : _find(d) = g => d = e
    BY <1>7, FindFacts DEF IInv
  <2>4. Lasting
    BY <1>7, <2>1, ListenersChange
  <2>5. Entries' = [Entries EXCEPT ![e] = Typed!without(@, r)]
    <3>1. CASE _find(e) = g
      <4>1. Entries' = [Entries EXCEPT ![e] = new]
        BY <1>7, <2>2, <2>3, <3>1, TableChanges
      <4>2. Entries[e] = made[g].listeners
        BY <1>7, <3>1 DEF Entries
      <4>3. new = Typed!without(Entries[e], r)
        BY <1>1, <4>2, WithoutTyped
      <4> QED
        BY <4>1, <4>3
    <3>2. CASE _find(e) # g
      <4>1. \A d \in Events : Entries'[d] = Entries[d]
        BY <2>2, <2>3, <3>2
      <4>2. Entries[e] \in Seq(Nat) /\ \A i \in 1..Len(Entries[e]) : Entries[e][i] # r
        <5>1. CASE _find(e) = 0
          <6>1. Entries[e] = <<>>
            BY <1>7, <5>1 DEF Entries
          <6> QED
            BY <6>1
        <5>2. CASE _find(e) # 0
          <6>1. PICK h : h = _find(e)
            OBVIOUS
          <6>2. h \in 1..Len(made) /\ Entries[e] = made[h].listeners
            BY <1>7, <5>2, <6>1, FindFacts DEF IInv, Named, Entries
          <6>3. \A i \in 1..Len(made[h].listeners) : made[h].listeners[i] # r
            BY <1>6, <1>7, <3>2, <6>1, <6>2 DEF IInv, Held
          <6> QED
            BY <6>2, <6>3, GroupTyped DEF IInv
        <5> QED
          BY <5>1, <5>2
      <4>3. Typed!without(Entries[e], r) = Entries[e]
        <5>1. without(Entries[e], r) = Entries[e]
          BY <4>2, WithoutFacts
        <5> QED
          BY <5>1, WithoutTyped
      <4>4. Entries' = [Entries EXCEPT ![e] = Entries[e]]
        BY <1>7, <4>1, TableChanges
      <4> QED
        BY <4>3, <4>4
    <3> QED
      BY <3>1, <3>2
  <2>6. Typed!call
    BY <1>1, <1>2, <1>3, <1>4, <1>9, <2>1, <2>5 DEF Typed!call
  <2> QED
    BY <1>3, <2>4, <2>6
<1> QED
  BY <1>8, <1>9
-----------------------------------------------------------------------------
\* The emits keep groups of their events.
LEMMA ShownKeeps ==
  ASSUME IInv, Shown, Lasting, Holding
  PROVE  Shown'
<1> SUFFICES ASSUME NEW f \in 1..Len(frames')
             PROVE  made'[frames'[f].group].event = frames'[f].event
  BY DEF Shown
<1>1. PICK h \in 1..Len(frames) :
        frames'[f].group = frames[h].group /\ frames'[f].event = frames[h].event
  BY DEF Holding
<1>2. frames[h].group \in 1..Len(made) /\ made[frames[h].group].event = frames[h].event
  BY DEF IInv, Named, Shown
<1> QED
  BY <1>1, <1>2 DEF Lasting

\* Every step of the emitter is one of a table of typed listeners.
LEMMA StepTyped ==
  ASSUME IInv, IInv', Shown, [Next]_vars
  PROVE  [Typed!EmitterNext]_(Typed!vars) /\ Shown'
<1>0. frames' = frames => Holding
  BY DEF Holding
<1>1. made' = made => Lasting
  BY DEF Lasting
<1>2. CASE UNCHANGED vars
  <2>1. UNCHANGED <<groups, made, registrations, consumed, frames>>
    BY <1>2 DEF vars
  <2>2. Entries' = Entries /\ TypedFrames' = TypedFrames
    BY <2>1 DEF Entries, _find, TypedFrames
  <2>3. UNCHANGED Typed!vars
    BY <2>1, <2>2 DEF Typed!vars
  <2> QED
    BY <1>0, <1>1, <2>1, <2>3, ShownKeeps
<1>3. ASSUME NEW e \in Events, NEW callback \in Callbacks,
             NEW once \in BOOLEAN, NEW prepend \in BOOLEAN, _add(e, callback, once, prepend)
      PROVE  Typed!EmitterNext /\ Shown'
  <2>1. /\ Typed!add(e, callback, once) \/ Typed!prepend(e, callback, once)
        /\ Lasting
    BY <1>3, AddTyped
  <2>2. frames' = frames
    BY <1>3 DEF _add
  <2> QED
    BY <1>0, <2>1, <2>2, ShownKeeps DEF Typed!EmitterNext, Typed!Next
<1>4. ASSUME NEW e \in Events, NEW callback \in Callbacks, _remove(e, callback)
      PROVE  Typed!EmitterNext /\ Shown'
  <2>1. Typed!remove(e, callback)
    BY <1>4, RemoveTyped
  <2>2. Lasting /\ frames' = frames
    BY <1>4, RemoveLasts
  <2> QED
    BY <1>0, <2>1, <2>2, ShownKeeps DEF Typed!EmitterNext, Typed!Next
<1>5. CASE remove_all_listeners \/ \E e \in Events : remove_all_listeners_for(e)
  <2>1. Typed!removeAll(Events) \/ \E e \in Events : Typed!removeAll({e})
    BY <1>5, RemoveAllTyped
  <2>2. made' = made /\ frames' = frames
    BY <1>5 DEF remove_all_listeners, remove_all_listeners_for
  <2> QED
    BY <1>0, <1>1, <2>1, <2>2, ShownKeeps DEF Typed!EmitterNext
<1>6. ASSUME NEW e \in Events, _emit(e)
      PROVE  Typed!EmitterNext /\ Shown'
  <2>1. /\ Typed!emit(e)
        /\ \A f \in 1..Len(frames') :
             \/ frames'[f].event = e /\ frames'[f].group = _find(e) /\ _find(e) # 0
             \/ \E h \in 1..Len(frames) : frames'[f] = frames[h]
    BY <1>6, EmitTyped
  <2>2. made' = made
    BY <1>6 DEF _emit
  <2>3. _find(e) # 0 => made[_find(e)].event = e
    BY FindFacts DEF IInv
  <2>4. Shown'
    BY <2>1, <2>2, <2>3 DEF Shown
  <2> QED
    BY <2>1, <2>4 DEF Typed!EmitterNext, Typed!Next
<1>7. CASE call
  <2>1. Typed!call /\ Holding /\ Lasting
    BY <1>7, CallTyped
  <2> QED
    BY <2>1, ShownKeeps DEF Typed!EmitterNext, Typed!Next
<1>8. CASE skip \/ returned \/ finished
  <2>1. (Typed!skip \/ Typed!returned \/ Typed!finished) /\ Holding
    BY <1>8, WalkTyped
  <2>2. made' = made
    BY <1>8 DEF skip, returned, finished
  <2> QED
    BY <1>1, <2>1, <2>2, ShownKeeps DEF Typed!EmitterNext, Typed!Next
<1> QED
  BY <1>2, <1>3, <1>4, <1>5, <1>6, <1>7, <1>8 DEF Next

\* An emitter without listeners is a table without them.
LEMMA InitTyped ==
  ASSUME Init
  PROVE  Typed!Init /\ Shown
BY DEF Init, Typed!Init, Entries, _find, TypedFrames, Shown

\* The groups are invisible: the emitter does nothing that a table of typed
\* listeners, with listeners put first and removal of all, does not, whatever
\* group an emit holds that was pruned or thrown away meanwhile.
THEOREM Refines == Spec => ImplementsTyped
<1>1. Init => Shown
  BY InitTyped
<1>2. IInv /\ IInv' /\ Shown /\ [Next]_vars => Shown'
  BY StepTyped
<1>3. Spec => []Shown
  BY <1>1, <1>2, Inductive, PTL DEF Spec
<1>4. Init => Typed!Init
  BY InitTyped
<1>5. IInv /\ IInv' /\ Shown /\ [Next]_vars => [Typed!EmitterNext]_(Typed!vars)
  BY StepTyped
<1> QED
  BY <1>3, <1>4, <1>5, Inductive, PTL DEF Spec, ImplementsTyped
=============================================================================
