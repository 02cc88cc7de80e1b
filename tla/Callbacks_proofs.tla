-------------------------- MODULE Callbacks_proofs --------------------------
(***************************************************************************)
(* Proofs about Callbacks, for every number of ports, pins, timers and     *)
(* references and every length of the queue.                               *)
(*                                                                         *)
(* The lemmas on Ref and Unref say what one call of luaL_ref and luaL_unref*)
(* does to the owner of a reference; an action is one or two such calls.   *)
(***************************************************************************)
EXTENDS Callbacks, TLAPS

(* The registry *)

\* luaL_ref keeps the registry's type and returns one of its references.
LEMMA RefType ==
    ASSUME NEW reg \in Registry, CanRef(reg), NEW s \in Entries
    PROVE  Ref(reg, s) \in Registry /\ NewRef(reg) \in Refs
<1>1. NewRef(reg) \in Refs
  BY CallbackAssumption DEF Registry, CanRef, NewRef, Refs
<1>2. CASE reg.free # <<>>
  BY <1>1, <1>2 DEF Registry, Ref
<1>3. CASE reg.free = <<>>
  BY <1>1, <1>3, CallbackAssumption DEF Registry, Ref, CanRef
<1>. QED BY <1>1, <1>2, <1>3

\* luaL_unref keeps the registry's type.
LEMMA UnrefType ==
    ASSUME NEW reg \in Registry, NEW r
    PROVE  Unref(reg, r) \in Registry
<1>1. CASE r \in Refs
  <2>1. <<r>> \o reg.free \in Seq(Refs)
    BY <1>1 DEF Registry
  <2>2. [reg.holds EXCEPT ![r] = None] \in [Refs -> Entries]
    BY DEF Registry, Entries
  <2>. QED BY <1>1, <2>1, <2>2 DEF Registry, Unref
<1>2. CASE r \notin Refs
  BY <1>2 DEF Unref
<1>. QED BY <1>1, <1>2

\* The reference luaL_ref returns belongs to the caller; it was nobody's before,
\* and all others keep theirs.
LEMMA RefOwned ==
    ASSUME NEW reg \in Registry, CanRef(reg), NEW s \in Entries, FreeListSound(reg)
    PROVE  /\ FreeListSound(Ref(reg, s))
           /\ Owned(Ref(reg, s), NewRef(reg), s)
           /\ \A r, x : Owned(reg, r, x) => r # NewRef(reg) /\ Owned(Ref(reg, s), r, x)
<1>. DEFINE n == NewRef(reg)  after == Ref(reg, s)
<1>0. n \in Refs /\ after \in Registry
  BY RefType
<1>1. CASE reg.free = <<>>
  <2>1. n = reg.size + 1 /\ after.size = n /\ after.free = <<>>
        /\ after.holds = [reg.holds EXCEPT ![n] = s]
    BY <1>1 DEF NewRef, Ref
  <2>2. after.holds[n] = s /\ \A r \in Refs : r # n => after.holds[r] = reg.holds[r]
    BY <1>0, <2>1 DEF Registry
  <2>3. FreeListSound(after)
    BY <2>1 DEF FreeListSound
  <2>4. Owned(after, n, s)
    BY <1>0, <2>1, <2>2 DEF Owned, Refs
  <2>5. \A r, x : Owned(reg, r, x) => r # n /\ Owned(after, r, x)
    BY <1>0, <2>1, <2>2 DEF Owned, Registry, Refs
  <2>. QED BY <2>3, <2>4, <2>5
<1>2. CASE reg.free # <<>>
  <2>1. n = reg.free[1] /\ after.size = reg.size /\ after.free = Tail(reg.free)
        /\ after.holds = [reg.holds EXCEPT ![n] = s] /\ 1 \in DOMAIN reg.free
    BY <1>2 DEF NewRef, Ref, Registry
  <2>2. \A i \in DOMAIN after.free : i + 1 \in DOMAIN reg.free
                                     /\ after.free[i] = reg.free[i + 1] /\ i \in Nat /\ i # 0
    BY <1>2, <2>1 DEF Registry
  <2>3. FreeListSound(after)
    <3>1. \A i, j \in DOMAIN after.free : after.free[i] = after.free[j] => i = j
      BY <2>2 DEF FreeListSound
    <3>2. \A i \in DOMAIN after.free : after.free[i] <= after.size
      BY <2>1, <2>2 DEF FreeListSound
    <3>. QED BY <3>1, <3>2 DEF FreeListSound
  <2>4. Owned(after, n, s)
    <3>1. n <= after.size
      BY <2>1 DEF FreeListSound
    <3>2. \A i \in DOMAIN after.free : after.free[i] # n
      BY <2>1, <2>2 DEF FreeListSound
    <3>3. after.holds[n] = s
      BY <2>1, <1>0 DEF Registry
    <3>. QED BY <1>0, <3>1, <3>2, <3>3 DEF Owned
  <2>5. \A r, x : Owned(reg, r, x) => r # n /\ Owned(after, r, x)
    BY <1>0, <2>1, <2>2 DEF Owned, Registry
  <2>. QED BY <2>3, <2>4, <2>5
<1>. QED BY <1>1, <1>2

\* luaL_unref takes a reference from its owner only; the others keep theirs.
LEMMA UnrefOwned ==
    ASSUME NEW reg \in Registry, FreeListSound(reg), NEW r, NEW s,
           r \notin Refs \/ Owned(reg, r, s)
    PROVE  /\ FreeListSound(Unref(reg, r))
           /\ \A q, x : Owned(reg, q, x) /\ q # r => Owned(Unref(reg, r), q, x)
<1>. DEFINE after == Unref(reg, r)
<1>1. CASE r \notin Refs
  BY <1>1 DEF Unref
<1>2. CASE r \in Refs
  <2>0. Owned(reg, r, s)
    BY <1>2
  <2>1. after.size = reg.size /\ after.free = <<r>> \o reg.free
        /\ after.holds = [reg.holds EXCEPT ![r] = None]
    BY <1>2 DEF Unref
  <2>2. \A i \in DOMAIN after.free :
            /\ i \in Nat
            /\ \/ i = 1 /\ after.free[i] = r
               \/ i # 1 /\ i - 1 \in DOMAIN reg.free /\ after.free[i] = reg.free[i - 1]
    BY <1>2, <2>1 DEF Registry
  <2>3. \A i \in DOMAIN reg.free : reg.free[i] # r /\ reg.free[i] <= reg.size
    BY <2>0 DEF Owned, FreeListSound
  <2>4. r <= reg.size
    BY <2>0 DEF Owned
  <2>5. \A i, j \in DOMAIN after.free : after.free[i] = after.free[j] => i = j
    <3>. SUFFICES ASSUME NEW i \in DOMAIN after.free, NEW j \in DOMAIN after.free,
                         after.free[i] = after.free[j]
                  PROVE  i = j
      OBVIOUS
    <3>1. CASE i = 1 \/ j = 1
      BY <3>1, <2>2, <2>3
    <3>2. CASE i # 1 /\ j # 1
      BY <3>2, <2>2 DEF FreeListSound
    <3>. QED BY <3>1, <3>2
  <2>6. \A i \in DOMAIN after.free : after.free[i] <= after.size
    BY <2>1, <2>2, <2>3, <2>4
  <2>7. \A q, x : Owned(reg, q, x) /\ q # r => Owned(after, q, x)
    BY <2>1, <2>2 DEF Owned, Registry
  <2>. QED BY <2>5, <2>6, <2>7 DEF FreeListSound
<1>. QED BY <1>1, <1>2
-----------------------------------------------------------------------------
(* Types *)

\* The sources of the three devices differ.
LEMMA SourcesDiffer ==
    /\ \A s \in Uarts \cup Gpios : \A t : s # <<"func", t>> /\ s # <<"arg", t>>
    /\ \A s \in Uarts : \A p : s # <<"gpio", p>>
    /\ \A t : <<"func", t>> # <<"arg", t>>
    /\ \A t, u : t # u => <<"func", t>> # <<"func", u>> /\ <<"arg", t>> # <<"arg", u>>
    /\ \A t, u : <<"func", t>> # <<"arg", u>>
    /\ \A p : <<"tx", p>> # <<"rx", p>>
BY DEF Uarts, Gpios

\* A source is of one kind.
LEMMA KindsDiffer ==
    /\ Uarts \cap TimerRefs = {} /\ Uarts \cap Gpios = {} /\ Gpios \cap TimerRefs = {}
    /\ None \notin Uarts /\ None \notin TimerRefs /\ None \notin Gpios
BY DEF Uarts, TimerRefs, Gpios, None

\* Initially every variable has its type.
LEMMA InitType == Init => CTypeOK
<1>. SUFFICES ASSUME Init PROVE CTypeOK
  OBVIOUS
<1>1. registry \in Registry
  BY CallbackAssumption DEF Init, Registry, Entries, Refs
<1>2. slot \in [Sources -> Refs \cup {0, NoRef}]
  BY DEF Init
<1>3. queue \in Seq(Message) /\ Len(queue) <= QueueLen
  BY CallbackAssumption DEF Init
<1>4. ran \in [source : Entries, called : Entries, arg : Entries, late : BOOLEAN]
  BY DEF Init, Nothing, Entries
<1>. QED BY <1>1, <1>2, <1>3, <1>4 DEF Init, CTypeOK

\* What a callback is given is an entry.
LEMMA FetchType ==
    ASSUME CTypeOK, NEW s \in Sources
    PROVE  Fetch(s) \in Entries
BY DEF CTypeOK, Registry, Fetch, Entries

LEMMA NothingType == Nothing \in [source : Entries, called : Entries, arg : Entries, late : BOOLEAN]
BY DEF Nothing, Entries

\* Every step keeps the types.
LEMMA StepType == CTypeOK /\ [Next]_vars => CTypeOK'
<1>. SUFFICES ASSUME CTypeOK, [Next]_vars PROVE CTypeOK'
  OBVIOUS
<1>. USE DEF CTypeOK
<1>1. ASSUME NEW s \in Uarts \cup Gpios, SetIrq(s) PROVE CTypeOK'
  <2>1. s \in Entries /\ s \in Sources
    BY DEF Entries, Sources
  <2>2. registry' \in Registry /\ slot' \in [Sources -> Refs \cup {0, NoRef}]
    BY <1>1, <2>1, RefType DEF SetIrq
  <2>. QED BY <1>1, <2>2, NothingType DEF SetIrq, timerVars
<1>2. ASSUME NEW p \in Ports, UartClose(p) PROVE CTypeOK'
  <2>1. registry' \in Registry
    BY <1>2, UnrefType DEF UartClose
  <2>2. slot' \in [Sources -> Refs \cup {0, NoRef}]
    BY <1>2 DEF UartClose, Forget
  <2>. QED BY <1>2, <2>1, <2>2, NothingType DEF UartClose, timerVars
<1>3. ASSUME NEW p \in Pins, GpioClose(p) PROVE CTypeOK'
  <2>1. registry' \in Registry
    BY <1>3, UnrefType DEF GpioClose
  <2>2. slot' \in [Sources -> Refs \cup {0, NoRef}]
    BY <1>3 DEF GpioClose, Forget
  <2>. QED BY <1>3, <2>1, <2>2, NothingType DEF GpioClose, timerVars
<1>4. ASSUME Receive PROVE CTypeOK'
  <2>1. queue' \in Seq(Message) /\ Len(queue') <= QueueLen
    BY <1>4, CallbackAssumption DEF Receive
  <2>2. Head(queue) \in Message
    BY <1>4 DEF Receive
  <2>3. Called(Head(queue)) \in Entries /\ Head(queue).cause \in Entries
    BY <2>2, FetchType DEF Called, Message, Entries, Sources
  <2>4. ran' \in [source : Entries, called : Entries, arg : Entries, late : BOOLEAN]
    <3>1. None \in Entries
      BY DEF Entries
    <3>. QED BY <1>4, <2>3, <3>1 DEF Receive
  <2>. QED BY <1>4, <2>1, <2>4 DEF Receive, timerVars
<1>5. ASSUME NEW t \in Timers, NEW withArg \in BOOLEAN, TimerStart(t, withArg) PROVE CTypeOK'
  <2>. DEFINE func == <<"func", t>>  arg == <<"arg", t>>  one == Ref(registry, func)
  <2>1. func \in Entries /\ arg \in Entries /\ func \in Sources /\ arg \in Sources
    BY DEF Entries, Sources, TimerRefs
  <2>2. one \in Registry /\ NewRef(registry) \in Refs
    BY <1>5, <2>1, RefType DEF TimerStart
  <2>3. withArg => Ref(one, arg) \in Registry /\ NewRef(one) \in Refs
    BY <1>5, <2>1, <2>2, RefType DEF TimerStart
  <2>4. registry' \in Registry
    BY <1>5, <2>2, <2>3 DEF TimerStart
  <2>5. /\ slot' \in [Sources -> Refs \cup {0, NoRef}]
        /\ timer' \in [Timers -> {"none", "running", "stopped", "deleted"}]
        /\ cyclic' \subseteq Timers
    BY <1>5, <2>1, <2>2, <2>3 DEF TimerStart
  <2>. QED BY <1>5, <2>4, <2>5, NothingType DEF TimerStart
<1>6. ASSUME NEW t \in Timers, TimerStop(t) PROVE CTypeOK'
  BY <1>6, NothingType DEF TimerStop
<1>7. ASSUME NEW t \in Timers, TimerDelete(t) PROVE CTypeOK'
  <2>1. registry' \in Registry
    BY <1>7, UnrefType DEF TimerDelete
  <2>. QED BY <1>7, <2>1, NothingType DEF TimerDelete
<1>8. ASSUME NEW s \in Uarts, UartIrq(s) PROVE CTypeOK'
  <2>1. [target |-> s, cause |-> s] \in Message
    BY DEF Message
  <2>2. queue' \in Seq(Message) /\ Len(queue') <= QueueLen
    BY <1>8, <2>1, CallbackAssumption DEF UartIrq, Put
  <2>. QED BY <1>8, <2>2, NothingType DEF UartIrq, timerVars
<1>9. ASSUME NEW p \in Pins, GpioIrq(p) PROVE CTypeOK'
  <2>1. [target |-> <<"gpio", PinId(p)>>, cause |-> <<"gpio", p>>] \in Message
    <3>1. <<"gpio", p>> \in Gpios /\ <<"gpio", p>> \notin Uarts /\ PinId(p) \in Int
      BY KindsDiffer DEF Gpios, PinId
    <3>. QED BY <3>1 DEF Message
  <2>2. queue' \in Seq(Message) /\ Len(queue') <= QueueLen
    BY <1>9, <2>1, CallbackAssumption DEF GpioIrq, Put
  <2>. QED BY <1>9, <2>2, NothingType DEF GpioIrq, timerVars
<1>10. ASSUME NEW t \in Timers, TimerFires(t) PROVE CTypeOK'
  BY <1>10, NothingType DEF TimerFires
<1>11. ASSUME NEW t \in Timers, TimerRuns(t) PROVE CTypeOK'
  <2>1. <<"func", t>> \in Sources /\ <<"arg", t>> \in Sources /\ <<"func", t>> \in Entries
    BY DEF Sources, TimerRefs, Entries
  <2>2. ran' \in [source : Entries, called : Entries, arg : Entries, late : BOOLEAN]
    BY <1>11, <2>1, FetchType DEF TimerRuns
  <2>. QED BY <1>11, <2>2 DEF TimerRuns
<1>12. CASE UNCHANGED vars
  BY <1>12 DEF vars, timerVars
<1>. QED
  BY <1>1, <1>2, <1>3, <1>4, <1>5, <1>6, <1>7, <1>8, <1>9, <1>10, <1>11, <1>12
  DEF Next, Script, Devices

\* Every variable keeps its type, and the bus never holds more than its queue can.
THEOREM TypeCorrect == Spec => []CTypeOK
BY InitType, StepType, PTL DEF Spec
-----------------------------------------------------------------------------
(* References *)

\* A device that is not registered keeps no reference, a timer that can be deleted
\* has its function's, and only timers that were started run callbacks.
Unregistered == \A s \in Uarts \cup Gpios : s \notin armed => slot[s] \notin Refs
StartedTimers == \A t \in Deletable : slot[<<"func", t>>] # NoRef
FiringStarted == \A t \in firing : timer[t] # "none"

\* The inductive invariant of the callbacks.
CallbackInv ==
    /\ CTypeOK
    /\ RegisteredHeld
    /\ NoReferenceTwice
    /\ Unregistered
    /\ StartedTimers
    /\ FiringStarted

\* Closing two sources, each in use or without a reference, leaves the others alone.
LEMMA TwoReleased ==
    ASSUME CallbackInv, NEW s \in Sources, NEW u \in Sources, s # u,
           s \in Live \/ slot[s] \notin Refs, u \in Live \/ slot[u] \notin Refs
    PROVE  LET after == Unref(Unref(registry, slot[s]), slot[u])
           IN  /\ FreeListSound(after)
               /\ \A x \in Live \ {s, u} : Owned(after, slot[x], x)
<1>. DEFINE between == Unref(registry, slot[s])  after == Unref(between, slot[u])
<1>0. registry \in Registry /\ FreeListSound(registry)
  BY DEF CallbackInv, CTypeOK, NoReferenceTwice
<1>1. \A x \in Live : Owned(registry, slot[x], x)
  BY DEF CallbackInv, RegisteredHeld
<1>2. \A x, y \in Live : slot[x] = slot[y] => x = y
  BY <1>1 DEF Owned
<1>3. between \in Registry
  BY <1>0, UnrefType
<1>4. /\ FreeListSound(between)
      /\ \A q, x : Owned(registry, q, x) /\ q # slot[s] => Owned(between, q, x)
  BY <1>0, <1>1, UnrefOwned
<1>5. \A x \in Live : x # s => Owned(between, slot[x], x)
  <2>. SUFFICES ASSUME NEW x \in Live, x # s PROVE Owned(between, slot[x], x)
    OBVIOUS
  <2>1. Owned(registry, slot[x], x) /\ slot[x] \in Refs
    BY <1>1 DEF Owned
  <2>2. slot[x] # slot[s]
    BY <1>2, <2>1
  <2>. QED BY <1>4, <2>1, <2>2
<1>6. slot[u] \notin Refs \/ Owned(between, slot[u], u)
  BY <1>5
<1>7. /\ FreeListSound(after)
      /\ \A q, x : Owned(between, q, x) /\ q # slot[u] => Owned(after, q, x)
  BY <1>3, <1>4, <1>6, UnrefOwned
<1>8. \A x \in Live \ {s, u} : Owned(after, slot[x], x)
  <2>. SUFFICES ASSUME NEW x \in Live \ {s, u} PROVE Owned(after, slot[x], x)
    OBVIOUS
  <2>1. Owned(between, slot[x], x) /\ slot[x] \in Refs
    BY <1>5 DEF Owned
  <2>2. slot[x] # slot[u]
    BY <1>2, <2>1
  <2>. QED BY <1>7, <2>1, <2>2
<1>. QED BY <1>7, <1>8

\* Initially no source is in use.
LEMMA InitHeld == Init => CallbackInv
<1>. SUFFICES ASSUME Init PROVE CallbackInv
  OBVIOUS
<1>1. Live = {} /\ Deletable = {}
  BY DEF Init, Live, Deletable, TimerRefs
<1>2. Unregistered
  BY CallbackAssumption DEF Init, Unregistered, Refs, NoRef, Sources
<1>3. NoReferenceTwice
  BY DEF Init, NoReferenceTwice, FreeListSound
<1>. QED
  BY <1>1, <1>2, <1>3, InitType DEF Init, CallbackInv, RegisteredHeld, StartedTimers, FiringStarted

\* Registration: the new reference is the source's alone.
LEMMA SetIrqHeld ==
    ASSUME CallbackInv, NEW s \in Uarts \cup Gpios, SetIrq(s), CTypeOK'
    PROVE  CallbackInv'
<1>0. registry \in Registry /\ FreeListSound(registry) /\ s \in Sources /\ s \in Entries
  BY DEF CallbackInv, CTypeOK, NoReferenceTwice, Sources, Entries
<1>1. /\ CanRef(registry) /\ registry' = Ref(registry, s)
      /\ slot' = [slot EXCEPT ![s] = NewRef(registry)]
      /\ armed' = armed \cup {s} /\ timer' = timer /\ firing' = firing
  BY DEF SetIrq, timerVars
<1>2. /\ FreeListSound(registry') /\ Owned(registry', NewRef(registry), s)
      /\ \A r, x : Owned(registry, r, x) => Owned(registry', r, x)
  BY <1>0, <1>1, RefOwned
<1>3. slot'[s] = NewRef(registry) /\ \A x \in Sources : x # s => slot'[x] = slot[x]
  BY <1>0, <1>1 DEF CallbackInv, CTypeOK
<1>4. \A t \in Timers : slot'[<<"func", t>>] = slot[<<"func", t>>]
                         /\ slot'[<<"arg", t>>] = slot[<<"arg", t>>]
  BY <1>3, SourcesDiffer DEF Sources, TimerRefs
<1>5. Deletable' = Deletable
  BY <1>1 DEF Deletable
<1>6. \A x \in Live' : x = s \/ (x \in Live /\ x \in Sources)
  BY <1>1, <1>4, <1>5 DEF Live, TimerRefs, Sources, CallbackInv, CTypeOK
<1>7. RegisteredHeld'
  BY <1>2, <1>3, <1>6 DEF RegisteredHeld, CallbackInv
<1>8. Unregistered'
  BY <1>1, <1>3 DEF Unregistered, CallbackInv, Sources
<1>9. StartedTimers' /\ FiringStarted'
  BY <1>1, <1>4, <1>5 DEF StartedTimers, FiringStarted, CallbackInv, Deletable
<1>. QED BY <1>2, <1>7, <1>8, <1>9 DEF CallbackInv, NoReferenceTwice

\* Closing a device: its slots own nothing afterwards.
LEMMA CloseHeld ==
    ASSUME CallbackInv, CTypeOK', NEW S \in SUBSET (Uarts \cup Gpios),
           FreeListSound(registry'),
           \A x \in Live \ S : Owned(registry', slot[x], x),
           Forget(S), armed' = armed \ S, timer' = timer, firing' = firing
    PROVE  CallbackInv'
<1>1. \A x \in Sources \ S : slot'[x] = slot[x]
  BY DEF Forget
<1>2. \A x \in S : slot'[x] \notin Refs
  BY CallbackAssumption DEF Forget, Refs, NoRef, Sources
<1>3. \A t \in Timers : slot'[<<"func", t>>] = slot[<<"func", t>>]
                         /\ slot'[<<"arg", t>>] = slot[<<"arg", t>>]
  BY <1>1, SourcesDiffer DEF Sources, TimerRefs
<1>4. Deletable' = Deletable
  BY DEF Deletable
<1>5. \A x \in Live' : x \in Live \ S /\ x \in Sources
  <2>. SUFFICES ASSUME NEW x \in Live' PROVE x \in Live \ S /\ x \in Sources
    OBVIOUS
  <2>1. CASE x \in armed'
    BY <2>1 DEF Live, Sources, CallbackInv, CTypeOK
  <2>2. CASE x \notin armed'
    <3>1. x \in TimerRefs /\ x[2] \in Deletable' /\ slot'[x] # NoRef
      BY <2>2 DEF Live
    <3>2. x \in Sources \ S
      BY <3>1, SourcesDiffer DEF TimerRefs, Sources
    <3>. QED BY <1>1, <1>4, <3>1, <3>2 DEF Live
  <2>. QED BY <2>1, <2>2
<1>6. RegisteredHeld'
  BY <1>1, <1>5 DEF RegisteredHeld
<1>7. Unregistered'
  BY <1>1, <1>2 DEF Unregistered, CallbackInv, Sources
<1>8. StartedTimers' /\ FiringStarted'
  BY <1>3, <1>4 DEF StartedTimers, FiringStarted, CallbackInv, Deletable
<1>. QED BY <1>6, <1>7, <1>8 DEF CallbackInv, NoReferenceTwice

\* A timer is started with one or two references of its own, or, when the SDK
\* refuses, the references are lost and the timer stays as it was.
LEMMA TimerStartHeld ==
    ASSUME CallbackInv, CTypeOK', NEW t \in Timers, NEW withArg \in BOOLEAN,
           TimerStart(t, withArg)
    PROVE  CallbackInv'
<1>. DEFINE func == <<"func", t>>  arg == <<"arg", t>>
            one == Ref(registry, func)  two == Ref(one, arg)
<1>0. /\ registry \in Registry /\ FreeListSound(registry)
      /\ func \in Entries /\ arg \in Entries /\ func \in Sources /\ arg \in Sources
  BY DEF CallbackInv, CTypeOK, NoReferenceTwice, Sources, Entries, TimerRefs
<1>1. /\ CanRef(registry) /\ (withArg => CanRef(one))
      /\ registry' = IF withArg THEN two ELSE one
      /\ timer[t] \in {"none", "deleted"} /\ t \notin firing
      /\ firing' = firing /\ armed' = armed
  BY DEF TimerStart
<1>2. /\ FreeListSound(one) /\ Owned(one, NewRef(registry), func)
      /\ \A r, x : Owned(registry, r, x) => Owned(one, r, x)
  BY <1>0, <1>1, RefOwned
<1>3. one \in Registry
  BY <1>0, <1>1, RefType
<1>4. withArg => /\ FreeListSound(two) /\ Owned(two, NewRef(one), arg)
                 /\ \A r, x : Owned(one, r, x) => Owned(two, r, x)
  BY <1>0, <1>1, <1>2, <1>3, RefOwned
<1>5. /\ FreeListSound(registry')
      /\ Owned(registry', NewRef(registry), func)
      /\ withArg => Owned(registry', NewRef(one), arg)
      /\ \A r, x : Owned(registry, r, x) => Owned(registry', r, x)
  BY <1>1, <1>2, <1>4
<1>6. CASE UNCHANGED <<timer, slot, cyclic>>
  <2>1. Live' = Live /\ Deletable' = Deletable
    BY <1>1, <1>6 DEF Live, Deletable
  <2>2. RegisteredHeld'
    BY <1>5, <1>6, <2>1 DEF RegisteredHeld, CallbackInv
  <2>3. Unregistered' /\ StartedTimers' /\ FiringStarted'
    BY <1>1, <1>6, <2>1 DEF Unregistered, StartedTimers, FiringStarted, CallbackInv
  <2>. QED BY <1>5, <2>2, <2>3 DEF CallbackInv, NoReferenceTwice
<1>7. CASE /\ timer' = [timer EXCEPT ![t] = "running"]
           /\ slot' = [slot EXCEPT ![func] = NewRef(registry),
                                   ![arg] = IF withArg THEN NewRef(one) ELSE NoRef]
  <2>1. /\ slot'[func] = NewRef(registry)
        /\ slot'[arg] = IF withArg THEN NewRef(one) ELSE NoRef
        /\ \A x \in Sources : x # func /\ x # arg => slot'[x] = slot[x]
    BY <1>0, <1>7, SourcesDiffer DEF CallbackInv, CTypeOK
  <2>2. /\ timer'[t] = "running" /\ \A u \in Timers : u # t => timer'[u] = timer[u]
        /\ Deletable' = Deletable \cup {t}
    BY <1>1, <1>7 DEF Deletable, CallbackInv, CTypeOK
  <2>3. \A x \in Live' : \/ x = func
                         \/ x = arg /\ withArg
                         \/ x \in Live /\ x \in Sources /\ x # func /\ x # arg
    <3>. SUFFICES ASSUME NEW x \in Live', x # func, ~(x = arg /\ withArg)
                  PROVE  x \in Live /\ x \in Sources /\ x # func /\ x # arg
      OBVIOUS
    <3>1. CASE x \in armed'
      BY <1>1, <3>1, SourcesDiffer DEF Live, Sources, CallbackInv, CTypeOK
    <3>2. CASE x \notin armed'
      <4>1. x \in TimerRefs /\ x[2] \in Deletable' /\ slot'[x] # NoRef
        BY <3>2 DEF Live
      <4>2. x # arg
        BY <2>1, <4>1
      <4>3. x[2] # t
        BY <4>1, <4>2 DEF TimerRefs
      <4>4. x \in Sources /\ slot'[x] = slot[x]
        BY <2>1, <4>1, <4>2 DEF Sources
      <4>. QED BY <2>2, <4>1, <4>2, <4>3, <4>4 DEF Live
    <3>. QED BY <3>1, <3>2
  <2>4. RegisteredHeld'
    BY <1>5, <2>1, <2>3 DEF RegisteredHeld, CallbackInv
  <2>5. Unregistered'
    BY <1>1, <2>1, SourcesDiffer DEF Unregistered, CallbackInv, Sources
  <2>6. StartedTimers'
    <3>1. NewRef(registry) # NoRef
      BY <1>5, CallbackAssumption DEF Owned, Refs, NoRef
    <3>2. \A u \in Timers : u # t => slot'[<<"func", u>>] = slot[<<"func", u>>]
      BY <2>1, SourcesDiffer DEF Sources, TimerRefs
    <3>. QED BY <2>1, <2>2, <3>1, <3>2 DEF StartedTimers, CallbackInv, Deletable
  <2>7. FiringStarted'
    BY <1>1, <2>2 DEF FiringStarted, CallbackInv, CTypeOK
  <2>. QED BY <1>5, <2>4, <2>5, <2>6, <2>7 DEF CallbackInv, NoReferenceTwice
<1>. QED BY <1>6, <1>7 DEF TimerStart

\* A deletion that succeeds releases the references of its timer only.
LEMMA TimerDeleteHeld ==
    ASSUME CallbackInv, CTypeOK', NEW t \in Timers, TimerDelete(t)
    PROVE  CallbackInv'
<1>. DEFINE func == <<"func", t>>  arg == <<"arg", t>>
<1>0. func \in Sources /\ arg \in Sources /\ func # arg
  BY SourcesDiffer DEF Sources, TimerRefs
<1>1. /\ t \in Deletable /\ timer' = [timer EXCEPT ![t] = "deleted"]
      /\ registry' = Unref(Unref(registry, slot[func]), slot[arg])
      /\ slot' = slot /\ armed' = armed /\ firing' = firing
  BY DEF TimerDelete
<1>2. func \in Live /\ (arg \in Live \/ slot[arg] \notin Refs)
  BY <1>0, <1>1, CallbackAssumption
  DEF Live, TimerRefs, CallbackInv, StartedTimers, Refs, NoRef
<1>3. /\ FreeListSound(registry')
      /\ \A x \in Live \ {func, arg} : Owned(registry', slot[x], x)
  BY <1>0, <1>1, <1>2, TwoReleased
<1>4. Deletable' = Deletable \ {t}
  BY <1>1 DEF Deletable, CallbackInv, CTypeOK
<1>5. \A x \in Live' : x \in Live \ {func, arg}
  <2>. SUFFICES ASSUME NEW x \in Live' PROVE x \in Live \ {func, arg}
    OBVIOUS
  <2>1. CASE x \in armed'
    BY <1>1, <2>1, SourcesDiffer DEF Live, CallbackInv, CTypeOK
  <2>2. CASE x \notin armed'
    BY <1>1, <1>4, <2>2 DEF Live
  <2>. QED BY <2>1, <2>2
<1>6. RegisteredHeld'
  BY <1>1, <1>3, <1>5 DEF RegisteredHeld
<1>7. Unregistered' /\ StartedTimers'
  BY <1>1, <1>4 DEF Unregistered, StartedTimers, CallbackInv
<1>8. FiringStarted'
  BY <1>1 DEF FiringStarted, CallbackInv, CTypeOK
<1>. QED BY <1>3, <1>6, <1>7, <1>8 DEF CallbackInv, NoReferenceTwice

\* Steps that leave the references and the life of the timers as they are.
LEMMA QuietHeld ==
    ASSUME CallbackInv, CTypeOK', UNCHANGED <<registry, slot, armed>>,
           Deletable' = Deletable, FiringStarted'
    PROVE  CallbackInv'
<1>1. Live' = Live
  BY DEF Live
<1>. QED
  BY <1>1 DEF CallbackInv, RegisteredHeld, NoReferenceTwice, Unregistered, StartedTimers

\* Every step keeps the invariant.
LEMMA StepHeld == CallbackInv /\ [Next]_vars => CallbackInv'
<1>. SUFFICES ASSUME CallbackInv, [Next]_vars PROVE CallbackInv'
  OBVIOUS
<1>0. CTypeOK'
  BY StepType DEF CallbackInv
<1>1. ASSUME NEW s \in Uarts \cup Gpios, SetIrq(s) PROVE CallbackInv'
  BY <1>0, <1>1, SetIrqHeld
<1>2. ASSUME NEW p \in Ports, UartClose(p) PROVE CallbackInv'
  <2>. DEFINE tx == <<"tx", p>>  rx == <<"rx", p>>
  <2>1. tx \in Uarts /\ rx \in Uarts /\ tx # rx /\ tx \in Sources /\ rx \in Sources
    BY SourcesDiffer DEF Uarts, Sources
  <2>2. \A s \in {tx, rx} : s \in Live \/ slot[s] \notin Refs
    BY <2>1 DEF CallbackInv, Unregistered, Live
  <2>3. registry' = Unref(Unref(registry, slot[tx]), slot[rx]) /\ Forget({tx, rx})
        /\ armed' = armed \ {tx, rx} /\ timer' = timer /\ firing' = firing
    BY <1>2 DEF UartClose, timerVars
  <2>4. /\ FreeListSound(registry')
        /\ \A x \in Live \ {tx, rx} : Owned(registry', slot[x], x)
    BY <2>1, <2>2, <2>3, TwoReleased
  <2>5. {tx, rx} \in SUBSET (Uarts \cup Gpios)
    BY <2>1
  <2>. QED BY <1>0, <2>3, <2>4, <2>5, CloseHeld
<1>3. ASSUME NEW p \in Pins, GpioClose(p) PROVE CallbackInv'
  <2>. DEFINE s == <<"gpio", p>>
  <2>1. s \in Gpios /\ s \in Sources
    BY DEF Gpios, Sources
  <2>2. registry' = Unref(registry, slot[s]) /\ Forget({s})
        /\ armed' = armed \ {s} /\ timer' = timer /\ firing' = firing
    BY <1>3 DEF GpioClose, timerVars
  <2>3. registry \in Registry /\ FreeListSound(registry)
    BY DEF CallbackInv, CTypeOK, NoReferenceTwice
  <2>4. slot[s] \notin Refs \/ Owned(registry, slot[s], s)
    BY <2>1 DEF CallbackInv, Unregistered, RegisteredHeld, Live
  <2>5. /\ FreeListSound(registry')
        /\ \A q, x : Owned(registry, q, x) /\ q # slot[s] => Owned(registry', q, x)
    BY <2>2, <2>3, <2>4, UnrefOwned
  <2>6. \A x \in Live \ {s} : Owned(registry', slot[x], x)
    <3>. SUFFICES ASSUME NEW x \in Live \ {s} PROVE Owned(registry', slot[x], x)
      OBVIOUS
    <3>1. Owned(registry, slot[x], x)
      BY DEF CallbackInv, RegisteredHeld
    <3>2. slot[x] # slot[s]
      BY <2>4, <3>1 DEF Owned
    <3>. QED BY <2>5, <3>1, <3>2
  <2>. QED BY <1>0, <2>1, <2>2, <2>5, <2>6, CloseHeld
<1>4. CASE Receive
  BY <1>0, <1>4, QuietHeld DEF Receive, timerVars, Deletable, FiringStarted, CallbackInv
<1>5. ASSUME NEW t \in Timers, NEW withArg \in BOOLEAN, TimerStart(t, withArg)
      PROVE  CallbackInv'
  BY <1>0, <1>5, TimerStartHeld
<1>6. ASSUME NEW t \in Timers, TimerStop(t) PROVE CallbackInv'
  <2>1. Deletable' = Deletable /\ FiringStarted'
    BY <1>6 DEF TimerStop, Deletable, FiringStarted, CallbackInv, CTypeOK
  <2>. QED BY <1>0, <1>6, <2>1, QuietHeld DEF TimerStop
<1>7. ASSUME NEW t \in Timers, TimerDelete(t) PROVE CallbackInv'
  BY <1>0, <1>7, TimerDeleteHeld
<1>8. ASSUME NEW s \in Uarts, UartIrq(s) PROVE CallbackInv'
  BY <1>0, <1>8, QuietHeld DEF UartIrq, timerVars, Deletable, FiringStarted, CallbackInv
<1>9. ASSUME NEW p \in Pins, GpioIrq(p) PROVE CallbackInv'
  BY <1>0, <1>9, QuietHeld DEF GpioIrq, timerVars, Deletable, FiringStarted, CallbackInv
<1>10. ASSUME NEW t \in Timers, TimerFires(t) PROVE CallbackInv'
  <2>1. Deletable' = Deletable /\ FiringStarted'
    BY <1>10 DEF TimerFires, Deletable, FiringStarted, CallbackInv, CTypeOK
  <2>. QED BY <1>0, <1>10, <2>1, QuietHeld DEF TimerFires
<1>11. ASSUME NEW t \in Timers, TimerRuns(t) PROVE CallbackInv'
  <2>1. Deletable' = Deletable /\ FiringStarted'
    BY <1>11 DEF TimerRuns, Deletable, FiringStarted, CallbackInv
  <2>. QED BY <1>0, <1>11, <2>1, QuietHeld DEF TimerRuns
<1>12. CASE UNCHANGED vars
  BY <1>0, <1>12, QuietHeld DEF vars, timerVars, Deletable, FiringStarted, CallbackInv
<1>. QED
  BY <1>1, <1>2, <1>3, <1>4, <1>5, <1>6, <1>7, <1>8, <1>9, <1>10, <1>11, <1>12
  DEF Next, Script, Devices

\* A slot in use owns its reference, whatever other devices and timers do.
THEOREM ReferencesHeld == Spec => []RegisteredHeld
<1>1. CallbackInv => RegisteredHeld
  BY DEF CallbackInv
<1>. QED BY <1>1, InitHeld, StepHeld, PTL DEF Spec

\* luaL_ref never returns a reference that is in use.
THEOREM ReferencesOnce == Spec => []NoReferenceTwice
<1>1. CallbackInv => NoReferenceTwice
  BY DEF CallbackInv
<1>. QED BY <1>1, InitHeld, StepHeld, PTL DEF Spec
-----------------------------------------------------------------------------
(* Callbacks *)

CallbacksSound == RunsOwn /\ NoneAfterClose

\* Whatever runs in a step is what its source registered.
LEMMA StepRuns == CallbackInv /\ CallbacksSound /\ [Next]_vars => CallbacksSound'
<1>. SUFFICES ASSUME CallbackInv, CallbacksSound, [Next]_vars PROVE CallbacksSound'
  OBVIOUS
<1>1. ASSUME ran' = Nothing PROVE CallbacksSound'
  <2>1. ran'.source = None
    BY <1>1 DEF Nothing
  <2>. QED BY <2>1, KindsDiffer DEF CallbacksSound, RunsOwn, NoneAfterClose
<1>2. ASSUME Receive PROVE CallbacksSound'
  <2>. DEFINE msg == Head(queue)  s == msg.cause
  <2>1. msg \in Message
    BY <1>2 DEF Receive, CallbackInv, CTypeOK
  <2>2. ran'.source = s /\ ran'.called = Called(msg) /\ armed' = armed
    BY <1>2 DEF Receive
  <2>3. CASE s \in Gpios
    <3>1. s \notin Uarts /\ s \notin TimerRefs
      BY <2>3, KindsDiffer
    <3>2. Called(msg) \in Gpios \cup {None}
      <4>1. CASE msg.target \notin Sources
        BY <4>1 DEF Called
      <4>2. CASE msg.target \in Sources
        <5>1. msg.target \in {"gpio"} \X Int
          BY <2>1, <3>1 DEF Message
        <5>2. msg.target \in Gpios
          BY <4>2, <5>1 DEF Sources, Gpios, Uarts, TimerRefs
        <5>3. msg.target \in armed => Fetch(msg.target) = msg.target
          BY DEF Fetch, CallbackInv, RegisteredHeld, Live, Owned
        <5>4. msg.target \notin armed => Fetch(msg.target) = None
          BY <5>2 DEF Fetch, CallbackInv, Unregistered
        <5>. QED BY <4>2, <5>2, <5>3, <5>4 DEF Called
      <4>. QED BY <4>1, <4>2
    <3>. QED BY <2>2, <3>1, <3>2 DEF CallbacksSound, RunsOwn, NoneAfterClose
  <2>4. CASE s \in Uarts
    <3>1. Called(msg) = Fetch(s) /\ s \in Sources /\ s \notin TimerRefs
      BY <2>1, <2>4, KindsDiffer DEF Message, Called, Sources
    <3>2. s \in armed => Fetch(s) = s
      BY DEF Fetch, CallbackInv, RegisteredHeld, Live, Owned
    <3>3. s \notin armed => Fetch(s) = None
      BY <2>4 DEF Fetch, CallbackInv, Unregistered
    <3>. QED BY <2>2, <3>1, <3>2, <3>3 DEF CallbacksSound, RunsOwn, NoneAfterClose
  <2>. QED BY <2>1, <2>3, <2>4 DEF Message
<1>3. ASSUME NEW t \in Timers, TimerRuns(t) PROVE CallbacksSound'
  <2>. DEFINE func == <<"func", t>>  arg == <<"arg", t>>
  <2>1. ran' = [source |-> func, called |-> Fetch(func), arg |-> Fetch(arg),
                late |-> timer[t] = "deleted"]
    BY <1>3 DEF TimerRuns
  <2>2. func \notin Uarts /\ func \notin Gpios /\ func[2] = t
    BY SourcesDiffer
  <2>2a. ran'.source = func /\ ran'.called = Fetch(func) /\ ran'.arg = Fetch(arg)
         /\ ran'.late = (timer[t] = "deleted")
    BY <2>1
  <2>3. ASSUME timer[t] # "deleted" PROVE Fetch(func) = func /\ Fetch(arg) \in {None, arg}
    <3>1. t \in Deletable
      BY <1>3, <2>3 DEF TimerRuns, CallbackInv, CTypeOK, FiringStarted, Deletable
    <3>2. func \in Live /\ func[2] = t
      BY <3>1 DEF Live, TimerRefs, CallbackInv, StartedTimers
    <3>3. slot[arg] \in Refs => arg \in Live
      BY <3>1, CallbackAssumption DEF Live, TimerRefs, Refs, NoRef
    <3>. QED BY <3>2, <3>3 DEF CallbackInv, RegisteredHeld, Owned, Fetch
  <2>. QED BY <2>2, <2>2a, <2>3 DEF CallbacksSound, RunsOwn, NoneAfterClose
<1>4. ASSUME UNCHANGED vars PROVE CallbacksSound'
  BY <1>4 DEF vars, CallbacksSound, RunsOwn, NoneAfterClose
<1>. QED
  BY <1>1, <1>2, <1>3, <1>4
  DEF Next, Script, Devices, SetIrq, UartClose, GpioClose, TimerStart, TimerStop,
      TimerDelete, UartIrq, GpioIrq, TimerFires

\* Initially nothing has run.
LEMMA InitRuns == Init => CallbacksSound
BY KindsDiffer DEF Init, CallbacksSound, RunsOwn, NoneAfterClose, Nothing

\* The interrupt of a registered UART runs the function registered for this UART,
\* a timer its own function with its own argument, unless it was deleted after
\* its callback had begun, and the interrupt of a pin no function of another kind.
THEOREM CallbacksRunOwn == Spec => []RunsOwn
<1>1. CallbacksSound => RunsOwn
  BY DEF CallbacksSound
<1>. QED BY <1>1, InitHeld, StepHeld, InitRuns, StepRuns, PTL DEF Spec

\* No function of a UART runs between its closing and the next registration.
THEOREM ClosedStaysQuiet == Spec => []NoneAfterClose
<1>1. CallbacksSound => NoneAfterClose
  BY DEF CallbacksSound
<1>. QED BY <1>1, InitHeld, StepHeld, InitRuns, StepRuns, PTL DEF Spec
=============================================================================
