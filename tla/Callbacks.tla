------------------------------ MODULE Callbacks ------------------------------
(***************************************************************************)
(* Lua callbacks of devices and timers (components/modules/lua-tuyaopen/   *)
(* src: lua_uart.c, lua_gpio.c, lua_timer.c, lua_msgbus.c, lua_system.c)   *)
(* and the registry of references they share (luaL_ref and luaL_unref of   *)
(* elua's lauxlib.c).                                                      *)
(*                                                                         *)
(* A script registers a function for a source: the library stores it in    *)
(* the registry and keeps the reference in a slot.  An interrupt posts a   *)
(* message, which the script's thread receives and answers by calling what *)
(* the slot refers to then.  A timer calls Lua on the timer thread.        *)
(*                                                                         *)
(* The drivers and the timer service belong to the SDK: a driver calls the *)
(* interrupt routine from its registration until the device is closed; the *)
(* deletion of a timer succeeds once, also while its callback has begun.   *)
(* A function is identified by the source it was registered for.  The free *)
(* list in the registry is a stack of references.  A timer object is kept  *)
(* by the script: its collection while the timer runs is left out.         *)
(***************************************************************************)
EXTENDS Integers, Sequences

CONSTANTS
    Ports,          \* UART ports: TUYA_UART_NUM_E below MAX_UART_PORTS
    Pins,           \* GPIO pins
    Timers,         \* timer objects
    MaxRef,         \* bound of the number of references
    QueueLen        \* length of the message queue

ASSUME CallbackAssumption ==
    /\ Ports \subseteq Nat
    /\ Pins \subseteq Nat /\ 0 \in Pins
    /\ MaxRef \in Nat
    /\ QueueLen \in Nat

Uarts == {"tx", "rx"} \X Ports
Gpios == {"gpio"} \X Pins
TimerRefs == {"func", "arg"} \X Timers
Sources == Uarts \cup Gpios \cup TimerRefs
NoRef == -2                             \* LUA_NOREF
None == <<"none", 0>>
Refs == 1 .. MaxRef

VARIABLES
    registry,       \* holds: what is stored under a reference; size: references used
                    \* so far (lua_rawlen); free: the list of released references
    slot,           \* the reference a slot keeps: cb_ref, lua_ref, func_ref, arg_ref
    armed,          \* sources whose driver calls the interrupt routine
    queue,          \* messages on the bus
    timer,          \* timer objects: none, running, stopped or deleted
    cyclic,         \* timers of type CYCLE
    firing,         \* timers whose callback has begun
    ran             \* the callback of the last step: which source caused it, what
                    \* was called with which argument, was its timer deleted before

timerVars == <<timer, cyclic, firing>>
vars == <<registry, slot, armed, queue, timerVars, ran>>

Nothing == [source |-> None, called |-> None, arg |-> None, late |-> FALSE]

\* The arrays of slots are initialized with a LUA_NOREF for element 0 only.
Init ==
    /\ registry = [holds |-> [r \in Refs |-> None], size |-> 0, free |-> <<>>]
    /\ slot = [s \in Sources |-> IF s \in Uarts \cup Gpios /\ s[2] = 0 THEN NoRef ELSE 0]
    /\ armed = {}
    /\ queue = <<>>
    /\ timer = [t \in Timers |-> "none"]
    /\ cyclic = {}
    /\ firing = {}
    /\ ran = Nothing
-----------------------------------------------------------------------------
(* luaL_ref and luaL_unref: the registry before a call and after it *)

CanRef(reg) == reg.free # <<>> \/ reg.size < MaxRef

\* The reference luaL_ref returns: the first of the free list, or a new one.
NewRef(reg) == IF reg.free # <<>> THEN Head(reg.free) ELSE reg.size + 1

Ref(reg, s) ==
    [holds |-> [reg.holds EXCEPT ![NewRef(reg)] = s],
     size |-> IF reg.free # <<>> THEN reg.size ELSE reg.size + 1,
     free |-> IF reg.free # <<>> THEN Tail(reg.free) ELSE reg.free]

\* Nothing happens to a negative reference.
Unref(reg, r) ==
    IF r \in Refs
    THEN [holds |-> [reg.holds EXCEPT ![r] = None],
          size |-> reg.size,
          free |-> <<r>> \o reg.free]
    ELSE reg

\* What lua_rawgeti finds for a slot: nothing to call when it was released.
Fetch(s) == IF slot[s] \in Refs THEN registry.holds[slot[s]] ELSE None
-----------------------------------------------------------------------------
(* Registration and release *)

\* uart.set_tx_irq, uart.set_rx_irq, gpio.set_irq: a reference the slot kept is
\* overwritten.
SetIrq(s) ==
    /\ s \in Uarts \cup Gpios
    /\ CanRef(registry)
    /\ registry' = Ref(registry, s)
    /\ slot' = [slot EXCEPT ![s] = NewRef(registry)]
    /\ armed' = armed \cup {s}
    /\ ran' = Nothing
    /\ UNCHANGED <<queue, timerVars>>

\* Variant with a fault: the slots keep their references.
ForgetNothing(S) == UNCHANGED slot

\* The slots of a closed device that were ever written (the code asks for a
\* value other than 0) get LUA_NOREF.
Forget(S) ==
    slot' = [s \in Sources |-> IF s \in S /\ slot[s] # 0 THEN NoRef ELSE slot[s]]

\* Variant with a fault: the slot of the received data is kept.
UartCloseTx(p) ==
    /\ registry' = Unref(Unref(registry, slot[<<"tx", p>>]), slot[<<"rx", p>>])
    /\ Forget({<<"tx", p>>})
    /\ armed' = armed \ {<<"tx", p>>, <<"rx", p>>}
    /\ ran' = Nothing
    /\ UNCHANGED <<queue, timerVars>>

\* uart.close
UartClose(p) ==
    /\ registry' = Unref(Unref(registry, slot[<<"tx", p>>]), slot[<<"rx", p>>])
    /\ Forget({<<"tx", p>>, <<"rx", p>>})
    /\ armed' = armed \ {<<"tx", p>>, <<"rx", p>>}
    /\ ran' = Nothing
    /\ UNCHANGED <<queue, timerVars>>

\* gpio.close
GpioClose(p) ==
    /\ registry' = Unref(registry, slot[<<"gpio", p>>])
    /\ Forget({<<"gpio", p>>})
    /\ armed' = armed \ {<<"gpio", p>>}
    /\ ran' = Nothing
    /\ UNCHANGED <<queue, timerVars>>
-----------------------------------------------------------------------------
(* Interrupts, the message bus and the receiving script *)

\* Variant with a fault: the length of the queue is not looked at.
PutAlways(msg) == queue' = Append(queue, msg)

\* lua_msgbus_put without waiting: a message that finds the queue full is lost.
Put(msg) == queue' = IF Len(queue) < QueueLen THEN Append(queue, msg) ELSE queue

\* l_tkl_uart_tx_irq_cb, l_tkl_uart_rx_irq_cb
UartIrq(s) ==
    /\ s \in Uarts \cap armed
    /\ slot[s] # NoRef
    /\ Put([target |-> s, cause |-> s])
    /\ ran' = Nothing
    /\ UNCHANGED <<registry, slot, armed, timerVars>>

\* The pin_id of s_gpio_irq_ctx, which nothing sets after initialization.
PinId(p) == IF p = 0 THEN -1 ELSE 0

\* l_gpio_irq_default
GpioIrq(p) ==
    /\ <<"gpio", p>> \in armed
    /\ Put([target |-> <<"gpio", PinId(p)>>, cause |-> <<"gpio", p>>])
    /\ ran' = Nothing
    /\ UNCHANGED <<registry, slot, armed, timerVars>>

\* What the handler calls: the function of the slot, None to return early.
Called(msg) == IF msg.target \in Sources THEN Fetch(msg.target) ELSE None

\* l_system_receive_msg and the handlers l_tx_uart_handler, l_rx_uart_handler
\* and l_gpio_handler
Receive ==
    /\ queue # <<>>
    /\ queue' = Tail(queue)
    /\ LET msg == Head(queue) IN
        ran' = [source |-> msg.cause, called |-> Called(msg),
                arg |-> None, late |-> FALSE]
    /\ UNCHANGED <<registry, slot, armed, timerVars>>
-----------------------------------------------------------------------------
(* Timers *)

\* lua_timer_new, with an argument for the callback or without.  When the timer
\* cannot be started, the references are not released.  The script keeps every
\* timer it gets: one that is collected while it runs is left out.
TimerStart(t, withArg) ==
    LET func == <<"func", t>>
        arg == <<"arg", t>>
        one == Ref(registry, func)
    IN  /\ timer[t] \in {"none", "deleted"}
        /\ t \notin firing
        /\ CanRef(registry) /\ (withArg => CanRef(one))
        /\ registry' = IF withArg THEN Ref(one, arg) ELSE one
        /\ \/ /\ timer' = [timer EXCEPT ![t] = "running"]
              /\ slot' = [slot EXCEPT ![func] = NewRef(registry),
                                      ![arg] = IF withArg THEN NewRef(one) ELSE NoRef]
              /\ cyclic' \in {cyclic \cup {t}, cyclic \ {t}}
           \/ UNCHANGED <<timer, slot, cyclic>>
        /\ ran' = Nothing
        /\ UNCHANGED <<armed, queue, firing>>

\* lua_timer_stop, lua_timer_trigger
TimerStop(t) ==
    /\ timer[t] = "running"
    /\ timer' = [timer EXCEPT ![t] = "stopped"]
    /\ ran' = Nothing
    /\ UNCHANGED <<registry, slot, armed, queue, cyclic, firing>>

\* Variant with a fault: the result of the deletion is not looked at.
DeletableTwice == {t \in Timers : timer[t] # "none"}

\* Timers whose deletion by tal_sw_timer_delete succeeds.
Deletable == {t \in Timers : timer[t] \in {"running", "stopped"}}

\* lua_timer_delete
TimerDelete(t) ==
    /\ t \in Deletable
    /\ timer' = [timer EXCEPT ![t] = "deleted"]
    /\ registry' = Unref(Unref(registry, slot[<<"func", t>>]), slot[<<"arg", t>>])
    /\ ran' = Nothing
    /\ UNCHANGED <<slot, armed, queue, cyclic, firing>>

\* The timer thread enters __timer_callback, when the time is over or
\* lua_timer_trigger asks for it.
TimerFires(t) ==
    /\ timer[t] \in {"running", "stopped"}
    /\ firing = {}
    /\ firing' = {t}
    /\ timer' = IF t \in cyclic THEN timer ELSE [timer EXCEPT ![t] = "stopped"]
    /\ ran' = Nothing
    /\ UNCHANGED <<registry, slot, armed, queue, cyclic>>

\* It reads the registry and calls what it finds.
TimerRuns(t) ==
    /\ t \in firing
    /\ firing' = {}
    /\ ran' = [source |-> <<"func", t>>, called |-> Fetch(<<"func", t>>),
               arg |-> Fetch(<<"arg", t>>), late |-> timer[t] = "deleted"]
    /\ UNCHANGED <<registry, slot, armed, queue, timer, cyclic>>
-----------------------------------------------------------------------------
Script ==
    \/ \E s \in Uarts \cup Gpios : SetIrq(s)
    \/ \E p \in Ports : UartClose(p)
    \/ \E p \in Pins : GpioClose(p)
    \/ Receive
    \/ \E t \in Timers : (\E withArg \in BOOLEAN : TimerStart(t, withArg))
                         \/ TimerStop(t) \/ TimerDelete(t)

Devices ==
    \/ \E s \in Uarts : UartIrq(s)
    \/ \E p \in Pins : GpioIrq(p)
    \/ \E t \in Timers : TimerFires(t) \/ TimerRuns(t)

Next == Script \/ Devices

Spec == Init /\ [][Next]_vars
-----------------------------------------------------------------------------
(* Properties *)

Entries == Sources \cup {None}

Registry == [holds : [Refs -> Entries], size : 0 .. MaxRef, free : Seq(Refs)]

\* A message of a UART is for the slot of the interrupt itself.
Message ==
    {msg \in [target : Uarts \cup ({"gpio"} \X Int), cause : Uarts \cup Gpios] :
        IF msg.cause \in Uarts THEN msg.target = msg.cause
                               ELSE msg.target \in {"gpio"} \X Int}

\* Types, and the bound of the queue.
CTypeOK ==
    /\ registry \in Registry
    /\ slot \in [Sources -> Refs \cup {0, NoRef}]
    /\ armed \subseteq Uarts \cup Gpios
    /\ queue \in Seq(Message)
    /\ Len(queue) <= QueueLen
    /\ timer \in [Timers -> {"none", "running", "stopped", "deleted"}]
    /\ cyclic \subseteq Timers
    /\ firing \subseteq Timers
    /\ ran \in [source : Entries, called : Entries, arg : Entries, late : BOOLEAN]

\* Sources whose slot is in use: registered and not closed, not deleted.
Live == armed \cup {s \in TimerRefs : s[2] \in Deletable /\ slot[s] # NoRef}

\* Reference r is in use and belongs to source s.
Owned(reg, r, s) ==
    /\ r \in Refs
    /\ reg.holds[r] = s
    /\ r <= reg.size
    /\ \A i \in DOMAIN reg.free : reg.free[i] # r

\* Every slot in use owns its reference: no close, deletion or failed start of
\* another source has released it, and luaL_ref has not given it away again.
RegisteredHeld == \A s \in Live : Owned(registry, slot[s], s)

\* The free list names each reference at most once, and only ones that were used:
\* two later registrations never get the same reference.
FreeListSound(reg) ==
    /\ \A i, j \in DOMAIN reg.free : reg.free[i] = reg.free[j] => i = j
    /\ \A i \in DOMAIN reg.free : reg.free[i] <= reg.size

NoReferenceTwice == FreeListSound(registry)

\* An interrupt of a registered UART runs the function registered for it, and a
\* timer runs its own function with its own argument: never one of a source that
\* was given the same reference, and never nothing.  The interrupt of a pin, which
\* the code sends to pin 0 (PinId), runs no function of a UART or timer; that it
\* runs the pin's own is false.  Left out are the callbacks of timers deleted after
\* they had begun.
RunsOwn ==
    /\ ran.source \in Uarts \cap armed => ran.called = ran.source
    /\ ran.source \in Gpios => ran.called \in Gpios \cup {None}
    /\ ran.source \in TimerRefs /\ ~ran.late =>
          /\ ran.called = ran.source
          /\ ran.arg \in {None, <<"arg", ran.source[2]>>}

\* Once a UART is closed, no function runs for it until one is registered again,
\* whatever messages of it are still on the bus.
NoneAfterClose == ran.source \in Uarts \ armed => ran.called = None
=============================================================================
