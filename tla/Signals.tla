------------------------------- MODULE Signals -------------------------------
(***************************************************************************)
(* stdlib/runtime_ffi.c section 21: a signal's OS handler sets its pending *)
(* flag, writes a byte to the self-pipe and stops the registered listener; *)
(* nurl_signal_dispatch runs the closures of the pending signals on the    *)
(* main thread, which sleeps in poll(2) on the pipe between dispatches.    *)
(*                                                                         *)
(* The OS handler may run on any thread, between any two steps here.       *)
(***************************************************************************)
EXTENDS Integers, FiniteSets

CONSTANTS
    LastSignal,    \* the signals are 1 .. LastSignal (NURL_SIG_MAX - 1)
    Interrupt,     \* the signal that stops the listener (SIGINT, SIGTERM)
    Envs,          \* closure environments the slots may own
    PipeRoom,      \* bytes the self-pipe holds
    MaxRaises,     \* bound: signals delivered in a run
    SelfClearing   \* whether a handler clears or replaces its own signal

VARIABLES
    pending,    \* g_signal_pending
    slot,       \* g_signal_slots[s]: the environment it owns, or "none"
    env,        \* env[e]: "unused", "owned" by a slot, or "freed"
    armed,      \* the signals whose disposition is the OS handler
    pipe,       \* bytes in the self-pipe; -1 before it is made
    handlers,   \* OS handlers in progress: [sig, at]
    main,       \* the main thread: where it is, at which signal, in which closure
    listener,   \* "none", "serving" (registered) or "stopped"
    owed,       \* signals delivered whose handler has not started since
    raises

vars == <<pending, slot, env, armed, pipe, handlers, main, listener, owed, raises>>
Signals == 1 .. LastSignal
Looping == [at |-> "loop", s |-> 0, in |-> "none"]

Init ==
    /\ pending = [s \in Signals |-> FALSE] /\ slot = [s \in Signals |-> "none"]
    /\ env = [e \in Envs |-> "unused"] /\ armed = {} /\ pipe = -1 /\ handlers = {}
    /\ main = Looping /\ listener = "none" /\ owed = {} /\ raises = 0

-----------------------------------------------------------------------------
(* The OS handler: nurl__signal_os_handler.                                *)

\* A signal is delivered (from outside or by nurl_signal_raise); its flag
\* is the first thing set.
Deliver(s) ==
    /\ s \in armed /\ raises < MaxRaises /\ raises' = raises + 1
    /\ ~\E h \in handlers : h.sig = s
    /\ pending' = [pending EXCEPT ![s] = TRUE] /\ owed' = owed \cup {s}
    /\ handlers' = handlers \cup {[sig |-> s, at |-> "write"]}
    /\ UNCHANGED <<slot, env, armed, pipe, main, listener>>

\* The non-blocking write: a full pipe takes no byte, and need not.
Write(h) ==
    /\ h.at = "write"
    /\ pipe' = IF pipe >= 0 /\ pipe < PipeRoom THEN pipe + 1 ELSE pipe
    /\ handlers' = (handlers \ {h}) \cup (IF h.sig = Interrupt THEN {[h EXCEPT !.at = "stop"]} ELSE {})
    /\ UNCHANGED <<pending, slot, env, armed, main, listener, owed, raises>>

\* nurl__signal_stop_listener, once registered.
Stop(h) ==
    /\ h.at = "stop" /\ handlers' = handlers \ {h}
    /\ listener' = IF listener = "none" THEN "none" ELSE "stopped"
    /\ UNCHANGED <<pending, slot, env, armed, pipe, main, owed, raises>>

-----------------------------------------------------------------------------
(* The program's calls, by the main thread between dispatches or from      *)
(* within a handler's closure.                                             *)

MayCall(s) == main.at = "loop" \/ (main.at = "handler" /\ (SelfClearing \/ s # main.s))
Released(e) == IF e = "none" THEN env ELSE [env EXCEPT ![e] = "freed"]

\* A slot that only borrows what the caller drops on return.
BorrowingRegister(s) ==
    /\ MayCall(s)
    /\ pipe' = IF pipe < 0 THEN 0 ELSE pipe
    /\ \E e \in Envs : /\ env[e] = "unused" /\ slot' = [slot EXCEPT ![s] = e]
                       /\ env' = [Released(slot[s]) EXCEPT ![e] = "freed"]
    /\ armed' = armed \cup {s}
    /\ UNCHANGED <<pending, handlers, main, listener, owed, raises>>
\* nurl_signal_register: the pipe, the slot's own copy of the closure, the
\* old one dropped, the disposition armed.
Register(s) ==
    /\ MayCall(s)
    /\ pipe' = IF pipe < 0 THEN 0 ELSE pipe
    /\ \E e \in Envs : /\ env[e] = "unused" /\ slot' = [slot EXCEPT ![s] = e]
                       /\ env' = [Released(slot[s]) EXCEPT ![e] = "owned"]
    /\ armed' = armed \cup {s}
    /\ UNCHANGED <<pending, handlers, main, listener, owed, raises>>

\* nurl_signal_unregister.
Unregister(s) ==
    /\ MayCall(s) /\ (s \in armed)
    /\ env' = Released(slot[s]) /\ slot' = [slot EXCEPT ![s] = "none"]
    /\ pending' = [pending EXCEPT ![s] = FALSE] /\ armed' = armed \ {s} /\ owed' = owed \ {s}
    /\ UNCHANGED <<pipe, handlers, main, listener, raises>>

\* nurl_signal_install_shutdown: with a listener SIGINT is armed without a slot.
InstallShutdown ==
    /\ main.at = "loop" /\ listener = "none" /\ listener' = "serving"
    /\ armed' = armed \cup {Interrupt}
    /\ UNCHANGED <<pending, slot, env, pipe, handlers, main, owed, raises>>
ClearShutdown ==
    /\ main.at = "loop" /\ listener # "none" /\ listener' = "none"
    /\ UNCHANGED <<pending, slot, env, armed, pipe, handlers, main, owed, raises>>
\* nurl_signal_trigger_shutdown: the stop without the signal.
TriggerShutdown ==
    /\ main.at = "loop" /\ listener = "serving" /\ listener' = "stopped"
    /\ UNCHANGED <<pending, slot, env, armed, pipe, handlers, main, owed, raises>>

\* nurl_signal_poll: the lowest pending signal, for the program to handle.
Poll ==
    /\ main.at = "loop"
    /\ \E s \in Signals :
         /\ pending[s] /\ \A r \in Signals : r < s => ~pending[r]
         /\ pending' = [pending EXCEPT ![s] = FALSE] /\ owed' = owed \ {s}
    /\ UNCHANGED <<slot, env, armed, pipe, handlers, main, listener, raises>>

-----------------------------------------------------------------------------
(* The main loop: sleep on the pipe, dispatch.                             *)

Sleep == main.at = "loop" /\ pipe >= 0 /\ main' = [main EXCEPT !.at = "asleep"]
         /\ UNCHANGED <<pending, slot, env, armed, pipe, handlers, listener, owed, raises>>
Wake == main.at = "asleep" /\ pipe > 0 /\ main' = [main EXCEPT !.at = "dispatch", !.s = 1]
        /\ UNCHANGED <<pending, slot, env, armed, pipe, handlers, listener, owed, raises>>
DispatchNow == main.at = "loop" /\ main' = [main EXCEPT !.at = "dispatch", !.s = 1]
               /\ UNCHANGED <<pending, slot, env, armed, pipe, handlers, listener, owed, raises>>

Scanned == [main EXCEPT !.at = IF main.s < LastSignal THEN "dispatch" ELSE "drain", !.s = @ + 1, !.in = "none"]

\* The flag cleared once the closure has run.
LateHandlerEnds ==
    /\ main.at = "handler" /\ main' = Scanned
    /\ pending' = [pending EXCEPT ![main.s] = FALSE]
    /\ UNCHANGED <<slot, env, armed, pipe, handlers, listener, owed, raises>>
\* nurl_signal_dispatch at one signal: the flag is cleared, then its
\* closure runs.
Dispatch ==
    /\ main.at = "dispatch"
    /\ IF ~pending[main.s] THEN main' = Scanned /\ UNCHANGED <<pending, owed>>
       ELSE /\ pending' = [pending EXCEPT ![main.s] = FALSE] /\ owed' = owed \ {main.s}
            /\ main' = IF slot[main.s] = "none" THEN Scanned
                       ELSE [main EXCEPT !.at = "handler", !.in = slot[main.s]]
    /\ UNCHANGED <<slot, env, armed, pipe, handlers, listener, raises>>
HandlerEnds ==
    /\ main.at = "handler" /\ main' = Scanned
    /\ UNCHANGED <<pending, slot, env, armed, pipe, handlers, listener, owed, raises>>

\* The drain that ends a dispatch.
Drain ==
    /\ main.at = "drain" /\ pipe' = (IF pipe < 0 THEN pipe ELSE 0) /\ main' = Looping
    /\ UNCHANGED <<pending, slot, env, armed, handlers, listener, owed, raises>>

-----------------------------------------------------------------------------
Next ==
    \/ \E s \in Signals : Deliver(s) \/ Register(s) \/ Unregister(s)
    \/ \E h \in handlers : Write(h) \/ Stop(h)
    \/ InstallShutdown \/ ClearShutdown \/ TriggerShutdown \/ Poll
    \/ Sleep \/ Wake \/ DispatchNow \/ Dispatch \/ HandlerEnds \/ Drain

Spec == Init /\ [][Next]_vars

-----------------------------------------------------------------------------
\* A signal delivered since its handler last started still has its flag,
\* one raised while the handler runs included.
FlagKept == \A s \in owed : pending[s]

\* Every closure a slot took over is that slot's until it is replaced or
\* cleared, and the one running has not been freed under itself.
EnvOwned ==
    /\ \A e \in Envs : (env[e] = "owned") <=> \E s \in Signals : slot[s] = e
    /\ main.in # "none" => env[main.in] # "freed"

\* A main thread asleep on the pipe with a signal pending is about to be
\* woken: "level-triggered, one byte per delivery".
WakeNotLost ==
    main.at = "asleep" /\ owed # {} => pipe > 0 \/ \E h \in handlers : h.at = "write"
=============================================================================
