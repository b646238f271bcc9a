----------------------------- MODULE NativeEnv -----------------------------
(***************************************************************************)
(* The environment a native method of a builtin contract runs in           *)
(* (src/xenv/env.go).  A native method is straight-line code: it charges   *)
(* gas (UseGas), writes contract storage, emits events (Log) and returns   *)
(* values.  Whatever it reads it reads before it writes, so a method is    *)
(* given here as a program: the sequence of its gas charges, storage       *)
(* writes, events and fatal errors, computed from the storage it starts    *)
(* from, and the output it returns.                                        *)
(*                                                                         *)
(* UseGas panics with ErrOutOfGas when the contract's gas does not cover   *)
(* the charge; Log charges for the event before it adds it; Call recovers  *)
(* ErrOutOfGas into an error result and lets every other panic through.    *)
(***************************************************************************)
EXTENDS Naturals, Sequences

CONSTANTS
    LogGas, LogTopicGas, LogDataGas,   \* ethparams log prices
    NoError, OutOfGas, Panic,          \* how a call ends
    NoOutput                           \* the output of a call that failed

\* The steps of a program.  Every step has every field, so that steps
\* compare; "gas" is the charge, "slot"/"val" the write, "ev" the event.
Step(k, gas, slot, val, ev, topics) ==
    [k |-> k, gas |-> gas, slot |-> slot, val |-> val, ev |-> ev, topics |-> topics]
Charge(n)                == Step("gas", n, NoOutput, NoOutput, NoOutput, 0)
Write(slot, v)           == Step("set", 0, slot, v, NoOutput, 0)
LogEvent(ev, topics, ws) == Step("log", LogGas + LogTopicGas * topics + LogDataGas * 32 * ws,
                                 NoOutput, NoOutput, ev, topics)
Fail                     == Step("fail", 0, NoOutput, NoOutput, NoOutput, 0)

Program(steps, out) == [steps |-> steps, out |-> out]

----------------------------------------------------------------------------
(* Fault variants of the definitions below, each a plausible slip.        *)
EmitLogUnpaid(s, st) ==
    LET s2 == [s EXCEPT !.logs = Append(@, st.ev)]
    IN  IF s2.gas >= st.gas THEN [s2 EXCEPT !.gas = @ - st.gas] ELSE [s2 EXCEPT !.err = OutOfGas]

----------------------------------------------------------------------------
(* A running call is a record: gas left, storage, the events it emitted   *)
(* and its error.  A fatal error or running out of gas stops it.          *)

\* Environment.UseGas
UseGas(s, n) ==
    IF s.gas >= n THEN [s EXCEPT !.gas = @ - n] ELSE [s EXCEPT !.err = OutOfGas]

\* Environment.Log: charge for the event, then add it.
EmitLog(s, st) ==
    LET s2 == UseGas(s, st.gas)
    IN  IF s2.err # NoError THEN s2 ELSE [s2 EXCEPT !.logs = Append(@, st.ev)]

RECURSIVE Exec(_, _)
Exec(steps, s) ==
    IF steps = <<>> \/ s.err # NoError THEN s
    ELSE LET st == Head(steps)
         IN  Exec(Tail(steps),
                  CASE st.k = "gas" -> UseGas(s, st.gas)
                    [] st.k = "set" -> [s EXCEPT !.store[st.slot] = st.val]
                    [] st.k = "log" -> EmitLog(s, st)
                    [] st.k = "fail" -> [s EXCEPT !.err = Panic])

\* Environment.Call: run the method on the given gas and storage; the
\* output only when it ran to the end.
Call(prog, gas, store) ==
    LET r == Exec(prog.steps, [gas |-> gas, store |-> store, logs |-> <<>>, err |-> NoError])
    IN  [gas |-> r.gas, store |-> r.store, logs |-> r.logs, err |-> r.err,
         out |-> IF r.err = NoError THEN prog.out ELSE NoOutput]
=============================================================================
