------------------------- MODULE CompactionWorkers -------------------------
(***************************************************************************)
(* The command loops of goleveldb's two compaction goroutines and the      *)
(* callers that wait on them (db_compaction.go):                           *)
(*                                                                         *)
(*  - tCompaction: table compaction.  While compaction is needed it polls  *)
(*    its channels (select with default) and compacts; otherwise it acks   *)
(*    every queued waiter and blocks for a command, a pause request or     *)
(*    closeC.  A waiting command (cAuto with ackC) is acked at once if     *)
(*    writes may resume, else queued in waitQ; a range command is run and  *)
(*    acked.  On exit its deferred function acks waitQ and x with ErrClosed.*)
(*  - mCompaction: memdb flush.  memCompaction pauses tCompaction through  *)
(*    tcompPauseC (unless a persistent error is offered first), flushes    *)
(*    and commits, resumes it by receiving from resumeC, and triggers it   *)
(*    without waiting (compTrigger).                                       *)
(*  - compTriggerWait / compTriggerRange: send the command, then wait for  *)
(*    the ack on a fresh unbuffered channel, for compErrC, or for closeC;  *)
(*    the deferred close(ch) makes a late ack panic, which ack recovers.    *)
(*  - compactionError offers its error on compErrC while it has one.       *)
(*                                                                         *)
(* The retry loop inside a flush or compaction is CompactionTransact's     *)
(* subject: here a flush or compaction is one step that either completes   *)
(* or exits the goroutine (closed, persistent error, corruption).  Level   *)
(* data is abstracted to the number of level-0 tables.                     *)
(***************************************************************************)
EXTENDS Naturals, Sequences

CONSTANTS
    Clients,        \* goroutines calling compTriggerWait / compTriggerRange
    CallKinds,      \* "auto": compTriggerWait(tcompCmdC), "range":
                    \* compTriggerRange(tcompCmdC), "mem": compTriggerWait(mcompCmdC)
    MaxCalls,       \* calls each client makes (bounds the model)
    L0Trigger,      \* opt CompactionL0Trigger: level-0 tables that need compaction
    PauseTrigger,   \* opt WriteL0PauseTrigger: level-0 tables that pause writes
    InitL0,         \* level-0 table counts the DB may open with
    NoCmd,          \* x == nil
    NoClient        \* the ackC of cAuto{} sent by compTrigger: nil

ASSUME CallKinds \subseteq {"auto", "range", "mem"}
ASSUME MaxCalls \in Nat /\ InitL0 \subseteq Nat
ASSUME L0Trigger \in Nat \ {0} /\ PauseTrigger \in Nat \ {0}

VARIABLES
    L0,        \* tables in level 0 of the current version
    errState,  \* label compactionError is at: noerr, haserr, hasperr, exited
    closed,    \* closeC has been closed (DB.Close)
    tpc,       \* where tCompaction is
    x,         \* tCompaction's x: the command it holds, or NoCmd
    waitQ,     \* tCompaction's waitQ
    pick,      \* level-0 tables the running table compaction takes
    mpc,       \* where mCompaction is
    mx,        \* mCompaction's x
    paused,    \* memCompaction's resumeC is non-nil (the pause hand-off succeeded)
    cpc,       \* per client: idle, send (first select), wait (second select)
    ckind,     \* per client: the kind of its current call
    calls,     \* per client: calls made
    open,      \* commands whose ack channel has not been closed yet
    ret        \* per client: what its last call returned

tVars == <<tpc, x, waitQ, pick>>
mVars == <<mpc, mx, paused>>
cVars == <<cpc, ckind, calls, open, ret>>
vars == <<L0, errState, closed, tVars, mVars, cVars>>

(* A command carries its ack channel; every call makes a fresh channel,    *)
(* named here by the client and the call's number.                         *)
CmdOf(c) == [c |-> c, n |-> calls[c], kind |-> ckind[c]]
TrigCmd == [c |-> NoClient, n |-> 0, kind |-> "trig"]
KindOf(k) == IF k = NoCmd THEN "none" ELSE k.kind
Cmds == [c : Clients, n : 1..MaxCalls, kind : CallKinds] \cup {TrigCmd}

TypeOK ==
    /\ L0 \in Nat
    /\ errState \in {"noerr", "haserr", "hasperr", "exited"}
    /\ closed \in BOOLEAN
    /\ tpc \in {"top", "select", "resumeq", "ackN", "ackI", "cmd", "auto",
                "build", "paused", "bpaused", "exit", "done"}
    /\ x \in Cmds \cup {NoCmd}
    /\ waitQ \in Seq(Cmds)
    /\ pick \in Nat
    /\ mpc \in {"idle", "mem", "pause", "flush", "resume", "trigger", "ack",
                "exit", "done"}
    /\ mx \in Cmds \cup {NoCmd}
    /\ paused \in BOOLEAN
    /\ cpc \in [Clients -> {"idle", "send", "wait"}]
    /\ ckind \in [Clients -> CallKinds]
    /\ calls \in [Clients -> 0..MaxCalls]
    /\ open \subseteq Cmds
    /\ ret \in [Clients -> {"none", "nil", "err", "closed"}]

Init ==
    /\ L0 \in InitL0
    /\ errState = "noerr"
    /\ closed = FALSE
    /\ tpc = "top" /\ x = NoCmd /\ waitQ = <<>> /\ pick = 0
    /\ mpc = "idle" /\ mx = NoCmd /\ paused = FALSE
    /\ cpc = [c \in Clients |-> "idle"]
    /\ ckind = [c \in Clients |-> CHOOSE k \in CallKinds : TRUE]
    /\ calls = [c \in Clients |-> 0]
    /\ open = {}
    /\ ret = [c \in Clients |-> "none"]

-----------------------------------------------------------------------------
(* tableNeedCompaction: the version's compaction score reaches 1; of the   *)
(* score only the level-0 part is kept.                                    *)
Need == L0 >= L0Trigger

(* resumeWrite: fewer level-0 tables than the write-pause trigger.         *)
ResumeWrite == L0 < PauseTrigger

(* A flush or table compaction exits its goroutine (compactionExitTransact) *)
(* when the DB is closed or a persistent error is reported back.           *)
ExitCause == closed \/ errState = "hasperr"

(* Fault variant: the caller returns without closing its channel.        *)
ReturnNoClose(c, r) ==
    /\ cpc' = [cpc EXCEPT ![c] = "idle"]
    /\ ret' = [ret EXCEPT ![c] = r]
    /\ UNCHANGED <<ckind, calls, open>>

(* compTriggerWait / compTriggerRange return r: the deferred close(ch).    *)
Return(c, r) ==
    /\ cpc' = [cpc EXCEPT ![c] = "idle"]
    /\ open' = open \ {CmdOf(c)}
    /\ ret' = [ret EXCEPT ![c] = r]
    /\ UNCHANGED <<ckind, calls>>

(* cAuto.ack / cRange.ack: nothing for a nil ackC; a send to a closed     *)
(* channel panics and is recovered; otherwise the send blocks until the    *)
(* caller, waiting in its second select, takes the result.                 *)
Ack(k, r) ==
    \/ /\ k.c = NoClient
       /\ UNCHANGED cVars
    \/ /\ k.c # NoClient
       /\ k \notin open
       /\ UNCHANGED cVars
    \/ /\ k.c # NoClient
       /\ k \in open
       /\ cpc[k.c] = "wait" /\ CmdOf(k.c) = k
       /\ Return(k.c, r)
-----------------------------------------------------------------------------
(* tCompaction                                                             *)

(* tCompaction is parked in a select that receives from tcompCmdC and      *)
(* tcompPauseC: the blocking one, or the polling one while compaction is   *)
(* needed (a parked sender is taken; a non-blocking send is not).          *)
Receiving == (tpc = "top" /\ Need) \/ tpc = "select"
AfterRecv == IF tpc = "top" THEN "resumeq" ELSE "cmd"

(* case x = <-db.tcompCmdC, from a caller blocked in its first select.     *)
TRecvCmd(c) ==
    /\ Receiving
    /\ cpc[c] = "send" /\ ckind[c] \in {"auto", "range"}
    /\ x' = CmdOf(c)
    /\ tpc' = AfterRecv
    /\ cpc' = [cpc EXCEPT ![c] = "wait"]
    /\ UNCHANGED <<L0, errState, closed, waitQ, pick, mVars, ckind, calls, open, ret>>

(* Fault variant: the pause request is taken but pauseCompaction not      *)
(* called, so tCompaction carries on at once.                               *)
PauseNoWait ==
    /\ Receiving
    /\ mpc = "pause"
    /\ tpc' = "top"
    /\ mpc' = "flush" /\ paused' = TRUE
    /\ UNCHANGED <<L0, errState, closed, x, waitQ, pick, mx, cVars>>

(* case ch := <-db.tcompPauseC: memCompaction's send completes and         *)
(* pauseCompaction blocks sending on ch until the flush has been committed. *)
TRecvPause ==
    /\ Receiving
    /\ mpc = "pause"
    /\ tpc' = "paused"
    /\ mpc' = "flush" /\ paused' = TRUE
    /\ UNCHANGED <<L0, errState, closed, x, waitQ, pick, mx, cVars>>

(* case <-db.closeC: return, running the deferred acks.                    *)
TRecvClosed ==
    /\ Receiving
    /\ closed
    /\ tpc' = "exit"
    /\ UNCHANGED <<L0, errState, closed, x, waitQ, pick, mVars, cVars>>

(* default: no case of the polling select is ready.                        *)
TDefault ==
    /\ tpc = "top" /\ Need
    /\ ~\E c \in Clients : cpc[c] = "send" /\ ckind[c] \in {"auto", "range"}
    /\ mpc # "pause"
    /\ ~closed
    /\ tpc' = "resumeq"
    /\ UNCHANGED <<L0, errState, closed, x, waitQ, pick, mVars, cVars>>

(* Fault variant: the idle branch blocks without acking waitQ.             *)
TIdleNoFlush ==
    /\ tpc = "top" /\ ~Need
    /\ tpc' = "select"
    /\ UNCHANGED <<L0, errState, closed, x, waitQ, pick, mVars, cVars>>

(* No compaction needed: ack every queued waiter, then block.              *)
TIdle ==
    /\ tpc = "top" /\ ~Need
    /\ tpc' = "ackI"
    /\ UNCHANGED <<L0, errState, closed, x, waitQ, pick, mVars, cVars>>

(* Fault variant: the waiters released after the polling select without   *)
(* the resumeWrite check.                                                  *)
ResumeQNoCheck ==
    /\ tpc = "resumeq"
    /\ tpc' = IF waitQ # <<>> THEN "ackN" ELSE "cmd"
    /\ UNCHANGED <<L0, errState, closed, x, waitQ, pick, mVars, cVars>>

(* After the polling select: release the waiters if writes may resume.     *)
TResumeQ ==
    /\ tpc = "resumeq"
    /\ tpc' = IF waitQ # <<>> /\ ResumeWrite THEN "ackN" ELSE "cmd"
    /\ UNCHANGED <<L0, errState, closed, x, waitQ, pick, mVars, cVars>>

(* for i := range waitQ { waitQ[i].ack(nil) }; waitQ = waitQ[:0].          *)
TAckWaitQ ==
    /\ tpc \in {"ackN", "ackI"}
    /\ \/ /\ waitQ # <<>>
          /\ Ack(Head(waitQ), "nil")
          /\ waitQ' = Tail(waitQ)
          /\ UNCHANGED tpc
       \/ /\ waitQ = <<>>
          /\ tpc' = IF tpc = "ackN" THEN "cmd" ELSE "select"
          /\ UNCHANGED <<waitQ, cVars>>
    /\ UNCHANGED <<L0, errState, closed, x, pick, mVars>>

(* The switch on x: a waiting cAuto is acked at once when writes may       *)
(* resume and queued otherwise; cAuto{} needs no ack.                      *)
TCmd ==
    /\ tpc = "cmd"
    /\ KindOf(x) \in {"none", "trig", "auto"}
    /\ \/ /\ KindOf(x) \in {"none", "trig"}
          /\ UNCHANGED <<waitQ, cVars>>
       \/ /\ KindOf(x) = "auto" /\ ResumeWrite
          /\ Ack(x, "nil")
          /\ UNCHANGED waitQ
       \/ /\ KindOf(x) = "auto" /\ ~ResumeWrite
          /\ waitQ' = Append(waitQ, x)
          /\ UNCHANGED cVars
    /\ x' = NoCmd
    /\ tpc' = "auto"
    /\ UNCHANGED <<L0, errState, closed, pick, mVars>>

(* A table compaction's transact exits: closed or persistent error; or     *)
(* the builder detects corruption (it alone can), which compactionError    *)
(* records as a persistent error while the transact exits.                 *)
TableExit ==
    /\ tpc' = "exit"
    /\ UNCHANGED <<L0, pick>>
    /\ \/ ExitCause /\ UNCHANGED errState
       \/ errState \in {"noerr", "haserr"} /\ errState' = "hasperr"

(* case cRange: db.tableRangeCompaction(...) starts on the level-0 tables  *)
(* the range overlaps, any number of them (none: nothing to compact).      *)
TRange ==
    /\ tpc = "cmd"
    /\ KindOf(x) = "range"
    /\ \E p \in 0..L0 : pick' = p
    /\ tpc' = "build"
    /\ UNCHANGED <<L0, errState, closed, x, waitQ, mVars, cVars>>

(* Fault variant: a level-0 compaction that counts one table too many.    *)
TAutoOffByOne ==
    /\ tpc = "auto"
    /\ \/ /\ ~Need
          /\ tpc' = "top"
          /\ UNCHANGED pick
       \/ /\ \E p \in (IF Need THEN 1..(L0 + 1) ELSE 0..L0) : pick' = p
          /\ tpc' = "build"
    /\ UNCHANGED <<L0, errState, closed, x, waitQ, mVars, cVars>>

(* tableAutoCompaction: pickCompaction finds nothing, or a compaction.     *)
(* While compaction is needed it is a level-0 one (at least one level-0    *)
(* table goes); otherwise a seek compaction, which may not touch level 0.  *)
TAuto ==
    /\ tpc = "auto"
    /\ \/ /\ ~Need
          /\ tpc' = "top"
          /\ UNCHANGED pick
       \/ /\ \E p \in (IF Need THEN 1..L0 ELSE 0..L0) : pick' = p
          /\ tpc' = "build"
    /\ UNCHANGED <<L0, errState, closed, x, waitQ, mVars, cVars>>

(* tableCompaction: the build and commit transacts end, the picked tables  *)
(* leave level 0, and a range command is acked (x.ack(nil)); or the        *)
(* transact exits, a range command still held in x.                       *)
TBuild ==
    /\ tpc = "build"
    /\ \/ /\ L0' = L0 - pick
          /\ pick' = 0
          /\ UNCHANGED errState
          /\ IF KindOf(x) = "range"
             THEN /\ Ack(x, "nil")
                  /\ x' = NoCmd
                  /\ tpc' = "auto"
             ELSE /\ tpc' = "top"
                  /\ UNCHANGED <<x, cVars>>
       \/ /\ TableExit
          /\ UNCHANGED <<x, cVars>>
    /\ UNCHANGED <<closed, waitQ, mVars>>

(* tableCompactionBuilder.run, when a block fills: case ch :=               *)
(* <-db.tcompPauseC: pauseCompaction in the middle of the build.           *)
TBuildPause ==
    /\ tpc = "build"
    /\ mpc = "pause"
    /\ tpc' = "bpaused"
    /\ mpc' = "flush" /\ paused' = TRUE
    /\ UNCHANGED <<L0, errState, closed, x, waitQ, pick, mx, cVars>>

(* pauseCompaction: ch <- struct{}{} meets memCompaction's <-resumeC; the  *)
(* loop continues, or the build goes on.                                   *)
TResume ==
    /\ tpc \in {"paused", "bpaused"}
    /\ mpc = "resume"
    /\ tpc' = IF tpc = "paused" THEN "top" ELSE "build"
    /\ mpc' = "trigger" /\ paused' = FALSE
    /\ UNCHANGED <<L0, errState, closed, x, waitQ, pick, mx, cVars>>

(* pauseCompaction: case <-db.closeC: compactionExitTransact.              *)
TPausedClosed ==
    /\ tpc \in {"paused", "bpaused"}
    /\ closed
    /\ tpc' = "exit"
    /\ UNCHANGED <<L0, errState, closed, x, waitQ, pick, mVars, cVars>>

(* The deferred function: ack waitQ, then x, with ErrClosed; closeW.Done.  *)
TExit ==
    /\ tpc = "exit"
    /\ \/ /\ waitQ # <<>>
          /\ Ack(Head(waitQ), "closed")
          /\ waitQ' = Tail(waitQ)
          /\ UNCHANGED <<tpc, x>>
       \/ /\ waitQ = <<>> /\ x # NoCmd
          /\ Ack(x, "closed")
          /\ x' = NoCmd
          /\ UNCHANGED <<tpc, waitQ>>
       \/ /\ waitQ = <<>> /\ x = NoCmd
          /\ tpc' = "done"
          /\ UNCHANGED <<x, waitQ, cVars>>
    /\ UNCHANGED <<L0, errState, closed, pick, mVars>>

TStep ==
    \/ \E c \in Clients : TRecvCmd(c)
    \/ TRecvPause \/ TRecvClosed \/ TDefault \/ TIdle \/ TResumeQ
    \/ TAckWaitQ \/ TCmd \/ TRange \/ TAuto \/ TBuild \/ TBuildPause
    \/ TResume \/ TPausedClosed
    \/ TExit
-----------------------------------------------------------------------------
(* mCompaction                                                             *)

(* case x = <-db.mcompCmdC: a cAuto from compTriggerWait(mcompCmdC).       *)
MRecvCmd(c) ==
    /\ mpc = "idle"
    /\ cpc[c] = "send" /\ ckind[c] = "mem"
    /\ mx' = CmdOf(c)
    /\ mpc' = "mem"
    /\ cpc' = [cpc EXCEPT ![c] = "wait"]
    /\ UNCHANGED <<L0, errState, closed, tVars, paused, ckind, calls, open, ret>>

(* case <-db.closeC: return (x is nil).                                    *)
MIdleClosed ==
    /\ mpc = "idle"
    /\ closed
    /\ mpc' = "exit"
    /\ UNCHANGED <<L0, errState, closed, tVars, mx, paused, cVars>>

(* memCompaction: with no frozen memdb, or an empty one (dropped), return  *)
(* at once; otherwise pause table compaction first.                        *)
MMem ==
    /\ mpc = "mem"
    /\ mpc' \in {"ack", "pause"}
    /\ UNCHANGED <<L0, errState, closed, tVars, mx, paused, cVars>>

(* case <-db.compPerErrC: close(resumeC); resumeC = nil: flush unpaused.   *)
MPausePerErr ==
    /\ mpc = "pause"
    /\ errState = "hasperr"
    /\ mpc' = "flush" /\ paused' = FALSE
    /\ UNCHANGED <<L0, errState, closed, tVars, mx, cVars>>

(* case <-db.closeC while pausing or resuming: compactionExitTransact.     *)
MClosed ==
    /\ mpc \in {"pause", "resume"}
    /\ closed
    /\ mpc' = "exit"
    /\ UNCHANGED <<L0, errState, closed, tVars, mx, paused, cVars>>

(* The memdb@flush transact and compactionCommit: the new table goes to    *)
(* level 0, or deeper when it overlaps nothing (flushMemdb); or the        *)
(* transact exits.  A flush reports no corruption.                         *)
MFlush ==
    /\ mpc = "flush"
    /\ \/ /\ \E l \in {L0, L0 + 1} : L0' = l
          /\ mpc' = IF paused THEN "resume" ELSE "trigger"
       \/ /\ ExitCause
          /\ mpc' = "exit"
          /\ UNCHANGED L0
    /\ UNCHANGED <<errState, closed, tVars, mx, paused, cVars>>

(* compTrigger(db.tcompCmdC): a non-blocking send of cAuto{}, taken only   *)
(* if tCompaction is parked in its blocking select.                        *)
MTrigger ==
    /\ mpc = "trigger"
    /\ IF tpc = "select"
       THEN x' = TrigCmd /\ tpc' = "cmd"
       ELSE UNCHANGED <<tpc, x>>
    /\ mpc' = "ack"
    /\ UNCHANGED <<L0, errState, closed, waitQ, pick, mx, paused, cVars>>

(* x.ack(nil); x = nil.                                                    *)
MAck ==
    /\ mpc = "ack"
    /\ Ack(mx, "nil")
    /\ mx' = NoCmd
    /\ mpc' = "idle"
    /\ UNCHANGED <<L0, errState, closed, tVars, paused>>

(* The deferred function: x.ack(ErrClosed) if x is set; closeW.Done.       *)
MExit ==
    /\ mpc = "exit"
    /\ \/ /\ mx # NoCmd
          /\ Ack(mx, "closed")
          /\ mx' = NoCmd
          /\ UNCHANGED mpc
       \/ /\ mx = NoCmd
          /\ mpc' = "done"
          /\ UNCHANGED <<mx, cVars>>
    /\ UNCHANGED <<L0, errState, closed, tVars, paused>>

MStep ==
    \/ \E c \in Clients : MRecvCmd(c)
    \/ MIdleClosed \/ MMem \/ MPausePerErr \/ MClosed \/ MFlush
    \/ MTrigger \/ MAck \/ MExit

-----------------------------------------------------------------------------
(* compactionError, callers and Close                                      *)

(* compactionError receives a transact's error on compErrSetC: nil clears  *)
(* it, a transient error moves noerr to haserr, ErrReadOnly or corruption   *)
(* moves it to hasperr, where it stays.                                     *)
ErrSet ==
    /\ errState \in {"noerr", "haserr"}
    /\ errState' \in {"noerr", "haserr", "hasperr"} \ {errState}
    /\ UNCHANGED <<L0, closed, tVars, mVars, cVars>>

(* case db.compErrC <- err, taken by a caller in either of its selects.    *)
ErrOffer(c) ==
    /\ errState \in {"haserr", "hasperr"}
    /\ cpc[c] \in {"send", "wait"}
    /\ Return(c, "err")
    /\ UNCHANGED <<L0, errState, closed, tVars, mVars>>

(* case <-db.closeC: compactionError returns.                              *)
ErrExit ==
    /\ errState # "exited"
    /\ closed
    /\ errState' = "exited"
    /\ UNCHANGED <<L0, closed, tVars, mVars, cVars>>

(* compTriggerWait(compC) / compTriggerRange: make ch, send the command.   *)
Call(c, k) ==
    /\ cpc[c] = "idle"
    /\ calls[c] < MaxCalls
    /\ LET k2 == [c |-> c, n |-> calls[c] + 1, kind |-> k]
       IN  /\ calls' = [calls EXCEPT ![c] = @ + 1]
           /\ ckind' = [ckind EXCEPT ![c] = k]
           /\ open' = open \cup {k2}
    /\ cpc' = [cpc EXCEPT ![c] = "send"]
    /\ UNCHANGED <<L0, errState, closed, tVars, mVars, ret>>

(* case <-db.closeC in either select: return ErrClosed.                    *)
CallClosed(c) ==
    /\ cpc[c] \in {"send", "wait"}
    /\ closed
    /\ Return(c, "closed")
    /\ UNCHANGED <<L0, errState, closed, tVars, mVars>>

(* DB.Close closes closeC.                                                 *)
Close ==
    /\ ~closed
    /\ closed' = TRUE
    /\ UNCHANGED <<L0, errState, tVars, mVars, cVars>>

(* Every goroutine has returned and no caller is waiting.                  *)
Terminated ==
    /\ closed
    /\ tpc = "done" /\ mpc = "done" /\ errState = "exited"
    /\ \A c \in Clients : cpc[c] = "idle"
    /\ UNCHANGED vars

Next ==
    \/ TStep \/ MStep
    \/ ErrSet \/ ErrExit \/ Close
    \/ \E c \in Clients : ErrOffer(c) \/ CallClosed(c) \/ \E k \in CallKinds : Call(c, k)
    \/ Terminated

(* The goroutines of the DB are weakly fair: Go runs a goroutine that can  *)
(* proceed and picks uniformly among the ready cases of a select, so a     *)
(* case that stays ready is eventually taken.  The callers' decision to    *)
(* call, the errors the transacts report and Close are not.                *)
Fairness ==
    /\ WF_vars(TStep) /\ WF_vars(MStep) /\ WF_vars(ErrExit)
    /\ \A c \in Clients : WF_vars(ErrOffer(c)) /\ WF_vars(CallClosed(c))

Spec == Init /\ [][Next]_vars /\ Fairness

-----------------------------------------------------------------------------
(* While memCompaction holds the pause (its send on tcompPauseC succeeded,  *)
(* until it receives from resumeC), tCompaction runs no table compaction:  *)
(* it is blocked in pauseCompaction or has exited.                          *)
NoTableCompactionDuringFlush ==
    (mpc \in {"flush", "resume"} /\ paused) => tpc \in {"paused", "bpaused", "exit", "done"}

(* A compTriggerWait(tcompCmdC) caller, used to hold writes back until     *)
(* level 0 shrinks, is released with nil only while level 0 is below the   *)
(* write-pause trigger (resumeWrite), checked at line 959 or 986 and still *)
(* true when the acks reach the callers one by one, since a flush has to   *)
(* pause tCompaction first.  Exempt: a persistent error, under which the   *)
(* flush runs unpaused and compactionError holds the write lock, and a     *)
(* closed DB, where every write fails.                                     *)
ReleasedWhenWritable ==
    [][\A c \in Clients :
         (cpc[c] = "wait" /\ ckind[c] = "auto" /\ ret'[c] = "nil" /\ cpc'[c] = "idle")
             => (L0 < PauseTrigger \/ errState = "hasperr" \/ closed)]_vars

(* Every compTriggerWait / compTriggerRange call returns: a queued waiter  *)
(* is acked once level 0 shrinks, and no ack blocks tCompaction for good.  *)
WaiterReturns == \A c \in Clients : cpc[c] # "idle" ~> cpc[c] = "idle"

(* After Close, both compaction goroutines and compactionError return and  *)
(* every caller is released (closeW.Wait in Close returns).                *)
CloseTerminates ==
    closed ~> (tpc = "done" /\ mpc = "done" /\ errState = "exited"
               /\ \A c \in Clients : cpc[c] = "idle")
====
