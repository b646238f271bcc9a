------------------------- MODULE CompactionTransact -------------------------
(***************************************************************************)
(* The retry wrapper of goleveldb's background compactions                *)
(* (db_compaction.go), with the goroutines it talks to.                   *)
(*                                                                         *)
(*  - compactionTransact: run a step, report its error to the error        *)
(*    goroutine, return on success, exit (revert + panic) on close or      *)
(*    corruption or persistent error, otherwise back off and retry.        *)
(*  - compactionError: the goroutine holding the engine-wide error state   *)
(*    (noerr / haserr / hasperr) reached through unbuffered channels.      *)
(*  - the two workers, mCompaction (memdb flush) and tCompaction (table    *)
(*    compaction): each job is a build transact followed by a commit       *)
(*    transact taken under compCommitLk (compactionCommit).                *)
(*  - a foreground writer contending for writeLockC, and DB.Close, both    *)
(*    outside src/ and modelled from the spec.                             *)
(*                                                                         *)
(* Table data is abstracted away: a job's output is one file name per      *)
(* attempt; stor is the set of table files on storage and catalog the set  *)
(* the current Version references.                                        *)
(***************************************************************************)
EXTENDS Naturals, FiniteSets

CONSTANTS
    MaxJobs,        \* jobs each worker runs (bounds the model)
    MaxFailures,    \* failing attempts a transact may see (bounds the model)
    MaxCnt,         \* largest per-attempt progress counter of a table build
    BackoffMin,     \* backoffMin, in seconds (1)
    BackoffMax,     \* backoffMax, in seconds (8)
    BackoffMul,     \* backoffMul, in seconds (2): a time.Duration, not a factor
    NsPerSecond,    \* nanoseconds per second, see NextBackoff
    DisableBackoff, \* opt.DisableCompactionBackoff
    None

ASSUME MaxJobs \in Nat /\ MaxFailures \in Nat /\ MaxCnt \in Nat
ASSUME BackoffMin \in Nat \ {0} /\ BackoffMax >= BackoffMin /\ BackoffMul \in Nat
ASSUME NsPerSecond \in Nat \ {0} /\ DisableBackoff \in BOOLEAN

Workers == {"mem", "table"}

VARIABLES
    pc,        \* per worker: where its goroutine is
    phase,     \* per worker: "build" (flush / table@build) or "commit"
    job,       \* per worker: jobs started
    n,         \* per worker: the loop counter n of compactionTransact
    res,       \* per worker: the error returned by the last t.run
    cnt,       \* per worker: the transact counter of the last t.run
    lastCnt,   \* per worker: lastCnt of compactionTransact
    backoff,   \* per worker: backoff of compactionTransact, in seconds
    added,     \* per worker: rec.addedTables of the job's record
    commitLk,  \* holder of db.compCommitLk, or None
    errState,  \* label compactionError is at: noerr, haserr, hasperr, exited
    compWriteLocking,
    writeLock, \* holder of the writeLockC slot: None, "errloop", "writer", "close"
    wpc,       \* foreground writer: idle, waiting, holding
    closed,    \* db.closed (isClosed)
    closeC,    \* db.closeC has been closed
    closePc,   \* progress of DB.Close
    stor,      \* table files present on storage
    catalog    \* table files referenced by the current Version

workerVars == <<pc, phase, job, n, res, cnt, lastCnt, backoff, added>>
vars == <<workerVars, commitLk, errState, compWriteLocking, writeLock, wpc,
          closed, closeC, closePc, stor, catalog>>

Results == {"ok", "transient", "corrupt"}
Phases == {"build", "commit"}
Files == Workers \X (0..MaxJobs) \X (0..MaxFailures)

\* Every variable stays in its range; the backoff between backoffMin and
\* backoffMax holds only because of the cap after backoff *= backoffMul.
TypeOK ==
    /\ pc \in [Workers -> {"next", "top", "run", "report", "backoff", "lock", "done"}]
    /\ phase \in [Workers -> Phases]
    /\ job \in [Workers -> 0..MaxJobs]
    /\ n \in [Workers -> 0..MaxFailures]
    /\ res \in [Workers -> Results]
    /\ cnt \in [Workers -> 0..MaxCnt] /\ lastCnt \in [Workers -> 0..MaxCnt]
    /\ backoff \in [Workers -> BackoffMin..BackoffMax]
    /\ added \in [Workers -> SUBSET Files]
    /\ commitLk \in Workers \cup {None}
    /\ errState \in {"noerr", "haserr", "hasperr", "exited"}
    /\ compWriteLocking \in BOOLEAN
    /\ writeLock \in {None, "errloop", "writer", "close"}
    /\ wpc \in {"idle", "waiting", "holding"}
    /\ closed \in BOOLEAN /\ closeC \in BOOLEAN
    /\ closePc \in {"open", "flagged", "signalled", "locked", "done"}
    /\ stor \in SUBSET Files /\ catalog \in SUBSET Files

Init ==
    /\ pc = [w \in Workers |-> "next"]
    /\ phase = [w \in Workers |-> "build"]
    /\ job = [w \in Workers |-> 0]
    /\ n = [w \in Workers |-> 0]
    /\ res = [w \in Workers |-> "ok"]
    /\ cnt = [w \in Workers |-> 0]
    /\ lastCnt = [w \in Workers |-> 0]
    /\ backoff = [w \in Workers |-> BackoffMin]
    /\ added = [w \in Workers |-> {}]
    /\ commitLk = None
    /\ errState = "noerr"
    /\ compWriteLocking = FALSE
    /\ writeLock = None
    /\ wpc = "idle"
    /\ closed = FALSE /\ closeC = FALSE /\ closePc = "open"
    /\ stor = {} /\ catalog = {}

-----------------------------------------------------------------------------
(* Fault variants.  Each is a plausible bug in the code a definition below *)
(* models; substituted for it, one of the properties must fail.            *)

(* backoff *= backoffMul without the "backoff > backoffMax" cap after it.   *)
NextBackoffUncapped(b) ==
    IF b < BackoffMax THEN b * BackoffMul * NsPerSecond ELSE b

(* The run's deferred cleanup of its added tables forgotten on error.       *)
BuildStorNoCleanup(w, r) == stor \cup {<<w, job[w], n[w]>>}

(* The build's revert also attached to the commit transact.                *)
ExitRevertAlways(w) ==
    /\ stor' = stor \ added[w]
    /\ commitLk' = IF commitLk = w THEN None ELSE commitLk
    /\ pc' = [pc EXCEPT ![w] = "done"]

(* compactionError returning on closeC without releasing writeLockC.       *)
ErrCloseKeepLock ==
    /\ errState \in {"noerr", "haserr", "hasperr"}
    /\ closeC
    /\ errState' = "exited"
    /\ UNCHANGED <<workerVars, commitLk, compWriteLocking, writeLock, wpc,
                   closed, closeC, closePc, stor, catalog>>

(* compactionError taking the write lock on a transient error too.         *)
ErrWriteLockTransient ==
    /\ errState \in {"haserr", "hasperr"}
    /\ writeLock = None
    /\ writeLock' = "errloop"
    /\ compWriteLocking' = TRUE
    /\ UNCHANGED <<workerVars, commitLk, errState, wpc, closed, closeC,
                   closePc, stor, catalog>>

-----------------------------------------------------------------------------
(* The file a build attempt writes: one per worker, job and attempt, since  *)
(* every attempt allocates fresh file numbers.                             *)
AttemptFile(w) == <<w, job[w], n[w]>>

(* Errors t.run can return: flushMemdb and s.commit fail with I/O errors,  *)
(* the table builder may also detect corruption.  Failures are bounded by  *)
(* MaxFailures attempts per transact.                                      *)
RunResults(w) ==
    IF n[w] >= MaxFailures THEN {"ok"}
    ELSE IF w = "table" /\ phase[w] = "build" THEN Results
    ELSE {"ok", "transient"}

(* Only the table builder increments the transact counter (cnt.incr() per  *)
(* key); the flush and the commit leave it at zero.                        *)
CntRange(w) == IF w = "table" /\ phase[w] = "build" THEN 0..MaxCnt ELSE {0}

(* The state compactionError moves to on receiving err from compErrSetC:   *)
(* nil clears it, corruption (or ErrReadOnly) is persistent, anything else *)
(* is transient.                                                          *)
ErrNext(r) == CASE r = "ok"        -> "noerr"
                [] r = "corrupt"   -> "hasperr"
                [] r = "transient" -> "haserr"

(* backoff *= backoffMul multiplies two time.Durations: in seconds the     *)
(* product is b * BackoffMul * NsPerSecond, then capped at backoffMax.      *)
NextBackoff(b) ==
    IF b < BackoffMax
    THEN IF b * BackoffMul * NsPerSecond > BackoffMax
         THEN BackoffMax ELSE b * BackoffMul * NsPerSecond
    ELSE b

(* Entering compactionTransact: n, backoff and lastCnt start afresh.       *)
NewTransact(w) ==
    /\ n' = [n EXCEPT ![w] = 0]
    /\ backoff' = [backoff EXCEPT ![w] = BackoffMin]
    /\ lastCnt' = [lastCnt EXCEPT ![w] = 0]
    /\ pc' = [pc EXCEPT ![w] = "top"]

(* Storage after a build attempt: the attempt created its file; on error   *)
(* the run's deferred cleanup removes every table it added.                *)
BuildStor(w, r) ==
    LET f == AttemptFile(w)
    IN IF r = "ok" THEN stor \cup {f} ELSE (stor \cup {f}) \ {f}

(* compactionExitTransact: the panic runs compactionTransact's recover,    *)
(* which calls t.revert() (the build's revert removes rec.addedTables; the *)
(* commit has none), then compactionCommit's deferred Unlock, then the     *)
(* worker's recover, which ends the goroutine.                             *)
Exit(w) ==
    /\ stor' = IF phase[w] = "build" THEN stor \ added[w] ELSE stor
    /\ commitLk' = IF commitLk = w THEN None ELSE commitLk
    /\ pc' = [pc EXCEPT ![w] = "done"]

(* compactionTransact returned: after the build the job commits under      *)
(* compCommitLk; after the commit the lock is released and the job ends.   *)
Return(w) ==
    /\ pc' = [pc EXCEPT ![w] = IF phase[w] = "build" THEN "lock" ELSE "next"]
    /\ commitLk' = IF phase[w] = "commit" THEN None ELSE commitLk

-----------------------------------------------------------------------------
(* mCompaction / tCompaction take a command and start a job: memCompaction *)
(* or tableAutoCompaction, whose first step is the build transact.         *)
StartJob(w) ==
    /\ pc[w] = "next"
    /\ job[w] < MaxJobs
    /\ job' = [job EXCEPT ![w] = @ + 1]
    /\ phase' = [phase EXCEPT ![w] = "build"]
    /\ added' = [added EXCEPT ![w] = {}]
    /\ NewTransact(w)
    /\ UNCHANGED <<res, cnt, commitLk, errState, compWriteLocking, writeLock,
                   wpc, closed, closeC, closePc, stor, catalog>>

(* The worker's select sees closeC and returns.                            *)
WorkerReturn(w) ==
    /\ pc[w] = "next"
    /\ closeC
    /\ pc' = [pc EXCEPT ![w] = "done"]
    /\ UNCHANGED <<phase, job, n, res, cnt, lastCnt, backoff, added, commitLk,
                   errState, compWriteLocking, writeLock, wpc, closed, closeC,
                   closePc, stor, catalog>>

(* Top of the retry loop: exit if the DB is closed, else run.              *)
TransactTop(w) ==
    /\ pc[w] = "top"
    /\ \/ /\ closed
          /\ Exit(w)
          /\ UNCHANGED <<phase, job, n, res, cnt, lastCnt, backoff, added,
                         errState, compWriteLocking, writeLock, wpc, closed,
                         closeC, closePc, catalog>>
       \/ /\ ~closed
          /\ pc' = [pc EXCEPT ![w] = "run"]
          /\ UNCHANGED <<phase, job, n, res, cnt, lastCnt, backoff, added,
                         commitLk, errState, compWriteLocking, writeLock, wpc,
                         closed, closeC, closePc, stor, catalog>>

(* err := t.run(&cnt).  The build writes the attempt's table (flushMemdb / *)
(* tableCompactionBuilder.run); the commit applies rec to the catalog      *)
(* (s.commit).                                                            *)
Run(w) ==
    /\ pc[w] = "run"
    /\ \E r \in RunResults(w), c \in CntRange(w):
        /\ res' = [res EXCEPT ![w] = r]
        /\ cnt' = [cnt EXCEPT ![w] = c]
        /\ pc' = [pc EXCEPT ![w] = "report"]
        /\ IF phase[w] = "build"
           THEN /\ stor' = BuildStor(w, r)
                /\ added' = [added EXCEPT ![w] =
                                IF r = "ok" THEN @ \cup {AttemptFile(w)} ELSE {}]
                /\ UNCHANGED catalog
           ELSE /\ catalog' = IF r = "ok" THEN catalog \cup added[w] ELSE catalog
                /\ UNCHANGED <<stor, added>>
    /\ UNCHANGED <<phase, job, n, lastCnt, backoff, commitLk, errState,
                   compWriteLocking, writeLock, wpc, closed, closeC, closePc>>

(* After the report: return on success, exit on corruption, otherwise back *)
(* off (resetting backoff when cnt advanced) or, with backoff disabled,     *)
(* go straight round the loop.                                             *)
AfterReport(w) ==
    CASE res[w] = "ok" ->
            /\ Return(w)
            /\ UNCHANGED <<n, lastCnt, backoff, stor>>
      [] res[w] = "corrupt" ->
            /\ Exit(w)
            /\ UNCHANGED <<n, lastCnt, backoff>>
      [] res[w] = "transient" /\ DisableBackoff ->
            /\ pc' = [pc EXCEPT ![w] = "top"]
            /\ n' = [n EXCEPT ![w] = @ + 1]
            /\ UNCHANGED <<lastCnt, backoff, commitLk, stor>>
      [] res[w] = "transient" /\ ~DisableBackoff ->
            LET b == IF cnt[w] > lastCnt[w] THEN BackoffMin ELSE backoff[w]
            IN /\ lastCnt' = [lastCnt EXCEPT ![w] =
                                IF cnt[w] > @ THEN cnt[w] ELSE @]
               /\ backoff' = [backoff EXCEPT ![w] = NextBackoff(b)]
               /\ pc' = [pc EXCEPT ![w] = "backoff"]
               /\ UNCHANGED <<n, commitLk, stor>>

(* select case db.compErrSetC <- err: compactionError, at noerr or haserr, *)
(* receives it and moves to the state the error calls for.                 *)
ReportErr(w) ==
    /\ pc[w] = "report"
    /\ errState \in {"noerr", "haserr"}
    /\ errState' = ErrNext(res[w])
    /\ AfterReport(w)
    /\ UNCHANGED <<phase, job, res, cnt, added, compWriteLocking, writeLock,
                   wpc, closed, closeC, closePc, catalog>>

(* select case perr := <-db.compPerErrC: offered only at hasperr; a failed *)
(* run exits, a successful one carries on as if reported.                  *)
ReportPerErr(w) ==
    /\ pc[w] = "report"
    /\ errState = "hasperr"
    /\ IF res[w] = "ok"
       THEN /\ Return(w)
            /\ UNCHANGED stor
       ELSE Exit(w)
    /\ UNCHANGED <<phase, job, n, res, cnt, lastCnt, backoff, added, errState,
                   compWriteLocking, writeLock, wpc, closed, closeC, closePc,
                   catalog>>

(* select case <-db.closeC: exit, whatever the run returned.               *)
ReportClosed(w) ==
    /\ pc[w] = "report"
    /\ closeC
    /\ Exit(w)
    /\ UNCHANGED <<phase, job, n, res, cnt, lastCnt, backoff, added, errState,
                   compWriteLocking, writeLock, wpc, closed, closeC, closePc,
                   catalog>>

(* The backoff timer fires: the next iteration of the loop.                *)
BackoffFire(w) ==
    /\ pc[w] = "backoff"
    /\ pc' = [pc EXCEPT ![w] = "top"]
    /\ n' = [n EXCEPT ![w] = @ + 1]
    /\ UNCHANGED <<phase, job, res, cnt, lastCnt, backoff, added, commitLk,
                   errState, compWriteLocking, writeLock, wpc, closed, closeC,
                   closePc, stor, catalog>>

(* closeC wins over the backoff timer: exit.                               *)
BackoffClosed(w) ==
    /\ pc[w] = "backoff"
    /\ closeC
    /\ Exit(w)
    /\ UNCHANGED <<phase, job, n, res, cnt, lastCnt, backoff, added, errState,
                   compWriteLocking, writeLock, wpc, closed, closeC, closePc,
                   catalog>>

(* compactionCommit: take compCommitLk, then run the commit transact.      *)
CommitLock(w) ==
    /\ pc[w] = "lock"
    /\ commitLk = None
    /\ commitLk' = w
    /\ phase' = [phase EXCEPT ![w] = "commit"]
    /\ NewTransact(w)
    /\ UNCHANGED <<job, res, cnt, added, errState, compWriteLocking, writeLock,
                   wpc, closed, closeC, closePc, stor, catalog>>

-----------------------------------------------------------------------------
(* compactionError at hasperr: db.writeLockC <- struct{}{} succeeds, so    *)
(* writes no longer pass through.                                          *)
ErrWriteLock ==
    /\ errState = "hasperr"
    /\ writeLock = None
    /\ writeLock' = "errloop"
    /\ compWriteLocking' = TRUE
    /\ UNCHANGED <<workerVars, commitLk, errState, wpc, closed, closeC,
                   closePc, stor, catalog>>

(* compactionError sees closeC: it releases the write lock it holds (or    *)
(* Close would hang) and returns.                                          *)
ErrClose ==
    /\ errState \in {"noerr", "haserr", "hasperr"}
    /\ closeC
    /\ errState' = "exited"
    /\ writeLock' = IF compWriteLocking THEN None ELSE writeLock
    /\ UNCHANGED <<workerVars, commitLk, compWriteLocking, wpc, closed, closeC,
                   closePc, stor, catalog>>

-----------------------------------------------------------------------------
(* A foreground write (db_write.go): wait for writeLockC, or for a         *)
(* persistent error on compPerErrC, or for closeC.  A write begun after   *)
(* the closed flag is set returns ErrClosed at once (db.ok()).             *)
WriteBegin ==
    /\ wpc = "idle"
    /\ ~closed
    /\ wpc' = "waiting"
    /\ UNCHANGED <<workerVars, commitLk, errState, compWriteLocking, writeLock,
                   closed, closeC, closePc, stor, catalog>>

WriteAcquire ==
    /\ wpc = "waiting"
    /\ writeLock = None
    /\ writeLock' = "writer"
    /\ wpc' = "holding"
    /\ UNCHANGED <<workerVars, commitLk, errState, compWriteLocking, closed,
                   closeC, closePc, stor, catalog>>

WritePerErr ==
    /\ wpc = "waiting"
    /\ errState = "hasperr"
    /\ wpc' = "idle"
    /\ UNCHANGED <<workerVars, commitLk, errState, compWriteLocking, writeLock,
                   closed, closeC, closePc, stor, catalog>>

WriteClosed ==
    /\ wpc = "waiting"
    /\ closeC
    /\ wpc' = "idle"
    /\ UNCHANGED <<workerVars, commitLk, errState, compWriteLocking, writeLock,
                   closed, closeC, closePc, stor, catalog>>

WriteRelease ==
    /\ wpc = "holding"
    /\ writeLock' = None
    /\ wpc' = "idle"
    /\ UNCHANGED <<workerVars, commitLk, errState, compWriteLocking, closed,
                   closeC, closePc, stor, catalog>>

-----------------------------------------------------------------------------
(* DB.Close (db.go): set the closed flag, close closeC, take the write     *)
(* lock, wait for both workers to end.                                     *)
CloseBegin ==
    /\ closePc = "open"
    /\ closePc' = "flagged"
    /\ closed' = TRUE
    /\ UNCHANGED <<workerVars, commitLk, errState, compWriteLocking, writeLock,
                   wpc, closeC, stor, catalog>>

CloseSignal ==
    /\ closePc = "flagged"
    /\ closePc' = "signalled"
    /\ closeC' = TRUE
    /\ UNCHANGED <<workerVars, commitLk, errState, compWriteLocking, writeLock,
                   wpc, closed, stor, catalog>>

CloseLock ==
    /\ closePc = "signalled"
    /\ writeLock = None
    /\ writeLock' = "close"
    /\ closePc' = "locked"
    /\ UNCHANGED <<workerVars, commitLk, errState, compWriteLocking, wpc,
                   closed, closeC, stor, catalog>>

CloseWait ==
    /\ closePc = "locked"
    /\ \A w \in Workers : pc[w] = "done"
    /\ closePc' = "done"
    /\ UNCHANGED <<workerVars, commitLk, errState, compWriteLocking, writeLock,
                   wpc, closed, closeC, stor, catalog>>

(* The DB is closed: nothing runs any more.                                *)
Closed ==
    /\ closePc = "done"
    /\ UNCHANGED vars

WorkerNext(w) ==
    \/ StartJob(w) \/ WorkerReturn(w) \/ TransactTop(w) \/ Run(w)
    \/ ReportErr(w) \/ ReportPerErr(w) \/ ReportClosed(w)
    \/ BackoffFire(w) \/ BackoffClosed(w) \/ CommitLock(w)

Next ==
    \/ \E w \in Workers : WorkerNext(w)
    \/ ErrWriteLock \/ ErrClose
    \/ WriteBegin \/ WriteAcquire \/ WritePerErr \/ WriteClosed \/ WriteRelease
    \/ CloseBegin \/ CloseSignal \/ CloseLock \/ CloseWait
    \/ Closed

(* Goroutines that can proceed do: every step but the caller-driven        *)
(* WriteBegin and CloseBegin is weakly fair.  Go picks uniformly among the *)
(* ready cases of a select, so a case that stays ready is eventually taken. *)
Fairness ==
    /\ \A w \in Workers : WF_vars(WorkerNext(w))
    /\ \A w \in Workers : WF_vars(ReportPerErr(w)) /\ WF_vars(ReportClosed(w))
    /\ \A w \in Workers : WF_vars(BackoffClosed(w)) /\ WF_vars(WorkerReturn(w))
    /\ WF_vars(ErrWriteLock) /\ WF_vars(ErrClose)
    /\ WF_vars(WriteAcquire) /\ WF_vars(WritePerErr) /\ WF_vars(WriteClosed)
    /\ WF_vars(WriteRelease)
    /\ WF_vars(CloseSignal) /\ WF_vars(CloseLock) /\ WF_vars(CloseWait)

Spec == Init /\ [][Next]_vars /\ Fairness

-----------------------------------------------------------------------------
(* Every table file the current Version references exists on storage: no  *)
(* revert or failure cleanup removes a file a commit has already applied,  *)
(* whichever of run, report and closeC come in which order.                *)
CatalogOnStorage == catalog \subseteq stor

(* While the DB is open and has no persistent error, every table file not  *)
(* in the catalog belongs to the record of a job still in flight: failed   *)
(* attempts clean up after themselves and no finished job leaks output.    *)
NoLeakWhileOpen ==
    LET inFlight == UNION {added[w] : w \in {v \in Workers : pc[v] \notin {"next", "done"}}}
    IN  \/ stor \ catalog \subseteq inFlight
        \/ closed
        \/ errState = "hasperr"

(* Close returns: neither the error goroutine's write lock nor a worker    *)
(* blocked on compCommitLk keeps DB.Close waiting forever.                 *)
CloseCompletes == closePc = "flagged" ~> closePc = "done"

(* A foreground write blocked on the write lock eventually returns, with   *)
(* the persistent error if compactionError holds the lock.                 *)
WriterReturns == wpc = "waiting" ~> wpc # "waiting"

(* Section 7 of the spec: after a persistent error, compaction attempts     *)
(* must fail, so the catalog no longer changes.                            *)
NoCommitAfterPersistentError ==
    [][errState = "hasperr" => catalog' = catalog]_vars

CappedBackoff(d) == IF d > BackoffMax THEN BackoffMax ELSE d

(* Section 4.5 of the spec: the backoff grows exponentially between a floor *)
(* and a ceiling: each retry at most doubles it.                           *)
BackoffExponential ==
    [][\A w \in Workers :
         backoff'[w] # backoff[w] =>
             backoff'[w] \in {BackoffMin, CappedBackoff(2 * backoff[w]),
                              CappedBackoff(2 * BackoffMin)}]_vars
=============================================================================
