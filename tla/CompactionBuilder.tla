------------------------- MODULE CompactionBuilder -------------------------
(***************************************************************************)
(* The table-compaction build of goleveldb (db_compaction.go,              *)
(* tableCompactionBuilder.run and writeLoop, and the cursors of the        *)
(* compaction object in session_compaction.go: shouldStopBefore,           *)
(* baseLevelForKey, save and restore).                                     *)
(*                                                                         *)
(* The input of a compaction is the merged, sorted sequence of internal    *)
(* keys of the level-L and level-L+1 tables.  The run loop decodes each    *)
(* key, decides whether it is obsolete, computes the "can stop" and        *)
(* "should stop" flags and hands surviving entries to the writer, which    *)
(* rotates output tables.  The cursors (grandparent index, overlapped      *)
(* bytes, per-level table pointers, skip index) live in the compaction     *)
(* object and survive a failed attempt; each attempt starts by restoring   *)
(* them from the snapshot taken when the compaction was created.          *)
(*                                                                         *)
(* The run loop and the writer run in two goroutines connected by a        *)
(* channel, but the flags travel with each entry, so the tables written    *)
(* are a function of the input; one attempt is therefore one step, a fold *)
(* of the loop body over the input.  A failed attempt is the same fold     *)
(* stopped at some entry: the cursors have moved, the outputs are removed. *)
(***************************************************************************)
EXTENDS Naturals, Sequences, SequencesExt, FiniteSets

CONSTANTS
    UKeys,          \* user keys, ordered as numbers
    MaxSeq,         \* the largest sequence number of an input entry
    Kinds,          \* key kinds an input may hold: "put", "del", "bad"
    MinSeqs,        \* the values db.minSeq() may have when the build starts
    SkipChoices,    \* candidate skip lists left by compaction.reduce
    DeepChoices,    \* candidate levels L+2, L+3, ... (sequences of tables)
    OPrefixKeys,    \* user keys carrying the overflow prefix ({} = none)
    TableSize,      \* b.tableSize, counted in entries
    MaxGPOverlaps,  \* c.maxGPOverlaps, in table sizes
    Strict,         \* opt.StrictCompaction
    MaxFailures     \* bound on failed attempts of one build

\* keyMaxSeq: larger than every sequence number in use.
KeyMaxSeq == MaxSeq + 1

\* An internal key (ukey, seq, kind); the value of an entry is its seq.
Entry == [uk : UKeys, seq : 1..MaxSeq, kt : Kinds]
Table == [imin : UKeys, imax : UKeys, size : Nat]

\* The internal key order: user key ascending, then sequence descending.
ICmpLess(a, b) == a.uk < b.uk \/ (a.uk = b.uk /\ a.seq > b.seq)

\* Every input a merged iterator can produce: distinct sequence numbers.
Inputs ==
    { SetToSortSeq({[uk |-> f[s][1], seq |-> s, kt |-> f[s][2]] : s \in DOMAIN f},
                   ICmpLess)
      : f \in UNION {[S -> UKeys \X Kinds] : S \in SUBSET (1..MaxSeq)} }

VARIABLES
    entries,    \* the input iterator
    skips,      \* c.skips
    deep,       \* c.v.levels[L+2 ..]
    minSeq,     \* b.minSeq
    cur,        \* the cursors of c
    snap,       \* the snapshot saved by newCompaction
    attempts,   \* failed attempts so far
    pc,         \* "run", "done" or "corrupt"
    out         \* the output tables of the successful attempt

vars == <<entries, skips, deep, minSeq, cur, snap, attempts, pc, out>>

Cursor == [gpi : Nat, seenKey : BOOLEAN, gpOverlappedBytes : Nat,
           tPtrs : Seq(Nat), skipIndex : Nat]

InRange(k, t) == t.imin <= k /\ k <= t.imax

UkeysOf(s) == {s[i].uk : i \in DOMAIN s}

\* c.gp: the tables of level L+2 overlapping the input (expand).
Gp == IF deep = <<>> \/ entries = <<>> THEN <<>>
      ELSE LET lo == entries[1].uk
               hi == entries[Len(entries)].uk
           IN  SelectSeq(deep[1], LAMBDA t : t.imin <= hi /\ lo <= t.imax)

\* A skip list reduce may produce: no input key inside a skipped table and
\* input keys on both sides of it (the first and last table are never
\* skipped).
ValidSkips(e, s) ==
    \A i \in DOMAIN s :
        /\ \A k \in UkeysOf(e) : ~InRange(k, s[i])
        /\ \E k \in UkeysOf(e) : k < s[i].imin
        /\ \E k \in UkeysOf(e) : k > s[i].imax
        /\ i > 1 => s[i-1].imax < s[i].imin

NewCursors == [gpi |-> 1, seenKey |-> FALSE, gpOverlappedBytes |-> 0,
               tPtrs |-> [l \in DOMAIN deep |-> 1], skipIndex |-> 1]

TypeOK ==
    /\ entries \in Seq(Entry)
    /\ skips \in Seq(Table) /\ deep \in Seq(Seq(Table))
    /\ minSeq \in 0..MaxSeq
    /\ cur \in Cursor /\ snap \in Cursor
    /\ attempts \in 0..MaxFailures
    /\ pc \in {"run", "done", "corrupt"}
    /\ out \in Seq(Seq(Entry) \ {<<>>})

\* newCompaction: expand, reduce, then save() (session_compaction.go:166-169).
Init ==
    /\ entries \in Inputs
    /\ skips \in {s \in SkipChoices : ValidSkips(entries, s)}
    /\ deep \in DeepChoices
    /\ minSeq \in MinSeqs
    /\ cur = NewCursors
    /\ snap = cur
    /\ attempts = 0
    /\ pc = "run"
    /\ out = <<>>
----------------------------------------------------------------------------
(* Fault variants of the definitions below, each a plausible slip.        *)
RestoreNothing == cur
PrefixBoundaryNever(acc, first, hasOP) == FALSE
EmitAnywhere(acc, e, canStop, shouldStop) ==
    IF acc.tw # <<>> /\ (shouldStop \/ Len(acc.tw) >= TableSize)
    THEN [acc EXCEPT !.tables = Append(@, acc.tw), !.tw = <<e>>]
    ELSE [acc EXCEPT !.tw = Append(@, e)]
FinishAlways(acc) == Append(acc.tables, acc.tw)
----------------------------------------------------------------------------
\* restore(): the cursors are copied back from the snapshot.
Restore == snap

\* first index from i on whose table is not passed by k, or Len(s) + 1
FirstNotBefore(s, i, k) ==
    LET j == SelectInSubSeq(s, i, Len(s), LAMBDA t : k <= t.imax)
    IN  IF j = 0 THEN Len(s) + 1 ELSE j

\* shouldStopBefore(ikey).  A key passes a grandparent when its ukey is
\* beyond gp.imax (whose seq is below every input seq).
ShouldStopBefore(c, k) ==
    LET gpi2  == FirstNotBefore(Gp, c.gpi, k)
        bytes == c.gpOverlappedBytes +
                   IF c.seenKey
                   THEN FoldLeft(LAMBDA a, t : a + t.size, 0, SubSeq(Gp, c.gpi, gpi2 - 1))
                   ELSE 0
        gpStop == bytes > MaxGPOverlaps
        skip2 == LET j == SelectInSubSeq(skips, c.skipIndex, Len(skips),
                                         LAMBDA t : k < t.imin)
                 IN  IF j = 0 THEN Len(skips) + 1 ELSE j
    IN  [cur  |-> [c EXCEPT !.gpi = gpi2, !.seenKey = TRUE,
                            !.gpOverlappedBytes = IF gpStop THEN 0 ELSE bytes,
                            !.skipIndex = skip2],
         stop |-> gpStop \/ skip2 > c.skipIndex]

\* baseLevelForKey(ukey): walk the levels in order, advancing each level's
\* pointer past the tables that end before k; the first level with a table
\* containing k answers FALSE and the later levels are not visited.
BaseLevelForKey(c, k) ==
    LET visit(acc, l) ==
          IF ~acc.base THEN acc
          ELSE LET p == FirstNotBefore(deep[l], acc.ptrs[l], k)
               IN  [ptrs |-> [acc.ptrs EXCEPT ![l] = p],
                    base |-> ~(p <= Len(deep[l]) /\ InRange(k, deep[l][p]))]
        r == FoldLeft(visit, [ptrs |-> c.tPtrs, base |-> TRUE],
                      [l \in 1..Len(deep) |-> l])
    IN  [cur |-> [c EXCEPT !.tPtrs = r.ptrs], base |-> r.base]
----------------------------------------------------------------------------
(* One attempt.  acc is the state of run's locals, the writer's table and *)
(* the finished tables.                                                   *)
StartAcc(c) == [cur |-> c, hasLast |-> FALSE, lastUk |-> 0, lastSeq |-> KeyMaxSeq,
                lastHasOP |-> FALSE, kerr |-> FALSE, tw |-> <<>>, tables |-> <<>>]

\* writeLoop: rotate when a boundary is allowed and wanted or the table is
\* full, then append.
Emit(acc, e, canStop, shouldStop) ==
    IF acc.tw # <<>> /\ canStop /\ (shouldStop \/ Len(acc.tw) >= TableSize)
    THEN [acc EXCEPT !.tables = Append(@, acc.tw), !.tw = <<e>>]
    ELSE [acc EXCEPT !.tw = Append(@, e)]

\* a new user key whose prefix class differs from the previous one
PrefixBoundary(acc, first, hasOP) == first /\ acc.hasLast /\ hasOP # acc.lastHasOP

\* the body of run's loop for one decodable key
ParsedStep(acc, e) ==
    LET ss     == ShouldStopBefore(acc.cur, e.uk)
        first  == ~acc.hasLast \/ acc.lastUk # e.uk
        hasOP  == e.uk \in OPrefixKeys
        stop   == ss.stop \/ PrefixBoundary(acc, first, hasOP)
        last   == IF first THEN KeyMaxSeq ELSE acc.lastSeq
        caseA  == last <= minSeq
        probe  == ~caseA /\ e.kt = "del" /\ e.seq <= minSeq
        bl     == BaseLevelForKey(ss.cur, e.uk)
        acc2   == [acc EXCEPT !.cur = IF probe THEN bl.cur ELSE ss.cur,
                              !.hasLast = TRUE, !.lastUk = e.uk,
                              !.lastHasOP = IF first THEN hasOP ELSE @,
                              !.lastSeq = e.seq]
    IN  IF caseA \/ (probe /\ bl.base) THEN acc2
        ELSE Emit(acc2, e, first, stop)

\* the body of run's loop: an undecodable key aborts in strict mode and is
\* otherwise kept, forgetting the current user key
Step(acc, e) ==
    IF acc.kerr THEN acc
    ELSE IF e.kt # "bad" THEN ParsedStep(acc, e)
    ELSE IF Strict THEN [acc EXCEPT !.kerr = TRUE]
    ELSE Emit([acc EXCEPT !.hasLast = FALSE, !.lastSeq = KeyMaxSeq], e, FALSE, FALSE)

RunPrefix(p) == FoldLeft(Step, StartAcc(Restore), SubSeq(entries, 1, p))

\* the last table is flushed when the iterator is exhausted
Finish(acc) == IF acc.tw # <<>> THEN Append(acc.tables, acc.tw) ELSE acc.tables
----------------------------------------------------------------------------
\* run returns nil: the tables are recorded as additions.
RunSucceeds ==
    LET acc == RunPrefix(Len(entries))
    IN  /\ pc = "run" /\ ~acc.kerr
        /\ cur' = acc.cur /\ out' = Finish(acc) /\ pc' = "done"
        /\ UNCHANGED <<entries, skips, deep, minSeq, snap, attempts>>

\* run, or the writer, fails after the loop has read p entries; the tables
\* are removed, the cursors stay where the loop left them, and the
\* transaction retries.
RunFails ==
    /\ pc = "run" /\ attempts < MaxFailures
    /\ \E p \in 0..Len(entries) :
          LET acc == RunPrefix(p)
          IN  /\ ~acc.kerr
              /\ cur' = acc.cur
    /\ attempts' = attempts + 1
    /\ UNCHANGED <<entries, skips, deep, minSeq, snap, pc, out>>

\* strict mode meets an undecodable key: run returns the corruption error,
\* which the transaction treats as persistent.
RunCorrupt ==
    LET acc == RunPrefix(Len(entries))
    IN  /\ pc = "run" /\ acc.kerr
        /\ cur' = acc.cur /\ pc' = "corrupt"
        /\ UNCHANGED <<entries, skips, deep, minSeq, snap, attempts, out>>

\* the build has ended; the compaction commits or exits
Terminated == pc # "run" /\ UNCHANGED vars

Next == RunSucceeds \/ RunFails \/ RunCorrupt \/ Terminated

Spec == Init /\ [][Next]_vars /\ WF_vars(RunSucceeds \/ RunCorrupt)
----------------------------------------------------------------------------
(* Properties                                                              *)

\* The tables of the levels below the output; a table holds every key of
\* its range, written before every input entry (seq 0).
DeepEntries == {[uk |-> k, seq |-> 0, kt |-> "put"] :
                  k \in {k \in UKeys : \E l \in DOMAIN deep :
                                          \E i \in DOMAIN deep[l] : InRange(k, deep[l][i])}}

\* A read of k at snapshot s: the newest decodable entry of k at or below s.
Read(E, k, s) ==
    LET vis == {e \in E : e.uk = k /\ e.kt # "bad" /\ e.seq <= s}
        top == CHOOSE e \in vis : \A f \in vis : f.seq <= e.seq
    IN  IF vis = {} \/ top.kt = "del" THEN -1 ELSE top.seq

AsSet(s) == {s[i] : i \in DOMAIN s}
OutEntries == UNION {AsSet(out[i]) : i \in DOMAIN out}

\* Dropping superseded entries and obsolete deletion markers (run, the
\* switch on lastSeq and baseLevelForKey) never changes what a read at any
\* live snapshot returns, across the output and the deeper levels.
ReadEquivalence ==
    pc = "done" =>
        \A k \in UKeys, s \in minSeq..MaxSeq :
            Read(OutEntries \cup DeepEntries, k, s) = Read(AsSet(entries) \cup DeepEntries, k, s)

DecodableUkeys(t) == {t[i].uk : i \in {i \in DOMAIN t : t[i].kt # "bad"}}

\* No user key hops across two output tables (canStop is set only on the
\* first occurrence of a user key), so the new level L+1 tables are disjoint.
OutputTablesDisjoint ==
    pc = "done" =>
        \A i, j \in DOMAIN out : i < j => DecodableUkeys(out[i]) \cap DecodableUkeys(out[j]) = {}

\* No output table overlaps a level-L+1 table that reduce left in place:
\* shouldStopBefore's skip crossing must split the output there.
OutputsAvoidSkips ==
    pc = "done" =>
        \A i \in DOMAIN out, j \in DOMAIN skips :
            out[i][Len(out[i])].uk < skips[j].imin \/ skips[j].imax < out[i][1].uk

\* Prefixed and non-prefixed user keys never share an output table.
PrefixNotMixed ==
    pc = "done" =>
        \A i \in DOMAIN out :
            DecodableUkeys(out[i]) \subseteq OPrefixKeys
            \/ DecodableUkeys(out[i]) \cap OPrefixKeys = {}

\* With db.minSeq() = 0 no entry is obsolete and run drops nothing; then the
\* stop shouldStopBefore returns at a skip crossing always reaches the
\* writer, on the first attempt and after restore.
AvoidsSkipsWithoutDrops == minSeq = 0 => OutputsAvoidSkips

\* With nothing dropped (db.minSeq() = 0), the overflow-prefix boundary of
\* run (lastHasOPrefix) always splits the output tables.
PrefixKeptWithoutDrops == minSeq = 0 => PrefixNotMixed

=============================================================================
