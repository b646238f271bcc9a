-------------------------- MODULE CandidatesCache --------------------------
(***************************************************************************)
(* The PoA Candidates object (src/unnamed/part_009, package poa): a list   *)
(* of candidate pointers shared between copies, made safe by copy on       *)
(* write.  Copy marks the object referenced and copies the struct, so both *)
(* objects share the backing array; the first Update of a referenced       *)
(* object clones the array before replacing one element.                   *)
(*                                                                         *)
(* A backing array is an id in ArrayIds holding a sequence of candidates;  *)
(* a candidate struct is never mutated in place (Update stores a pointer   *)
(* to a modified copy), so array elements are values.  The masters map and *)
(* the satisfied slice are never written in place either.  Handles are the *)
(* Candidates objects alive at once, in consensus's LRU cache and in the   *)
(* block being validated.                                                  *)
(***************************************************************************)
EXTENDS Naturals, Sequences

CONSTANTS
    Handles,            \* Candidates objects
    ArrayIds,           \* backing arrays
    Masters,            \* node masters
    InitLists,          \* lists AllCandidates may return
    Endorsed,           \* masters whose endorsor's balance covers the endorsement
    MaxBlockProposers,  \* workshare.MaxBlockProposers
    Nil

VARIABLES
    arr,         \* backing array id -> sequence of candidates
    list,        \* handle -> the array its list slice points to, or Nil
    masters,     \* handle -> (master -> index, 0 when absent)
    referenced,  \* handle -> c.referenced
    satisfied    \* handle -> c.satisfied

vars == <<arr, list, masters, referenced, satisfied>>

Candidate == [master : Masters, active : BOOLEAN]


\* Arrays no object points to (garbage, or never allocated) are empty.
Free == {a \in ArrayIds : \A h \in Handles : list[h] # a}

\* Another live object shares h's array.
Shared(h) == \E g \in Handles \ {h} : list[g] = list[h]

Init ==
    /\ arr = [a \in ArrayIds |-> <<>>]
    /\ list = [h \in Handles |-> Nil]
    /\ masters = [h \in Handles |-> [m \in Masters |-> 0]]
    /\ referenced = [h \in Handles |-> FALSE]
    /\ satisfied = [h \in Handles |-> <<>>]
----------------------------------------------------------------------------
(* Fault variants of the definitions below, each a plausible slip.        *)
CopyThenMark(h, h2) ==
    /\ list[h] # Nil /\ list[h2] = Nil
    /\ list' = [list EXCEPT ![h2] = list[h]]
    /\ masters' = [masters EXCEPT ![h2] = masters[h]]
    /\ referenced' = [referenced EXCEPT ![h] = TRUE, ![h2] = referenced[h]]
    /\ satisfied' = [satisfied EXCEPT ![h2] = satisfied[h]]
    /\ UNCHANGED arr
UpdateInPlace(h, m, act) ==
    /\ list[h] # Nil
    /\ LET i == masters[h][m]
       IN  \/ i = 0 /\ UNCHANGED vars
           \/ /\ i # 0
              /\ arr' = [arr EXCEPT ![list[h]][i].active = act]
              /\ UNCHANGED <<list, masters, referenced, satisfied>>
NewCandidatesOffByOne(h, l) ==
    /\ list[h] = Nil /\ Free # {}
    /\ \E a \in Free :
          /\ arr' = [arr EXCEPT ![a] = l]
          /\ list' = [list EXCEPT ![h] = a]
    /\ masters' = [masters EXCEPT ![h] = [m \in Masters |->
                      IF \E i \in DOMAIN l : l[i].master = m
                      THEN (CHOOSE i \in DOMAIN l : l[i].master = m /\
                                \A j \in DOMAIN l : l[j].master = m => j <= i) - 1
                      ELSE 0]]
    /\ referenced' = [referenced EXCEPT ![h] = FALSE]
    /\ satisfied' = [satisfied EXCEPT ![h] = <<>>]
----------------------------------------------------------------------------
\* NewCandidates(list): index the masters (a later index of the same master
\* overwrites an earlier one); not referenced, no cache.
NewCandidates(h, l) ==
    /\ list[h] = Nil /\ Free # {}
    /\ \E a \in Free :
          /\ arr' = [arr EXCEPT ![a] = l]
          /\ list' = [list EXCEPT ![h] = a]
    /\ masters' = [masters EXCEPT ![h] = [m \in Masters |->
                      IF \E i \in DOMAIN l : l[i].master = m
                      THEN CHOOSE i \in DOMAIN l : l[i].master = m /\
                               \A j \in DOMAIN l : l[j].master = m => j <= i
                      ELSE 0]]
    /\ referenced' = [referenced EXCEPT ![h] = FALSE]
    /\ satisfied' = [satisfied EXCEPT ![h] = <<>>]

\* Copy: c.referenced = true, then the struct (referenced included) is
\* copied into the new object.
Copy(h, h2) ==
    /\ list[h] # Nil /\ list[h2] = Nil
    /\ list' = [list EXCEPT ![h2] = list[h]]
    /\ masters' = [masters EXCEPT ![h2] = masters[h]]
    /\ referenced' = [referenced EXCEPT ![h] = TRUE, ![h2] = TRUE]
    /\ satisfied' = [satisfied EXCEPT ![h2] = satisfied[h]]
    /\ UNCHANGED arr

\* Pick: re-pick when the cache is empty, walking the list until
\* MaxBlockProposers satisfied candidates are found; the proposers are
\* read from the list.
Pick(h) ==
    /\ list[h] # Nil
    /\ satisfied[h] = <<>>
    /\ LET l == arr[list[h]]
           idx == SelectSeq([i \in 1..Len(l) |-> i], LAMBDA i : l[i].master \in Endorsed)
       IN  satisfied' = [satisfied EXCEPT ![h] =
                           SubSeq(idx, 1, IF Len(idx) < MaxBlockProposers THEN Len(idx)
                                          ELSE MaxBlockProposers)]
    /\ UNCHANGED <<arr, list, masters, referenced>>

\* Pick with a cached result only reads.
PickCached(h) ==
    /\ list[h] # Nil /\ satisfied[h] # <<>>
    /\ UNCHANGED vars

\* Update: a master of the list gets a modified copy of its candidate; a
\* referenced object first clones its backing array.
Update(h, m, act) ==
    /\ list[h] # Nil
    /\ LET i == masters[h][m]
       IN  \/ i = 0 /\ UNCHANGED vars
           \/ /\ i # 0 /\ ~referenced[h]
              /\ arr' = [arr EXCEPT ![list[h]][i].active = act]
              /\ UNCHANGED <<list, masters, referenced, satisfied>>
           \/ /\ i # 0 /\ referenced[h] /\ Free # {}
              /\ \E a \in Free :
                    /\ arr' = [arr EXCEPT ![a] = [arr[list[h]] EXCEPT ![i].active = act],
                                          ![list[h]] = IF Shared(h) THEN @ ELSE <<>>]
                    /\ list' = [list EXCEPT ![h] = a]
              /\ referenced' = [referenced EXCEPT ![h] = FALSE]
              /\ UNCHANGED <<masters, satisfied>>

\* InvalidateCache: c.satisfied = nil.
InvalidateCache(h) ==
    /\ list[h] # Nil
    /\ satisfied' = [satisfied EXCEPT ![h] = <<>>]
    /\ UNCHANGED <<arr, list, masters, referenced>>

\* The object is evicted from consensus's candidates LRU or dropped after
\* validation, and becomes garbage; so does its array once no object
\* points to it.
Drop(h) ==
    /\ list[h] # Nil
    /\ list' = [list EXCEPT ![h] = Nil]
    /\ arr' = IF Shared(h) THEN arr ELSE [arr EXCEPT ![list[h]] = <<>>]
    /\ masters' = [masters EXCEPT ![h] = [m \in Masters |-> 0]]
    /\ referenced' = [referenced EXCEPT ![h] = FALSE]
    /\ satisfied' = [satisfied EXCEPT ![h] = <<>>]

Next ==
    \E h \in Handles :
        \/ \E l \in InitLists : NewCandidates(h, l)
        \/ \E h2 \in Handles : Copy(h, h2)
        \/ \E m \in Masters, act \in BOOLEAN : Update(h, m, act)
        \/ Pick(h) \/ PickCached(h) \/ InvalidateCache(h) \/ Drop(h)

Spec == Init /\ [][Next]_vars
----------------------------------------------------------------------------
(* Properties                                                              *)

\* The state has its types, and the masters index of every live object,
\* built once by NewCandidates and shared by its copies, still points at
\* that master's entry after copies and copy-on-write updates.
TypeOK ==
    /\ arr \in [ArrayIds -> Seq(Candidate)]
    /\ list \in [Handles -> ArrayIds \cup {Nil}]
    /\ masters \in [Handles -> [Masters -> Nat]]
    /\ referenced \in [Handles -> BOOLEAN]
    /\ satisfied \in [Handles -> Seq(Nat)]
    /\ \A h \in Handles, m \in Masters :
          list[h] # Nil /\ masters[h][m] # 0 =>
              masters[h][m] \in DOMAIN arr[list[h]] /\ arr[list[h]][masters[h][m]].master = m

\* Two live objects that share a backing array are both marked referenced,
\* so neither writes the shared array (Copy marks before it copies).
SharedArraysReferenced ==
    \A h, g \in Handles :
        h # g /\ list[h] # Nil /\ list[h] = list[g] => referenced[h] /\ referenced[g]

\* Copy on write refines value semantics: each object behaves as its own
\* list, whatever the other objects do.
Value == INSTANCE CandidatesValue WITH
    val <- [h \in Handles |-> IF list[h] = Nil THEN Nil ELSE arr[list[h]]],
    sat <- satisfied

RefinesCandidatesValue == Value!Spec
=============================================================================
