-------------------------- MODULE CandidatesValue --------------------------
(***************************************************************************)
(* What the PoA Candidates object promises (poa/candidates.go comments):   *)
(* each Candidates value is its own list.  Copy makes an independent copy; *)
(* Update changes the activity of one master in this value only; Pick      *)
(* caches the indices of the candidates whose endorsement is satisfied,    *)
(* until InvalidateCache.                                                  *)
(***************************************************************************)
EXTENDS Naturals, Sequences

CONSTANTS Handles, Masters, InitLists, Endorsed, MaxBlockProposers, Nil

VARIABLES val, sat

\* indices of the first MaxBlockProposers candidates whose endorsor is endorsed
Satisfied(l) ==
    LET idx == SelectSeq([i \in 1..Len(l) |-> i], LAMBDA i : l[i].master \in Endorsed)
    IN  SubSeq(idx, 1, IF Len(idx) < MaxBlockProposers THEN Len(idx) ELSE MaxBlockProposers)

Init == val = [h \in Handles |-> Nil] /\ sat = [h \in Handles |-> <<>>]

New(h, l) == val[h] = Nil /\ val' = [val EXCEPT ![h] = l] /\ sat' = [sat EXCEPT ![h] = <<>>]

Copy(h, h2) ==
    /\ val[h] # Nil /\ val[h2] = Nil
    /\ val' = [val EXCEPT ![h2] = val[h]] /\ sat' = [sat EXCEPT ![h2] = sat[h]]

Update(h, m, a) ==
    /\ val[h] # Nil
    /\ val' = [val EXCEPT ![h] = [i \in DOMAIN @ |->
                   IF @[i].master = m THEN [@[i] EXCEPT !.active = a] ELSE @[i]]]
    /\ UNCHANGED sat

Pick(h) ==
    /\ val[h] # Nil
    /\ sat' = [sat EXCEPT ![h] = IF @ = <<>> THEN Satisfied(val[h]) ELSE @]
    /\ UNCHANGED val

Invalidate(h) == val[h] # Nil /\ sat' = [sat EXCEPT ![h] = <<>>] /\ UNCHANGED val

Drop(h) == val[h] # Nil /\ val' = [val EXCEPT ![h] = Nil] /\ sat' = [sat EXCEPT ![h] = <<>>]

Next ==
    \E h \in Handles :
        \/ \E l \in InitLists : New(h, l)
        \/ \E h2 \in Handles : Copy(h, h2)
        \/ \E m \in Masters, a \in BOOLEAN : Update(h, m, a)
        \/ Pick(h) \/ Invalidate(h) \/ Drop(h)

Spec == Init /\ [][Next]_<<val, sat>>
=============================================================================
