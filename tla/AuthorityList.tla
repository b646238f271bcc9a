--------------------------- MODULE AuthorityList ---------------------------
(***************************************************************************)
(* What the Authority contract promises its callers (the comments of       *)
(* authority.go and its test): an ordered list of block-proposer           *)
(* candidates.  Add appends a node master that has no record; Revoke takes *)
(* a listed candidate off the list, keeping its record unlisted and        *)
(* inactive; Update sets the activity of a listed candidate.  Each call    *)
(* reports whether it did anything.                                        *)
(***************************************************************************)
EXTENDS Naturals, Sequences, SequencesExt

CONSTANTS Masters, Endorsors, Identities, NoRecord

VARIABLES list, rec, ret, last   \* last: the call that returned ret

Record == [endorsor : Endorsors, identity : Identities, active : BOOLEAN]

Listed(m) == m \in ToSet(list)

Init == list = <<>> /\ rec = [m \in Masters |-> NoRecord] /\ ret = NoRecord /\ last = NoRecord

Add(m, e, id) ==
    /\ last' = [op |-> "add", m |-> m]
    /\ IF rec[m] = NoRecord
       THEN /\ list' = Append(list, m)
            /\ rec' = [rec EXCEPT ![m] = [endorsor |-> e, identity |-> id, active |-> TRUE]]
            /\ ret' = TRUE
       ELSE UNCHANGED <<list, rec>> /\ ret' = FALSE

Revoke(m) ==
    /\ last' = [op |-> "revoke", m |-> m]
    /\ IF Listed(m)
       THEN /\ list' = SelectSeq(list, LAMBDA x : x # m)
            /\ rec' = [rec EXCEPT ![m].active = FALSE]
            /\ ret' = TRUE
       ELSE UNCHANGED <<list, rec>> /\ ret' = FALSE

Update(m, a) ==
    /\ last' = [op |-> "update", m |-> m]
    /\ IF Listed(m)
       THEN rec' = [rec EXCEPT ![m].active = a] /\ ret' = TRUE /\ UNCHANGED list
       ELSE UNCHANGED <<list, rec>> /\ ret' = FALSE

Next ==
    \E m \in Masters :
        \/ \E e \in Endorsors, id \in Identities : Add(m, e, id)
        \/ Revoke(m)
        \/ \E a \in BOOLEAN : Update(m, a)

Spec == Init /\ [][Next]_<<list, rec, ret, last>>
=============================================================================
