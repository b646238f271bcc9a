------------------------------ MODULE Authority ------------------------------
(***************************************************************************)
(* The Authority native contract (consensus/builtin/authority): the        *)
(* block-proposer candidates kept as a doubly linked list in contract      *)
(* storage.  Each node master's storage slot holds an entry (endorsor,     *)
(* identity, active, prev, next); two more slots hold the head and tail    *)
(* pointers.  An entry equal to the empty entry is stored as nothing, so   *)
(* reading an absent slot yields the empty entry.                          *)
(*                                                                         *)
(* Every method runs inside one transaction of one block: methods never    *)
(* interleave, so each is one atomic action.  A storage error panics the   *)
(* native call and is not modelled.                                        *)
(***************************************************************************)
EXTENDS Naturals, Sequences, SequencesExt

CONSTANTS
    Masters,        \* node master addresses
    Endorsors,      \* endorsor addresses
    Identities,     \* identity hashes
    ZeroAddress,    \* workshare.Address{}
    ZeroIdentity,   \* workshare.Bytes32{}
    Nil,            \* a nil *Address
    Balance,        \* the endorsors' balances (state.GetBalance)
    Endorsements,   \* values of the proposer-endorsement parameter
    Limits          \* values of the limit argument of Candidates

VARIABLES
    entry,  \* storage: node master -> entry
    head,   \* storage slot headKey
    tail,   \* storage slot tailKey
    ret,    \* what the last call returned (Nil before any call)
    last    \* that call: [op, m]

vars == <<entry, head, tail, ret, last>>

Ptr == Masters \cup {Nil}
Entry == [endorsor : Endorsors \cup {ZeroAddress}, identity : Identities \cup {ZeroIdentity},
          active : BOOLEAN, prev : Ptr, next : Ptr]

EmptyEntry == [endorsor |-> ZeroAddress, identity |-> ZeroIdentity, active |-> FALSE,
               prev |-> Nil, next |-> Nil]

\* entry.IsEmpty and entry.IsLinked
IsEmpty(en) == en = EmptyEntry
IsLinked(en) == en.prev # Nil \/ en.next # Nil


Init ==
    /\ entry = [m \in Masters |-> EmptyEntry]
    /\ head = Nil /\ tail = Nil
    /\ ret = Nil /\ last = Nil
----------------------------------------------------------------------------
(* Fault variants of the definitions below, each a plausible slip.        *)
NativeFirstNoZero == head
RECURSIVE CandidatesPastLimit(_, _, _, _, _)
CandidatesPastLimit(p, endorsement, limit, acc, fuel) ==
    IF p = Nil \/ Len(acc) > limit \/ fuel = 0 THEN acc
    ELSE CandidatesPastLimit(entry[p].next, endorsement, limit,
                        IF Balance[entry[p].endorsor] >= endorsement THEN Append(acc, p) ELSE acc,
                        fuel - 1)
GetNoHeadCheck(m) ==
    [listed |-> IsLinked(entry[m]), endorsor |-> entry[m].endorsor,
     identity |-> entry[m].identity, active |-> entry[m].active]
RevokeNoRelinkNext(m) ==
    LET en == entry[m]
        e1 == IF en.prev = Nil THEN entry ELSE [entry EXCEPT ![en.prev].next = en.next]
    IN  \/ /\ ~IsLinked(en)
           /\ ret' = FALSE /\ UNCHANGED <<entry, head, tail>>
        \/ /\ IsLinked(en)
           /\ head' = IF en.prev = Nil THEN en.next ELSE head
           /\ tail' = IF en.next = Nil THEN en.prev ELSE tail
           /\ entry' = [e1 EXCEPT ![m] = [en EXCEPT !.next = Nil, !.prev = Nil, !.active = FALSE]]
           /\ ret' = TRUE
----------------------------------------------------------------------------
\* Get: a linked entry is listed; an unlinked one only if it is the head
\* (the sole candidate has neither prev nor next).
Get(m) ==
    [listed   |-> IsLinked(entry[m]) \/ (head # Nil /\ head = m),
     endorsor |-> entry[m].endorsor, identity |-> entry[m].identity,
     active   |-> entry[m].active]

\* AllCandidates: follow next from the head.  The walk gives up after
\* more steps than there are masters, where the Go loop would not end.
RECURSIVE WalkFrom(_, _)
WalkFrom(p, fuel) ==
    IF p = Nil \/ fuel = 0 THEN <<>> ELSE <<p>> \o WalkFrom(entry[p].next, fuel - 1)

AllCandidates == WalkFrom(head, Cardinality(Masters) + 1)

\* Candidates(endorsement, limit): walk from the head, keeping the
\* candidates whose endorsor holds at least the endorsement, until limit
\* of them are found.
RECURSIVE CandidatesFrom(_, _, _, _, _)
CandidatesFrom(p, endorsement, limit, acc, fuel) ==
    IF p = Nil \/ Len(acc) >= limit \/ fuel = 0 THEN acc
    ELSE CandidatesFrom(entry[p].next, endorsement, limit,
                        IF Balance[entry[p].endorsor] >= endorsement THEN Append(acc, p) ELSE acc,
                        fuel - 1)

Candidates(endorsement, limit) ==
    CandidatesFrom(head, endorsement, limit, <<>>, Cardinality(Masters) + 1)

\* native_first and native_next return the zero address for nil.
NativeFirst == IF head = Nil THEN ZeroAddress ELSE head
NativeNext(m) == IF entry[m].next = Nil THEN ZeroAddress ELSE entry[m].next

\* native_isEndorsed: listed, and the endorsor's balance covers the
\* endorsement parameter.
NativeIsEndorsed(m, endorsement) ==
    Get(m).listed /\ Balance[Get(m).endorsor] >= endorsement
----------------------------------------------------------------------------
\* Add: refused unless the slot is empty; the new entry, active, is linked
\* after the tail (or becomes the head of an empty list).
Add(m, e, id) ==
    LET en == entry[m]
        new == [en EXCEPT !.endorsor = e, !.identity = id, !.active = TRUE, !.prev = tail]
    IN  \/ /\ ~IsEmpty(en)
           /\ ret' = FALSE /\ UNCHANGED <<entry, head, tail>>
        \/ /\ IsEmpty(en)
           /\ tail' = m
           /\ head' = IF tail = Nil THEN m ELSE head
           /\ entry' = IF tail = Nil THEN [entry EXCEPT ![m] = new]
                       ELSE [entry EXCEPT ![tail].next = m, ![m] = new]
           /\ ret' = TRUE

\* Revoke: refused unless the entry is linked; the neighbours (or the head
\* and tail slots) are relinked and the entry, as read at the start, is
\* stored unlinked and inactive.
Revoke(m) ==
    LET en == entry[m]
        e1 == IF en.prev = Nil THEN entry ELSE [entry EXCEPT ![en.prev].next = en.next]
        e2 == IF en.next = Nil THEN e1 ELSE [e1 EXCEPT ![en.next].prev = en.prev]
    IN  \/ /\ ~IsLinked(en)
           /\ ret' = FALSE /\ UNCHANGED <<entry, head, tail>>
        \/ /\ IsLinked(en)
           /\ head' = IF en.prev = Nil THEN en.next ELSE head
           /\ tail' = IF en.next = Nil THEN en.prev ELSE tail
           /\ entry' = [e2 EXCEPT ![m] = [en EXCEPT !.next = Nil, !.prev = Nil, !.active = FALSE]]
           /\ ret' = TRUE

\* Update: refused unless the entry is linked.
Update(m, a) ==
    \/ /\ ~IsLinked(entry[m])
       /\ ret' = FALSE /\ UNCHANGED <<entry, head, tail>>
    \/ /\ IsLinked(entry[m])
       /\ entry' = [entry EXCEPT ![m].active = a]
       /\ ret' = TRUE /\ UNCHANGED <<head, tail>>

\* A call of a native method: the method, and which call it was.
Call(op, m, A) == A /\ last' = [op |-> op, m |-> m]

Next ==
    \E m \in Masters :
        \/ \E e \in Endorsors, id \in Identities : Call("add", m, Add(m, e, id))
        \/ Call("revoke", m, Revoke(m))
        \/ \E a \in BOOLEAN : Call("update", m, Update(m, a))

Spec == Init /\ [][Next]_vars
----------------------------------------------------------------------------
(* Properties                                                              *)

\* The state has its types, and the natives that return an address never
\* return nil, which the ABI cannot encode (native_first, native_next).
TypeOK ==
    /\ entry \in [Masters -> Entry]
    /\ head \in Ptr /\ tail \in Ptr
    /\ ret \in BOOLEAN \cup {Nil}
    /\ last \in [op : {"add", "revoke", "update"}, m : Masters] \cup {Nil}
    /\ NativeFirst \in Masters \cup {ZeroAddress}
    /\ \A m \in Masters : NativeNext(m) \in Masters \cup {ZeroAddress}

OnList == ToSet(AllCandidates)

\* The storage is one well-formed doubly linked list after any sequence of
\* Add, Revoke and Update: the walk from the head ends at the tail without
\* repeating a master, each entry's prev is its predecessor on the walk,
\* and an entry off the list links to nothing.
ListWellFormed ==
    LET l == AllCandidates
    IN  /\ Len(l) = Cardinality(OnList)
        /\ (l = <<>>) = (head = Nil)
        /\ (l = <<>>) = (tail = Nil)
        /\ l # <<>> => tail = l[Len(l)] /\ entry[tail].next = Nil
        /\ \A i \in DOMAIN l : entry[l[i]].prev = IF i = 1 THEN Nil ELSE l[i-1]
        /\ \A m \in Masters \ OnList : ~IsLinked(entry[m])

\* Get's "listed" (native_get, native_isEndorsed) agrees with membership of
\* the list that AllCandidates and Candidates walk, the sole candidate
\* included.
GetAgreesWithList ==
    \A m \in Masters : Get(m).listed <=> m \in OnList

\* Candidates(endorsement, limit) is the first limit candidates of the
\* list whose endorsor's balance covers the endorsement, in list order.
CandidatesArePrefix ==
    \A en \in Endorsements, lim \in Limits :
        LET sat == SelectSeq(AllCandidates, LAMBDA m : Balance[entry[m].endorsor] >= en)
        IN  Candidates(en, lim) = SubSeq(sat, 1, IF lim < Len(sat) THEN lim ELSE Len(sat))

\* The implementation refines the abstract list: the walk from the head is
\* the list, a non-empty entry is a record, and each call returns what the
\* abstract call returns.
Abstract == INSTANCE AuthorityList WITH
    list <- AllCandidates,
    rec  <- [m \in Masters |->
               IF IsEmpty(entry[m]) THEN Nil
               ELSE [endorsor |-> entry[m].endorsor, identity |-> entry[m].identity,
                     active |-> entry[m].active]],
    NoRecord <- Nil

RefinesAuthorityList == Abstract!Spec
=============================================================================
