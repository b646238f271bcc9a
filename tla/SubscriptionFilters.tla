------------------------- MODULE SubscriptionFilters -------------------------
(***************************************************************************)
(* The filters of the subscriptions API (src/api/subscriptions/types.go):  *)
(* EventFilter.Match and TransferFilter.Match decide which events and      *)
(* transfers a websocket subscriber is sent.  A filter field left nil      *)
(* (Nil here) matches anything; a set field must equal the item's.  An    *)
(* EventFilter has five topic fields, Topic0..Topic4, compared with the    *)
(* event's topics by position; an event has as many topics as the LOGn     *)
(* that emitted it, so a set TopicK needs an event with more than K topics.*)
(*                                                                         *)
(* The subscription that holds a filter and reads events and transfers     *)
(* from the chain is not in src/: here a subscription keeps the filter it  *)
(* was opened with and is handed one item after another.                   *)
(***************************************************************************)
EXTENDS Naturals, Sequences, SequencesExt

CONSTANTS
    Addrs,       \* workshare.Address values
    Words,       \* workshare.Bytes32 values (topics)
    MaxTopics,   \* topics an event may carry (LOG0..LOG4)
    Nil          \* a nil *Address / *Bytes32 filter field

\* The topic fields of EventFilter, by the index matchTopic is given.
TopicField == <<"topic0", "topic1", "topic2", "topic3", "topic4">>

EventFilters ==
    [address : Addrs \cup {Nil}, topic0 : Words \cup {Nil}, topic1 : Words \cup {Nil},
     topic2 : Words \cup {Nil}, topic3 : Words \cup {Nil}, topic4 : Words \cup {Nil}]

TransferFilters ==
    [txOrigin : Addrs \cup {Nil}, sender : Addrs \cup {Nil}, recipient : Addrs \cup {Nil}]

\* tx.Event and tx.Transfer, with the origin of the transfer's transaction.
Events == [address : Addrs, topics : BoundedSeq(Words, MaxTopics)]
Transfers == [sender : Addrs, recipient : Addrs, origin : Addrs]

----------------------------------------------------------------------------
(* Fault variants of the definitions below, each a plausible slip.        *)
MatchTopicShortIsWildcard(event, topic, index) ==
    \/ topic = Nil
    \/ Len(event.topics) <= index
    \/ event.topics[index + 1] = topic

----------------------------------------------------------------------------
\* matchTopic: a nil topic matches; a set one needs a topic at that index
\* (0-based) equal to it.
MatchTopic(event, topic, index) ==
    \/ topic = Nil
    \/ /\ Len(event.topics) > index
       /\ event.topics[index + 1] = topic

\* EventFilter.Match: the contract address, then Topic0..Topic4.
EventMatch(ef, event) ==
    /\ ef.address = Nil \/ ef.address = event.address
    /\ \A i \in 0..4 : MatchTopic(event, ef[TopicField[i + 1]], i)

\* TransferFilter.Match: the transaction's origin, the sender, the recipient.
TransferMatch(tf, transfer, origin) ==
    /\ tf.txOrigin = Nil \/ tf.txOrigin = origin
    /\ tf.sender = Nil \/ tf.sender = transfer.sender
    /\ tf.recipient = Nil \/ tf.recipient = transfer.recipient

----------------------------------------------------------------------------
(* A subscription, event or transfer, and the last item it was handed.     *)
VARIABLES
    sub,       \* [kind, filter]: the filter the subscription was opened with
    item,      \* the last event or transfer, or Nil
    matched    \* whether Match let it through

vars == <<sub, item, matched>>

Init ==
    /\ sub \in {[kind |-> "event", filter |-> ef] : ef \in EventFilters}
               \cup {[kind |-> "transfer", filter |-> tf] : tf \in TransferFilters}
    /\ item = Nil
    /\ matched = FALSE

EventArrives ==
    /\ sub.kind = "event"
    /\ \E ev \in Events :
          /\ item' = ev
          /\ matched' = EventMatch(sub.filter, ev)
    /\ UNCHANGED sub

TransferArrives ==
    /\ sub.kind = "transfer"
    /\ \E tr \in Transfers :
          /\ item' = tr
          /\ matched' = TransferMatch(sub.filter, tr, tr.origin)
    /\ UNCHANGED sub

Next == EventArrives \/ TransferArrives

Spec == Init /\ [][Next]_vars

----------------------------------------------------------------------------
(* Properties                                                              *)

\* The filters an item passes, as a reference: take the filter that names
\* every field of the item exactly (a topic position the item lacks stays
\* unset, since nothing can equal it) and forget any set of its fields.
Forgetting(exact) ==
    {[f \in DOMAIN exact |-> IF f \in F THEN Nil ELSE exact[f]] : F \in SUBSET DOMAIN exact}

ExactEventFilter(ev) ==
    [f \in {"address"} \cup Range(TopicField) |->
        IF f = "address" THEN ev.address
        ELSE LET i == CHOOSE j \in 0..4 : TopicField[j + 1] = f
             IN  IF i < Len(ev.topics) THEN ev.topics[i + 1] ELSE Nil]

ExactTransferFilter(tr) ==
    [txOrigin |-> tr.origin, sender |-> tr.sender, recipient |-> tr.recipient]

\* EventFilter.Match and TransferFilter.Match let an item through exactly
\* when the subscription's filter is one of the item's forgettings: the
\* positional topic comparison, including an event with fewer topics than
\* the filter sets, agrees with this definition for every filter and item.
MatchIsForgetting ==
    item # Nil =>
        matched = (sub.filter \in Forgetting(IF sub.kind = "event" THEN ExactEventFilter(item)
                                                                   ELSE ExactTransferFilter(item)))
=============================================================================
