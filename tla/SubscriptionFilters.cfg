\* Two addresses and two topic words, so a set field can match or not;
\* events of every length 0..4 (LOG0..LOG4), so each topic position is
\* compared against events that have it and events too short for it.
SPECIFICATION Spec
CONSTANTS
    a1 = a1  a2 = a2  w1 = w1  w2 = w2
    Addrs = {a1, a2}
    Words = {w1, w2}
    MaxTopics = 4
    Nil = Nil
INVARIANTS
    MatchIsForgetting
