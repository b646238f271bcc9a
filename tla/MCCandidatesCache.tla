------------------------- MODULE MCCandidatesCache -------------------------
(* Three objects, four arrays (so a copy on write always finds one free),  *)
(* three masters of which m3 is not a candidate.                          *)
EXTENDS CandidatesCache, TLC

CONSTANTS m1, m2, m3

MCInitLists == {<<[master |-> m1, active |-> TRUE], [master |-> m2, active |-> TRUE]>>}
====
