------------------------ MODULE MCCompactionWorkers ------------------------
(* Model-checking instance of CompactionWorkers: the defaults 4 and 12 of  *)
(* CompactionL0Trigger and WriteL0PauseTrigger scaled to 2 and 3, keeping  *)
(* a level-0 count that needs compaction but does not pause writes.        *)
EXTENDS CompactionWorkers

MCInitL0 == 0..PauseTrigger
=============================================================================
