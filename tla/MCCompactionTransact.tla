------------------------ MODULE MCCompactionTransact ------------------------
(* Model-checking instance of CompactionTransact: time.Second is 10^9 ns;  *)
(* NsPerSecond only has to exceed BackoffMax / (BackoffMin * BackoffMul)   *)
(* for the product to overflow the cap as it does in Go, and 1000 keeps    *)
(* TLC's integers in range.                                               *)
EXTENDS CompactionTransact

MCNone == "none"
=============================================================================
