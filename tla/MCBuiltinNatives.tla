-------------------------- MODULE MCBuiltinNatives --------------------------
(* Thor's gas prices; uint32 stands in for a modulus TLC's integers hold.  *)
EXTENDS BuiltinNatives

MCUInt32 == 2^30
MCNumbers == {0, 1, 65535, 65536, 2^30 - 1}
====
