---------------------------- MODULE MCAuthority ----------------------------
(* Three node masters, two endorsors with different balances.             *)
EXTENDS Authority, TLC

CONSTANTS e1, e2

MCBalance == [e \in Endorsors \cup {ZeroAddress} |->
                 IF e = e1 THEN 10 ELSE IF e = e2 THEN 20 ELSE 0]
\* The node masters are interchangeable: nothing orders them.
MCSymmetry == Permutations(Masters)
====
