------------------------ MODULE MCCompactionBuilder ------------------------
(* Model values for CompactionBuilder: four user keys 1..4.               *)
EXTENDS CompactionBuilder

T(lo, hi) == [imin |-> lo, imax |-> hi, size |-> 1]

\* No deeper data; one level with a table on key 2; two levels, the
\* second covering 3..4 behind a first-level table on 1.
MCDeep == {<<>>, <<<<T(2, 2)>>>>, <<<<T(1, 1)>>, <<T(3, 4)>>>>}

\* reduce left no table, or the level-L+1 table [2,2] in place.
MCSkips == {<<>>, <<T(2, 2)>>}
MCNoSkips == {<<>>}
====
