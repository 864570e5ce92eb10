---- MODULE MCMigration ----
\* A last lot, and two lots with a tolerated difference.
EXTENDS Migration, TLC

Last    == {[s \in Side |-> 1]}
Uneven  == {p \in [Side -> 2 .. 3] : \E s, o \in Side : p[s] < p[o]}
MCBases == {p \in Last \cup Uneven : Balanced(p)}

LiveBases == Last
Symmetry  == Permutations(Side)
====
