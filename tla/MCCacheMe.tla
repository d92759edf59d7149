----------------------------- MODULE MCCacheMe -----------------------------
(* Small instances of CacheMe. *)
EXTENDS CacheMe

CONSTANTS s1, s2, k1, k2, v1, v2

\* An empty database.
MCNothing == {Blank}

\* A row that never expires may have been left by an earlier process.
MCKept == {Blank, [value |-> v1, expires_at |-> 0]}

\* So may one that expired while no process ran.
MCExpired == {Blank, [value |-> v1, expires_at |-> 2]}

\* So may one that is still to expire.
MCExpiring == {Blank, [value |-> v1, expires_at |-> 4]}

\* No value holds a NUL.
MCWhole == [v \in Values \cup {NoValue} |-> v]

Symmetry == Permutations(Servers)
=============================================================================
