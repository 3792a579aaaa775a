-------------------------- MODULE MCConnectionPool --------------------------
(* Instances of ConnectionPool for TLC. *)
EXTENDS ConnectionPool, TLC

\* Callers and hosts are interchangeable: no definition tells two of them
\* apart, and the stamps that order the idle connections are all different.
PoolSymmetry == Permutations(Callers) \cup Permutations(Hosts)
=============================================================================
