----------------------- MODULE MCAsyncConnectionPool -----------------------
(* Instances of AsyncConnectionPool for TLC. *)
EXTENDS AsyncConnectionPool, TLC

\* The tasks are interchangeable where all of them, or none, pass a timeout;
\* so are the hosts.  Runs with a liveness property do without it.
TaskSymmetry == Permutations(Tasks) \cup Permutations(Hosts)
=============================================================================
