-------------------------- MODULE MCConnectionPool --------------------------
(* Instances of ConnectionPool for TLC. *)
EXTENDS ConnectionPool, TLC

\* Negative and positive arguments of RefreshActivesWithSeconds.
AnySeconds == {-1, 6}

\* Hosts differ only in name.  Not used with liveness properties.
HostSymmetry == Permutations(Hosts)
=============================================================================
