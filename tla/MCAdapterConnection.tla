------------------------ MODULE MCAdapterConnection ------------------------
(* Small instances of AdapterConnection.  Leases, and in the two-session    *)
(* instance sessions, are interchangeable.                                  *)
EXTENDS AdapterConnection, TLC

LeaseSymmetry == Permutations(Lease)
PairSymmetry == Permutations(Lease) \cup Permutations(Session)
=============================================================================
