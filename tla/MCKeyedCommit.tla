---------------------------- MODULE MCKeyedCommit ---------------------------
(***************************************************************************)
(* KeyedCommit for TLC: markers that tell the keys apart, and keys that    *)
(* _idem_marker renders as one marker.                                     *)
(***************************************************************************)
EXTENDS KeyedCommit, TLC

ExactMarkers == [k \in Keys |-> k]
SharedMarkers == [k \in Keys |-> "marker"]

Interchangeable == Permutations(Threads) \cup Permutations(Proposals)
=============================================================================
