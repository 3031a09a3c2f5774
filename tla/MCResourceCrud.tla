---------------------------- MODULE MCResourceCrud --------------------------
(***************************************************************************)
(* ResourceCrud for TLC: what the callers ask for.                         *)
(***************************************************************************)
EXTENDS ResourceCrud, TLC

CONSTANTS name        \* the field an update patches

(* The text of draft is part of that of posted.                            *)
Contained == {<<Draft, Posted>>}

AllDraft == [f \in Fields |-> Draft]

Patching(fam) ==
  [family |-> fam, op |-> "update", rid |-> 1, data |-> (name :> Posted)]
Creating(fam) ==
  [family |-> fam, op |-> "create", rid |-> NoId, data |-> (name :> Posted)]
Deleting(fam) ==
  [family |-> fam, op |-> "delete", rid |-> 1, data |-> NoData]
Calling(fam) ==
  [family |-> fam, op |-> "method", rid |-> 1, data |-> (Stage :> Posted)]
Upserting ==
  [family |-> "curated", op |-> "upsert", rid |-> NoId, data |-> (name :> Posted)]

(* A curated delete is asked for by undoing what an upsert made.           *)
EveryAsk ==
  {Creating("generic"), Patching("generic"), Deleting("generic"),
   Calling("generic"), Patching("curated"), Upserting}

OnlyUpsert == {Upserting}

Interchangeable == Permutations(Threads) \cup Permutations(Keys)
=============================================================================
