----------------------------- MODULE OncePerKey -----------------------------
(***************************************************************************)
(* What "idempotent COMMIT" promises a caller (edge.py, state.py): an      *)
(* idempotency key names one business effect.  The effect is performed by  *)
(* one create, is never taken back by a retry, and every caller told about *)
(* it is told of the same record.                                          *)
(*                                                                         *)
(* An id is a pair <<request, copy>>.  Where the transport repeats nothing *)
(* there is one copy of a request, and the effect is at most one record.   *)
(***************************************************************************)
CONSTANTS Keys, Ids

VARIABLES
  effect,               \* effect[k]: the records k's commit made
  told                  \* told[k]: the records callers were told k made

vars == <<effect, told>>

Init ==
  /\ effect = [k \in Keys |-> {}]
  /\ told = [k \in Keys |-> {}]

(* A copy of k's create is applied; no other request's ever was.           *)
Perform(k, id) ==
  /\ \A e \in effect[k] : e[1] = id[1]
  /\ effect' = [effect EXCEPT ![k] = @ \cup {id}]
  /\ UNCHANGED told

(* A caller is told of a record of k's; no caller was told of another.     *)
Tell(k, id) ==
  /\ id \in effect[k]
  /\ told[k] \subseteq {id}
  /\ told' = [told EXCEPT ![k] = @ \cup {id}]
  /\ UNCHANGED effect

Next == \E k \in Keys, id \in Ids : Perform(k, id) \/ Tell(k, id)

Spec == Init /\ [][Next]_vars
=============================================================================
