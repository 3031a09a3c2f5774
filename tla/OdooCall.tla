------------------------------ MODULE OdooCall ------------------------------
(***************************************************************************)
(* What RealSystemClient._kw promises to the layer above it: a governed    *)
(* Odoo call starts, and ends in ONE step with one of four outcomes.  The  *)
(* promise is the one the source writes beside OutcomeInDoubt and _kw:     *)
(*                                                                         *)
(*   a value        - the call was applied, by the dispatch that answered; *)
(*   a SystemError  - an observed outcome: no dispatch of _kw was applied; *)
(*   OutcomeInDoubt - raised for a write only, whose one dispatch was      *)
(*                    applied or not.                                      *)
(*                                                                         *)
(* Below _kw a transport may repeat requests by itself: Hidden is how      *)
(* often that can have applied the call besides.  At 0 the call is applied *)
(* at most once.                                                           *)
(***************************************************************************)
EXTENDS Naturals

CONSTANTS
  Threads,              \* worker threads of the edge's threadpool
  Hidden                \* applications the transport may add

VARIABLES
  busy,                 \* busy[t]: t is inside a governed call
  kind,                 \* kind[t]: the class of t's last call
  applied,              \* applied[t]: times Odoo applied t's last write
  verdict               \* verdict[t]: how t's last call ended

vars == <<busy, kind, applied, verdict>>

Kinds == {"read", "write"}

(* Every <<applications, verdict>> a call of kind k may end with.          *)
Outcomes(k) ==
  IF k = "read"
    THEN {0} \X {"value", "system_error"}
    ELSE ((1 .. Hidden + 1) \X {"value"})
         \cup ((0 .. Hidden) \X {"system_error"})
         \cup ((0 .. Hidden + 1) \X {"in_doubt"})

Init ==
  /\ busy = [t \in Threads |-> FALSE]
  /\ kind = [t \in Threads |-> "read"]
  /\ applied = [t \in Threads |-> 0]
  /\ verdict = [t \in Threads |-> "none"]

Start(t, k) ==
  /\ ~busy[t]
  /\ busy' = [busy EXCEPT ![t] = TRUE]
  /\ kind' = [kind EXCEPT ![t] = k]
  /\ applied' = [applied EXCEPT ![t] = 0]
  /\ verdict' = [verdict EXCEPT ![t] = "none"]

Finish(t, o) ==
  /\ busy[t]
  /\ o \in Outcomes(kind[t])
  /\ busy' = [busy EXCEPT ![t] = FALSE]
  /\ applied' = [applied EXCEPT ![t] = o[1]]
  /\ verdict' = [verdict EXCEPT ![t] = o[2]]
  /\ UNCHANGED kind

Next ==
  \E t \in Threads :
    \/ \E k \in Kinds : Start(t, k)
    \/ \E o \in Outcomes(kind[t]) : Finish(t, o)

Spec == Init /\ [][Next]_vars
=============================================================================
