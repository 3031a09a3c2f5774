----------------------------- MODULE XmlRpcCall -----------------------------
(***************************************************************************)
(* RealSystemClient._auth and ._kw (system.py): one governed Odoo call,    *)
(* made by several worker threads through ONE cached XML-RPC connection.   *)
(*                                                                         *)
(* A call authenticates if no uid is cached, takes _xmlrpc_lock for the    *)
(* wire exchange alone, and then decides from the answer whether to repeat *)
(* the exchange, to return, or to raise SystemError or OutcomeInDoubt.     *)
(*                                                                         *)
(* The server's side of an exchange is external: `applied` counts how      *)
(* often Odoo committed the effect of the current call.  So is the         *)
(* transport below the lock, xmlrpc.client.Transport.request, which sends  *)
(* a request again, once, when the kept-alive connection is reset under    *)
(* it; ResetRetries is the number of those silent repetitions.             *)
(***************************************************************************)
EXTENDS Naturals

CONSTANTS
  Threads,              \* worker threads of the edge's threadpool
  NoThread,             \* the owner of a free lock
  MaxRetries,           \* RealSystemClient(max_retries = ...)
  ResetRetries,         \* silent repetitions by the transport
  MaxCalls              \* bound: governed calls one thread makes

ASSUME NoThreadAssumption == NoThread \notin Threads
ASSUME RetriesAssumption == MaxRetries \in Nat /\ ResetRetries \in Nat
ASSUME CallsAssumption == MaxCalls \in Nat

VARIABLES
  pc,                   \* pc[t]: where t stands in _kw
  kind,                 \* kind[t]: whether t's method is in _READ_METHODS
  attempt,              \* attempt[t]: index of the retry loop
  resent,               \* resent[t]: transport repetitions of this attempt
  applied,              \* applied[t]: times Odoo applied t's current call
  verdict,              \* verdict[t]: how t's last call ended
  calls,                \* calls[t]: calls t has begun
  lock,                 \* _xmlrpc_lock: the thread holding it
  uid                   \* whether self._uid is cached

vars == <<pc, kind, attempt, resent, applied, verdict, calls, lock, uid>>

Kinds == {"read", "write"}
Verdicts == {"none", "value", "system_error", "in_doubt"}
Places == {"idle", "auth", "auth_wire", "lock", "wire"}

IsRead(t) == kind[t] = "read"

(* How often one dispatch to Odoo may apply the call: a read never does.   *)
Effects(t) == IF IsRead(t) THEN {0} ELSE {0, 1}

Init ==
  /\ pc = [t \in Threads |-> "idle"]
  /\ kind = [t \in Threads |-> "read"]
  /\ attempt = [t \in Threads |-> 0]
  /\ resent = [t \in Threads |-> 0]
  /\ applied = [t \in Threads |-> 0]
  /\ verdict = [t \in Threads |-> "none"]
  /\ calls = [t \in Threads |-> 0]
  /\ lock = NoThread
  /\ uid = FALSE

(* _kw is entered; _auth answers from the cache or goes to the wire.       *)
Begin(t, k) ==
  /\ pc[t] = "idle"
  /\ calls[t] < MaxCalls
  /\ pc' = [pc EXCEPT ![t] = IF uid THEN "lock" ELSE "auth"]
  /\ kind' = [kind EXCEPT ![t] = k]
  /\ attempt' = [attempt EXCEPT ![t] = 0]
  /\ resent' = [resent EXCEPT ![t] = 0]
  /\ applied' = [applied EXCEPT ![t] = 0]
  /\ verdict' = [verdict EXCEPT ![t] = "none"]
  /\ calls' = [calls EXCEPT ![t] = @ + 1]
  /\ UNCHANGED <<lock, uid>>

(* Mutant: an exchange that does not wait for the lock.                    *)
TakeUnlocked(t, from, to) ==
  /\ pc[t] = from
  /\ lock' = t
  /\ pc' = [pc EXCEPT ![t] = to]
  /\ UNCHANGED <<kind, attempt, resent, applied, verdict, calls, uid>>

Take(t, from, to) ==
  /\ pc[t] = from
  /\ lock = NoThread
  /\ lock' = t
  /\ pc' = [pc EXCEPT ![t] = to]
  /\ UNCHANGED <<kind, attempt, resent, applied, verdict, calls, uid>>

AuthAcquire(t) == Take(t, "auth", "auth_wire")
Acquire(t) == Take(t, "lock", "wire")

AuthOk(t) ==
  /\ pc[t] = "auth_wire"
  /\ uid' = TRUE
  /\ lock' = NoThread
  /\ pc' = [pc EXCEPT ![t] = "lock"]
  /\ UNCHANGED <<kind, attempt, resent, applied, verdict, calls>>

(* Mutant: a failed login that is swallowed.                               *)
AuthFailsSilently(t) ==
  /\ pc[t] = "auth_wire"
  /\ lock' = NoThread
  /\ pc' = [pc EXCEPT ![t] = "idle"]
  /\ UNCHANGED <<kind, attempt, resent, applied, verdict, calls, uid>>

(* A refused login or any exception on it is a SystemError.                *)
AuthFails(t) ==
  /\ pc[t] = "auth_wire"
  /\ lock' = NoThread
  /\ pc' = [pc EXCEPT ![t] = "idle"]
  /\ verdict' = [verdict EXCEPT ![t] = "system_error"]
  /\ UNCHANGED <<kind, attempt, resent, applied, calls, uid>>

-----------------------------------------------------------------------------
(* The exchange.  Leaving the `with` block releases the lock; what follows *)
(* up to the next acquisition touches the thread's own variables only.     *)

OnWire(t) == pc[t] = "wire"

(* Mutant: a way out of the call that leaves the lock taken.               *)
EndCallLocked(t, v, n) ==
  /\ pc' = [pc EXCEPT ![t] = "idle"]
  /\ verdict' = [verdict EXCEPT ![t] = v]
  /\ applied' = [applied EXCEPT ![t] = @ + n]
  /\ UNCHANGED <<kind, attempt, resent, calls, lock, uid>>

(* The call ends with verdict v, its last dispatch having applied it n     *)
(* times.                                                                  *)
EndCall(t, v, n) ==
  /\ lock' = NoThread
  /\ pc' = [pc EXCEPT ![t] = "idle"]
  /\ verdict' = [verdict EXCEPT ![t] = v]
  /\ applied' = [applied EXCEPT ![t] = @ + n]
  /\ UNCHANGED <<kind, attempt, resent, calls, uid>>

(* Sleep the backoff, without the lock, and go round the loop.             *)
Again(t) ==
  /\ attempt[t] < MaxRetries
  /\ lock' = NoThread
  /\ pc' = [pc EXCEPT ![t] = "lock"]
  /\ attempt' = [attempt EXCEPT ![t] = @ + 1]
  /\ resent' = [resent EXCEPT ![t] = 0]
  /\ UNCHANGED <<kind, applied, verdict, calls, uid>>

Answered(t) ==
  /\ OnWire(t)
  /\ EndCall(t, "value", IF IsRead(t) THEN 0 ELSE 1)

(* xmlrpc.client.Fault: Odoo answered and the ORM rolled back.             *)
Faulted(t) ==
  /\ OnWire(t)
  /\ EndCall(t, "system_error", 0)

(* HTTP 429: rejected by the limiter before dispatch, read or write.       *)
RateLimited(t) ==
  /\ OnWire(t)
  /\ \/ Again(t)
     \/ attempt[t] = MaxRetries /\ EndCall(t, "system_error", 0)

(* Mutant: writes are repeated like reads.                                 *)
NoAnswerRepeated(t) ==
  /\ OnWire(t)
  /\ \/ /\ attempt[t] < MaxRetries
        /\ lock' = NoThread
        /\ pc' = [pc EXCEPT ![t] = "lock"]
        /\ attempt' = [attempt EXCEPT ![t] = @ + 1]
        /\ resent' = [resent EXCEPT ![t] = 0]
        /\ \E n \in Effects(t) : applied' = [applied EXCEPT ![t] = @ + n]
        /\ UNCHANGED <<kind, verdict, calls, uid>>
     \/ /\ attempt[t] = MaxRetries
        /\ \E n \in Effects(t) :
             EndCall(t, IF IsRead(t) THEN "system_error" ELSE "in_doubt", n)

(* HTTP 502, 503, 504, a timeout, an unparseable answer, or a reset the    *)
(* transport passed on: a read is repeated; a write may have been applied  *)
(* and is not.                                                             *)
NoAnswer(t) ==
  /\ OnWire(t)
  /\ \/ IsRead(t) /\ Again(t)
     \/ IsRead(t) /\ attempt[t] = MaxRetries /\ EndCall(t, "system_error", 0)
     \/ ~IsRead(t) /\ \E n \in Effects(t) : EndCall(t, "in_doubt", n)

(* Any other HTTP status: never repeated.                                  *)
HttpError(t) ==
  /\ OnWire(t)
  /\ \/ IsRead(t) /\ EndCall(t, "system_error", 0)
     \/ ~IsRead(t) /\ \E n \in Effects(t) : EndCall(t, "in_doubt", n)

(* External: the connection is reset, the transport sends the request once *)
(* more under the same lock and _kw sees nothing of it.                    *)
SilentResend(t) ==
  /\ OnWire(t)
  /\ resent[t] < ResetRetries
  /\ resent' = [resent EXCEPT ![t] = @ + 1]
  /\ \E n \in Effects(t) : applied' = [applied EXCEPT ![t] = @ + n]
  /\ UNCHANGED <<pc, kind, attempt, verdict, calls, lock, uid>>

Exchange(t) ==
  \/ Answered(t)
  \/ Faulted(t)
  \/ RateLimited(t)
  \/ NoAnswer(t)
  \/ HttpError(t)
  \/ SilentResend(t)

Step(t) ==
  \/ AuthAcquire(t)
  \/ AuthOk(t)
  \/ AuthFails(t)
  \/ Acquire(t)
  \/ Exchange(t)

Next == \E t \in Threads : Step(t) \/ \E k \in Kinds : Begin(t, k)

Spec == Init /\ [][Next]_vars

(* A thread inside a call keeps going.  The answer to an exchange is the   *)
(* network's: ServerProxy is built without a timeout, so that every        *)
(* exchange ends is assumed of the gateway in front of Odoo.               *)
Fairness == \A t \in Threads : WF_vars(Step(t))

FairSpec == Spec /\ Fairness

-----------------------------------------------------------------------------
TypeOK ==
  /\ pc \in [Threads -> Places]
  /\ kind \in [Threads -> Kinds]
  /\ attempt \in [Threads -> 0 .. MaxRetries]
  /\ resent \in [Threads -> 0 .. ResetRetries]
  /\ applied \in [Threads -> Nat]
  /\ verdict \in [Threads -> Verdicts]
  /\ calls \in [Threads -> 0 .. MaxCalls]
  /\ lock \in Threads \cup {NoThread}
  /\ uid \in BOOLEAN

(* G24: the one cached connection is a state machine that two concurrent   *)
(* exchanges corrupt, so at most one thread is ever on the wire, whatever  *)
(* retries and logins are under way.                                       *)
WireExclusive ==
  \A t1, t2 \in Threads :
    pc[t1] \in {"auth_wire", "wire"} /\ pc[t2] \in {"auth_wire", "wire"}
      => t1 = t2

(* How often the transport repeated t's call behind _kw, at most: all it   *)
(* may in each attempt given up, and what it did in the last one.          *)
Repeated(t) == ResetRetries * attempt[t] + resent[t]

(* What the three verdicts assert of _kw's own dispatches.  A SystemError  *)
(* says that none was applied, the return of a write says that the last    *)
(* one was, and only a write is ever left in doubt, about its last one     *)
(* alone: whatever else was applied, the transport repeated.               *)
HonestVerdict ==
  \A t \in Threads :
    /\ verdict[t] = "system_error" => applied[t] <= Repeated(t)
    /\ verdict[t] \in {"value", "in_doubt"} => applied[t] <= Repeated(t) + 1
    /\ verdict[t] = "value" /\ kind[t] = "write" => applied[t] >= 1
    /\ verdict[t] = "in_doubt" => kind[t] = "write"

(* _kw's retry rule where the transport repeats nothing: a write whose     *)
(* outcome is unknown is never repeated, so a call is applied at most once.*)
AtMostOnce == \A t \in Threads : applied[t] <= 1

(* Each call comes back, contention and backoff included: no retry loop    *)
(* and no wait for the lock goes on for ever.                              *)
EveryCallReturns ==
  \A t \in Threads : pc[t] # "idle" ~> pc[t] = "idle"

(* One call as the layer above sees it.                                    *)
Abstract ==
  INSTANCE OdooCall WITH busy <- [t \in Threads |-> pc[t] # "idle"],
                         applied <- [t \in Threads |->
                                       IF pc[t] = "idle" THEN applied[t] ELSE 0],
                         Hidden <- ResetRetries * (MaxRetries + 1)

(* A governed call is the atomic step with four outcomes that the edge is  *)
(* written against, but for what the transport repeats.                    *)
AtomicCall == Abstract!Spec
=============================================================================
