-------------------------- MODULE XmlRpcCallProofs --------------------------
(***************************************************************************)
(* Proofs about XmlRpcCall, for every number of threads, retries and       *)
(* calls.                                                                  *)
(***************************************************************************)
EXTENDS XmlRpcCall, TLAPS

(* Every step keeps every variable in its type; the retry index is the one *)
(* that needs its guard.                                                   *)
LEMMA TypeStep == TypeOK /\ [Next]_vars => TypeOK'
<1> SUFFICES ASSUME TypeOK, [Next]_vars PROVE TypeOK'
  OBVIOUS
<1> USE NoThreadAssumption, RetriesAssumption, CallsAssumption
<1> USE DEF TypeOK, Places, Kinds, Verdicts
<1>1. CASE UNCHANGED vars
  BY <1>1 DEF vars
<1>2. CASE Next
  <2>1. ASSUME NEW t \in Threads, NEW k \in Kinds, Begin(t, k) PROVE TypeOK'
    BY <2>1 DEF Begin
  <2>2. ASSUME NEW t \in Threads, AuthAcquire(t) PROVE TypeOK'
    BY <2>2 DEF AuthAcquire, Take
  <2>3. ASSUME NEW t \in Threads, AuthOk(t) PROVE TypeOK'
    BY <2>3 DEF AuthOk
  <2>4. ASSUME NEW t \in Threads, AuthFails(t) PROVE TypeOK'
    BY <2>4 DEF AuthFails
  <2>5. ASSUME NEW t \in Threads, Acquire(t) PROVE TypeOK'
    BY <2>5 DEF Acquire, Take
  <2>6. ASSUME NEW t \in Threads, Answered(t) PROVE TypeOK'
    BY <2>6 DEF Answered, EndCall, IsRead
  <2>7. ASSUME NEW t \in Threads, Faulted(t) PROVE TypeOK'
    BY <2>7 DEF Faulted, EndCall
  <2>8. ASSUME NEW t \in Threads, RateLimited(t) PROVE TypeOK'
    BY <2>8 DEF RateLimited, EndCall, Again
  <2>9. ASSUME NEW t \in Threads, NoAnswer(t) PROVE TypeOK'
    BY <2>9 DEF NoAnswer, EndCall, Again, Effects, IsRead
  <2>10. ASSUME NEW t \in Threads, HttpError(t) PROVE TypeOK'
    BY <2>10 DEF HttpError, EndCall, Effects, IsRead
  <2>11. ASSUME NEW t \in Threads, SilentResend(t) PROVE TypeOK'
    BY <2>11 DEF SilentResend, Effects, IsRead
  <2> QED
    BY <1>2, <2>1, <2>2, <2>3, <2>4, <2>5, <2>6, <2>7, <2>8, <2>9, <2>10,
       <2>11 DEF Next, Step, Exchange
<1> QED
  BY <1>1, <1>2

(* Type correctness of the call protocol.                                  *)
THEOREM TypeCorrect == Spec => []TypeOK
<1>1. Init => TypeOK
  <2> SUFFICES ASSUME Init PROVE TypeOK
    OBVIOUS
  <2>1. uid \in BOOLEAN
    BY Zenon DEF Init
  <2> QED
    BY <2>1, RetriesAssumption, CallsAssumption
       DEF Init, TypeOK, Places, Kinds, Verdicts
<1> QED
  BY <1>1, TypeStep, PTL DEF Spec

-----------------------------------------------------------------------------
(* Mutual exclusion on the wire: whoever is there holds the lock.          *)
HolderOnWire ==
  \A t \in Threads : pc[t] \in {"auth_wire", "wire"} => lock = t

LEMMA HolderStep ==
  TypeOK /\ HolderOnWire /\ [Next]_vars => HolderOnWire'
<1> SUFFICES ASSUME TypeOK, HolderOnWire, [Next]_vars PROVE HolderOnWire'
  OBVIOUS
<1> USE NoThreadAssumption DEF TypeOK, HolderOnWire
<1>1. CASE UNCHANGED vars
  BY <1>1 DEF vars
<1>2. ASSUME NEW t \in Threads, NEW k \in Kinds, Begin(t, k)
      PROVE  HolderOnWire'
  BY <1>2 DEF Begin
<1>3. ASSUME NEW t \in Threads, AuthAcquire(t) \/ Acquire(t)
      PROVE  HolderOnWire'
  BY <1>3 DEF AuthAcquire, Acquire, Take
<1>4. ASSUME NEW t \in Threads, AuthOk(t) \/ AuthFails(t)
      PROVE  HolderOnWire'
  BY <1>4 DEF AuthOk, AuthFails
<1>5. ASSUME NEW t \in Threads, Exchange(t)
      PROVE  HolderOnWire'
  BY <1>5 DEF Exchange, OnWire, Answered, Faulted, RateLimited, NoAnswer,
              HttpError, SilentResend, EndCall, Again
<1> QED
  BY <1>1, <1>2, <1>3, <1>4, <1>5 DEF Next, Step

(* At most one thread talks to Odoo over the cached connection, for any    *)
(* number of threads.                                                      *)
THEOREM WireExclusion == Spec => []WireExclusive
<1>1. Init => HolderOnWire
  BY DEF Init, HolderOnWire
<1>2. HolderOnWire => WireExclusive
  BY DEF HolderOnWire, WireExclusive
<1> QED
  BY <1>1, <1>2, HolderStep, TypeCorrect, PTL DEF Spec

-----------------------------------------------------------------------------
(* Products with ResetRetries, for what the transport may have repeated.   *)
LEMMA Products ==
  /\ \A a \in Nat : ResetRetries * (a + 1) = ResetRetries * a + ResetRetries
  /\ \A a, b \in Nat : a <= b => ResetRetries * a <= ResetRetries * b
  /\ \A a \in Nat : ResetRetries * a \in Nat
  /\ ResetRetries * 0 = 0
BY RetriesAssumption

(* Counters are naturals within their limits, and so is what the transport *)
(* repeated; an attempt more leaves room for the one given up.             *)
LEMMA Counters ==
  ASSUME TypeOK, NEW t \in Threads
  PROVE  /\ attempt[t] \in Nat /\ attempt[t] <= MaxRetries
         /\ resent[t] \in Nat /\ resent[t] <= ResetRetries
         /\ ResetRetries * attempt[t] \in Nat
         /\ ResetRetries * (attempt[t] + 1) = ResetRetries * attempt[t] + ResetRetries
         /\ Repeated(t) \in Nat
         /\ Repeated(t) <= ResetRetries * (MaxRetries + 1)
         /\ ResetRetries * (MaxRetries + 1) \in Nat
<1>1. attempt[t] \in Nat /\ attempt[t] <= MaxRetries
  BY RetriesAssumption DEF TypeOK
<1>2. resent[t] \in Nat /\ resent[t] <= ResetRetries
  BY RetriesAssumption DEF TypeOK
<1>3. attempt[t] + 1 \in Nat /\ MaxRetries + 1 \in Nat /\ attempt[t] + 1 <= MaxRetries + 1
  BY <1>1, RetriesAssumption
<1>4. /\ ResetRetries * attempt[t] \in Nat
      /\ ResetRetries * (attempt[t] + 1) = ResetRetries * attempt[t] + ResetRetries
      /\ ResetRetries * (attempt[t] + 1) <= ResetRetries * (MaxRetries + 1)
      /\ ResetRetries * (MaxRetries + 1) \in Nat
  BY <1>1, <1>3, Products
<1> QED
  BY <1>1, <1>2, <1>4, RetriesAssumption DEF Repeated

(* Inside a call nothing but the transport's repetitions was applied; the  *)
(* dispatch that ends the call may add one.  No read is ever applied.      *)
CallInv ==
  /\ \A t \in Threads :
       /\ pc[t] # "idle" => verdict[t] = "none" /\ applied[t] <= Repeated(t)
       /\ verdict[t] = "none" => applied[t] <= Repeated(t)
       /\ kind[t] = "read" => applied[t] = 0
  /\ HonestVerdict

(* A dispatch that ends the call: what it may add to what was applied.     *)
LEMMA EndCallKeeps ==
  ASSUME TypeOK, CallInv, NEW t \in Threads, OnWire(t), NEW n \in {0, 1},
         NEW v \in {"value", "system_error", "in_doubt"}, EndCall(t, v, n),
         kind[t] = "read" => n = 0 /\ v # "in_doubt",
         v = "system_error" => n = 0,
         v = "value" /\ kind[t] = "write" => n = 1
  PROVE  CallInv'
<1> USE DEF CallInv, HonestVerdict, Repeated, TypeOK, Kinds
<1>1. \A u \in Threads : Repeated(u) \in Nat
  BY Counters
<1>2. pc[t] # "idle" /\ verdict[t] = "none" /\ applied[t] <= Repeated(t)
  BY DEF OnWire
<1>3. /\ pc' = [pc EXCEPT ![t] = "idle"] /\ verdict' = [verdict EXCEPT ![t] = v]
      /\ applied' = [applied EXCEPT ![t] = @ + n]
      /\ kind' = kind /\ attempt' = attempt /\ resent' = resent
  BY DEF EndCall
<1>4. /\ applied'[t] <= Repeated(t) + n /\ applied'[t] >= n
      /\ applied'[t] = applied[t] + n
  BY <1>1, <1>2, <1>3
<1>5. ASSUME NEW u \in Threads
      PROVE  /\ pc'[u] # "idle" => verdict'[u] = "none" /\ applied'[u] <= Repeated(u)'
             /\ verdict'[u] = "none" => applied'[u] <= Repeated(u)'
             /\ kind'[u] = "read" => applied'[u] = 0
             /\ verdict'[u] = "system_error" => applied'[u] <= Repeated(u)'
             /\ verdict'[u] \in {"value", "in_doubt"} => applied'[u] <= Repeated(u)' + 1
             /\ verdict'[u] = "value" /\ kind'[u] = "write" => applied'[u] >= 1
             /\ verdict'[u] = "in_doubt" => kind'[u] = "write"
  BY <1>1, <1>2, <1>3, <1>4, RetriesAssumption
<1> QED
  BY <1>5

LEMMA CallStep == TypeOK /\ CallInv /\ [Next]_vars => CallInv'
<1> SUFFICES ASSUME TypeOK, CallInv, [Next]_vars PROVE CallInv'
  OBVIOUS
<1> USE RetriesAssumption DEF TypeOK, Kinds, CallInv, HonestVerdict, Repeated
<1>0. \A u \in Threads :
        /\ attempt[u] \in Nat /\ resent[u] \in Nat /\ resent[u] <= ResetRetries
        /\ ResetRetries * attempt[u] \in Nat
        /\ ResetRetries * (attempt[u] + 1) = ResetRetries * attempt[u] + ResetRetries
  BY Counters
<1>1. CASE UNCHANGED vars
  BY <1>1 DEF vars
<1>2. ASSUME NEW t \in Threads, NEW k \in Kinds, Begin(t, k)
      PROVE  CallInv'
  BY <1>0, <1>2, Products DEF Begin
<1>3. ASSUME NEW t \in Threads, AuthAcquire(t) \/ Acquire(t)
      PROVE  CallInv'
  BY <1>3 DEF AuthAcquire, Acquire, Take
<1>4. ASSUME NEW t \in Threads, AuthOk(t) \/ AuthFails(t)
      PROVE  CallInv'
  BY <1>4 DEF AuthOk, AuthFails
<1>5. ASSUME NEW t \in Threads, OnWire(t), Again(t)
      PROVE  CallInv'
  <2>1. /\ attempt' = [attempt EXCEPT ![t] = @ + 1] /\ resent' = [resent EXCEPT ![t] = 0]
        /\ pc' = [pc EXCEPT ![t] = "lock"] /\ kind' = kind /\ applied' = applied
        /\ verdict' = verdict
    BY <1>5 DEF Again
  <2>2. verdict[t] = "none" /\ applied[t] <= ResetRetries * attempt[t] + resent[t]
    BY <1>5 DEF OnWire
  <2>3. applied[t] <= ResetRetries * (attempt[t] + 1)
    BY <1>0, <2>2
  <2>4. attempt'[t] = attempt[t] + 1 /\ resent'[t] = 0
    BY <2>1
  <2>5. ResetRetries * attempt'[t] + resent'[t] = ResetRetries * (attempt[t] + 1)
    BY <1>0, <2>4
  <2> QED
    BY <2>1, <2>2, <2>3, <2>5
<1>6. ASSUME NEW t \in Threads, SilentResend(t)
      PROVE  CallInv'
  BY <1>0, <1>6 DEF OnWire, SilentResend, Effects, IsRead
<1>7. ASSUME NEW t \in Threads, Exchange(t)
      PROVE  CallInv'
  <2>1. kind[t] \in {"read", "write"}
    OBVIOUS
  <2>2. CASE Answered(t)
    BY <2>1, <2>2, EndCallKeeps DEF Answered, IsRead
  <2>3. CASE Faulted(t)
    BY <2>1, <2>3, EndCallKeeps DEF Faulted
  <2>4. CASE RateLimited(t)
    BY <1>5, <2>1, <2>4, EndCallKeeps DEF RateLimited
  <2>5. CASE NoAnswer(t)
    BY <1>5, <2>1, <2>5, EndCallKeeps DEF NoAnswer, IsRead, Effects
  <2>6. CASE HttpError(t)
    BY <2>1, <2>6, EndCallKeeps DEF HttpError, IsRead, Effects
  <2> QED
    BY <1>6, <1>7, <2>2, <2>3, <2>4, <2>5, <2>6 DEF Exchange
<1> QED
  BY <1>1, <1>2, <1>3, <1>4, <1>7 DEF Next, Step

LEMMA CallInvariance == Spec => []CallInv
<1>1. Init => CallInv
  BY Products, RetriesAssumption DEF Init, CallInv, HonestVerdict, Repeated
<1> QED
  BY <1>1, CallStep, TypeCorrect, PTL DEF Spec

(* The three verdicts of _kw are true of what Odoo did, whatever transport *)
(* carries them: what is applied besides, the transport repeated.          *)
THEOREM VerdictsHonest == Spec => []HonestVerdict
<1>1. CallInv => HonestVerdict
  BY DEF CallInv
<1> QED
  BY <1>1, CallInvariance, PTL

(* Over a transport that repeats nothing, one governed call is applied at  *)
(* most once, however many retries it is allowed.                          *)
THEOREM NeverTwice ==
  ASSUME ResetRetries = 0
  PROVE  Spec => []AtMostOnce
<1>1. TypeOK /\ CallInv => AtMostOnce
  <2> SUFFICES ASSUME TypeOK, CallInv, NEW t \in Threads PROVE applied[t] <= 1
    BY DEF AtMostOnce
  <2>1. Repeated(t) = 0
    <3>1. \A a \in Nat : 0 * a = 0
      OBVIOUS
    <3>2. attempt[t] \in Nat /\ resent[t] \in Nat /\ resent[t] <= ResetRetries
      BY Counters
    <3> QED
      BY <3>1, <3>2 DEF Repeated
  <2>2. applied[t] \in Nat /\ verdict[t] \in Verdicts
    BY DEF TypeOK
  <2> QED
    BY <2>1, <2>2 DEF CallInv, HonestVerdict, Verdicts
<1> QED
  BY <1>1, CallInvariance, TypeCorrect, PTL

-----------------------------------------------------------------------------
(* Locks, logins, retries and backoff are invisible from above: a governed *)
(* call is the two-step call of OdooCall.                                  *)
THEOREM CallIsAtomic == Spec => AtomicCall
<1>1. Init => Abstract!Init
  BY DEF Init, Abstract!Init
<1>2. TypeOK /\ CallInv /\ CallInv' /\ TypeOK' /\ [Next]_vars
        => [Abstract!Next]_(Abstract!vars)
  <2> SUFFICES ASSUME TypeOK, CallInv, CallInv', TypeOK', [Next]_vars
               PROVE  [Abstract!Next]_(Abstract!vars)
    OBVIOUS
  <2> DEFINE busyOf == [t \in Threads |-> pc[t] # "idle"]
             appliedOf == [t \in Threads |-> IF pc[t] = "idle" THEN applied[t] ELSE 0]
             hidden == ResetRetries * (MaxRetries + 1)
  <2>1. CASE UNCHANGED vars
    BY <2>1 DEF vars, Abstract!vars
  <2>2. ASSUME NEW t \in Threads, NEW k \in Kinds, Begin(t, k)
        PROVE  Abstract!Next
    <3>1. busyOf' = [busyOf EXCEPT ![t] = TRUE]
      BY <2>2 DEF Begin, TypeOK
    <3>2. appliedOf' = [appliedOf EXCEPT ![t] = 0]
      BY <2>2 DEF Begin, TypeOK
    <3>3. Abstract!Start(t, k)
      BY <2>2, <3>1, <3>2 DEF Begin, Abstract!Start
    <3> QED
      BY <3>3 DEF Abstract!Next, Kinds, Abstract!Kinds
  <2>3. ASSUME NEW t \in Threads, NEW to, to # "idle", pc[t] # "idle",
               pc' = [pc EXCEPT ![t] = to], kind' = kind, verdict' = verdict,
               \A u \in Threads : u # t => applied'[u] = applied[u]
        PROVE  UNCHANGED Abstract!vars
    <3>1. busyOf' = busyOf
      BY <2>3 DEF TypeOK
    <3>2. appliedOf' = appliedOf
      BY <2>3 DEF TypeOK
    <3> QED
      BY <2>3, <3>1, <3>2 DEF Abstract!vars
  <2>4. ASSUME NEW t \in Threads, AuthAcquire(t) \/ Acquire(t) \/ AuthOk(t)
        PROVE  UNCHANGED Abstract!vars
    BY <2>3, <2>4 DEF AuthAcquire, Acquire, Take, AuthOk
  <2>5. ASSUME NEW t \in Threads, OnWire(t), Again(t)
        PROVE  UNCHANGED Abstract!vars
    BY <2>3, <2>5 DEF OnWire, Again
  <2>6. ASSUME NEW t \in Threads, SilentResend(t)
        PROVE  UNCHANGED Abstract!vars
    <3>1. /\ pc[t] = "wire" /\ pc' = [pc EXCEPT ![t] = "wire"] /\ kind' = kind
          /\ verdict' = verdict
      BY <2>6 DEF SilentResend, OnWire, TypeOK
    <3>2. \A u \in Threads : u # t => applied'[u] = applied[u]
      BY <2>6 DEF SilentResend, TypeOK
    <3> QED
      BY <2>3, <3>1, <3>2
  <2>7. ASSUME NEW t \in Threads, pc[t] # "idle", NEW n \in Nat,
               NEW v \in {"value", "system_error", "in_doubt"},
               pc' = [pc EXCEPT ![t] = "idle"],
               applied' = [applied EXCEPT ![t] = @ + n],
               verdict' = [verdict EXCEPT ![t] = v],
               kind' = kind, attempt' = attempt, resent' = resent
        PROVE  Abstract!Next
    <3>1. busyOf' = [busyOf EXCEPT ![t] = FALSE]
      BY <2>7 DEF TypeOK
    <3>2. appliedOf' = [appliedOf EXCEPT ![t] = applied'[t]]
      BY <2>7 DEF TypeOK
    <3>3. kind'[t] = kind[t] /\ verdict'[t] = v /\ Repeated(t)' = Repeated(t)
      BY <2>7 DEF TypeOK, Repeated
    <3>4. /\ applied'[t] \in Nat /\ kind[t] \in {"read", "write"}
          /\ Repeated(t) \in Nat /\ hidden \in Nat /\ Repeated(t) <= hidden
      BY Counters DEF TypeOK, Kinds
    <3>5. /\ v = "system_error" => applied'[t] <= Repeated(t)
          /\ v \in {"value", "in_doubt"} => applied'[t] <= Repeated(t) + 1
          /\ v = "value" /\ kind[t] = "write" => applied'[t] >= 1
          /\ v = "in_doubt" => kind[t] = "write"
          /\ kind[t] = "read" => applied'[t] = 0
      BY <3>3 DEF CallInv, HonestVerdict
    <3> PICK a \in Nat : a = applied'[t]
      BY <3>4
    <3>6. <<a, v>> \in Abstract!Outcomes(kind[t])
      BY <3>4, <3>5 DEF Abstract!Outcomes
    <3>7. Abstract!Finish(t, <<a, v>>)
      BY <2>7, <3>1, <3>2, <3>6 DEF Abstract!Finish
    <3> QED
      BY <3>6, <3>7 DEF Abstract!Next
  <2>8. ASSUME NEW t \in Threads, AuthFails(t)
        PROVE  Abstract!Next
    <3>1. applied' = [applied EXCEPT ![t] = @ + 0]
      BY <2>8 DEF AuthFails, TypeOK
    <3> QED
      BY <2>7, <2>8, <3>1 DEF AuthFails
  <2>9. ASSUME NEW t \in Threads, OnWire(t), NEW n \in {0, 1}, EndCall(t, "value", n)
        PROVE  Abstract!Next
    BY <2>7, <2>9 DEF OnWire, EndCall
  <2>10. ASSUME NEW t \in Threads, OnWire(t), NEW n \in {0, 1}, EndCall(t, "system_error", n)
         PROVE  Abstract!Next
    BY <2>7, <2>10 DEF OnWire, EndCall
  <2>11. ASSUME NEW t \in Threads, OnWire(t), NEW n \in {0, 1}, EndCall(t, "in_doubt", n)
         PROVE  Abstract!Next
    BY <2>7, <2>11 DEF OnWire, EndCall
  <2>12. ASSUME NEW t \in Threads, Exchange(t)
         PROVE  Abstract!Next \/ UNCHANGED Abstract!vars
    <3>1. CASE Answered(t)
      BY <2>9, <3>1 DEF Answered
    <3>2. CASE Faulted(t)
      BY <2>10, <3>2 DEF Faulted
    <3>3. CASE RateLimited(t)
      BY <2>5, <2>10, <3>3 DEF RateLimited
    <3>4. CASE NoAnswer(t)
      BY <2>5, <2>10, <2>11, <3>4 DEF NoAnswer, Effects
    <3>5. CASE HttpError(t)
      BY <2>10, <2>11, <3>5 DEF HttpError, Effects
    <3> QED
      BY <2>6, <2>12, <3>1, <3>2, <3>3, <3>4, <3>5 DEF Exchange
  <2> QED
    BY <2>1, <2>2, <2>4, <2>8, <2>12 DEF Next, Step
<1> QED
  BY <1>1, <1>2, CallInvariance, TypeCorrect, PTL DEF Spec, AtomicCall, Abstract!Spec
=============================================================================
