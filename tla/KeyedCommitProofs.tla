-------------------------- MODULE KeyedCommitProofs -------------------------
(***************************************************************************)
(* Proofs about KeyedCommit, for every number of threads, keys, proposals, *)
(* requests and restarts.                                                  *)
(***************************************************************************)
EXTENDS KeyedCommit, TLAPS

(* Where a thread can be says what it is serving: a request with a number, *)
(* and with a key unless it is a PROPOSE.  Answers and creates are built   *)
(* from these, so the types depend on it.                                  *)
Writing == {"prepare", "sent", "applied", "confirm", "reprobe", "verify",
            "emit"}

Serving ==
  \A t \in Threads :
    /\ pc[t] # "idle" => req[t] \in Requests
    /\ op[t] \in {"commit", "status"} => key[t] \in Keys
    /\ op[t] \notin {"commit", "status"} => key[t] = NoKey
    /\ op[t] \in {"propose", "commit"} => prop[t] \in Proposals
    /\ pc[t] = "idle" => op[t] = "none"
    /\ pc[t] = "schema" => op[t] \in {"propose", "status"}
    /\ pc[t] = "gate" => op[t] = "propose"
    /\ pc[t] = "probe" => op[t] \in {"commit", "status"}
    /\ pc[t] \in Writing => op[t] = "commit"

ThreadShape ==
  /\ pc \in [Threads -> Places]
  /\ op \in [Threads -> Ops]
  /\ key \in [Threads -> Keys \cup {NoKey}]
  /\ prop \in [Threads -> Proposals \cup {NoProposal}]
  /\ req \in [Threads -> 0 .. MaxRequests]
  /\ copy \in [Threads -> 0 .. Hidden]
  /\ stamped \in [Threads -> BOOLEAN]
  /\ found \in [Threads -> Ids \cup {NoRecord}]
  /\ Serving

DataShape ==
  /\ proposals \subseteq Proposals
  /\ ledger \in [Keys -> Ids \cup {NoRecord}]
  /\ executed \subseteq Proposals
  /\ cache \in {"unknown", "live", "none"}
  /\ records \subseteq Record
  /\ orphans \subseteq Record
  /\ issued \subseteq Proposals
  /\ requests \in 0 .. MaxRequests
  /\ restarts \in 0 .. MaxRestarts
  /\ replies \subseteq Reply

Shape == ThreadShape /\ DataShape

LEMMA Numbers ==
  /\ NoRecord \notin Ids
  /\ 0 \in 0 .. Hidden
  /\ Requests \subseteq 0 .. MaxRequests
  /\ \A n \in 0 .. MaxRequests : n < MaxRequests => n + 1 \in Requests
  /\ \A n \in 0 .. MaxRestarts : n < MaxRestarts => n + 1 \in 0 .. MaxRestarts
BY BoundsAssumption, HiddenAssumption DEF Ids, NoRecord, Requests

(* A thread that leaves is idle, and the others are as they were.          *)
LEMMA LeaveShape ==
  ASSUME ThreadShape, NEW t \in Threads, Leave(t)
  PROVE  ThreadShape'
BY Numbers, BoundsAssumption
   DEF ThreadShape, Serving, Writing, Leave, Places, Ops

LEMMA ReceiveShape ==
  ASSUME ThreadShape, requests \in 0 .. MaxRequests, NEW t \in Threads,
         NEW o, NEW k, NEW pr, NEW p, Receive(t, o, k, pr, p),
         \/ /\ o = "propose" /\ k = NoKey /\ pr \in Proposals
            /\ p \in {"gate", "schema"}
         \/ /\ o = "commit" /\ k \in Keys /\ pr \in Proposals
            /\ p = "prepare"
         \/ /\ o = "status" /\ k \in Keys /\ pr = NoProposal
            /\ p \in {"probe", "schema"}
  PROVE  ThreadShape' /\ requests' \in 0 .. MaxRequests
BY Numbers, BoundsAssumption
   DEF ThreadShape, Serving, Writing, Receive, Places, Ops

(* A thread that moves to another place, or finds a record, keeps serving. *)
LEMMA GotoShape ==
  ASSUME ThreadShape, NEW t \in Threads, pc[t] # "idle", NEW p \in Places,
         p # "idle", pc' = [pc EXCEPT ![t] = p],
         p = "gate" => op[t] = "propose",
         p = "probe" => op[t] \in {"commit", "status"},
         p = "schema" => op[t] \in {"propose", "status"},
         p \in Writing => op[t] = "commit",
         UNCHANGED <<op, key, prop, req>>,
         copy' \in [Threads -> 0 .. Hidden],
         stamped' \in [Threads -> BOOLEAN],
         found' \in [Threads -> Ids \cup {NoRecord}]
  PROVE  ThreadShape'
BY DEF ThreadShape, Serving, Writing, Places

LEMMA SayShape ==
  ASSUME DataShape, NEW n \in Requests, NEW k \in Keys, NEW v \in Verdicts,
         NEW r \in Ids \cup {NoRecord}, Say(n, k, v, r)
  PROVE  replies' \subseteq Reply /\ issued' = issued /\ restarts' = restarts
BY DEF DataShape, Say, Reply

LEMMA AnswerShape ==
  ASSUME Shape, NEW t \in Threads, pc[t] # "idle",
         op[t] \in {"commit", "status"}, NEW v \in Verdicts,
         NEW r \in Ids \cup {NoRecord}, Answer(t, v, r), UNCHANGED shimVars,
         UNCHANGED odooVars
  PROVE  Shape'
<1>1. ThreadShape'
  BY LeaveShape DEF Answer, Shape
<1>2. req[t] \in Requests /\ key[t] \in Keys
  BY DEF Shape, ThreadShape, Serving
<1>3. replies' \subseteq Reply /\ issued' = issued /\ restarts' = restarts
  BY <1>2, SayShape DEF Answer, Shape
<1> QED
  BY <1>1, <1>3 DEF Answer, Shape, DataShape, shimVars, odooVars

LEMMA AnswerNowShape ==
  ASSUME Shape, NEW t \in Threads, NEW k \in Keys, NEW v \in Verdicts,
         NEW r \in Ids \cup {NoRecord}, AnswerNow(t, k, v, r),
         UNCHANGED shimVars, UNCHANGED odooVars
  PROVE  Shape'
<1>1. requests + 1 \in Requests /\ requests' \in 0 .. MaxRequests
  BY Numbers DEF AnswerNow, Shape, DataShape
<1>2. replies' \subseteq Reply /\ issued' = issued /\ restarts' = restarts
  BY <1>1, SayShape DEF AnswerNow, Shape
<1> QED
  BY <1>1, <1>2 DEF AnswerNow, Shape, DataShape, ThreadShape, Serving,
                    Writing, shimVars, odooVars, threadVars

LEMMA DraftShape ==
  ASSUME Shape, NEW t \in Threads, pc[t] \in Writing
  PROVE  Own(t) \in Ids /\ Draft(t) \in Record
BY DEF Shape, ThreadShape, Serving, Writing, Own, Draft, Record, Ids

(* Every step keeps every variable in its type and every thread in place.  *)
LEMMA ShapeStep == Shape /\ [Next]_vars => Shape'
<1> SUFFICES ASSUME Shape, [Next]_vars PROVE Shape'
  OBVIOUS
<1> USE DEF shimVars, odooVars, callerVars
<1>1. CASE UNCHANGED vars
  BY <1>1 DEF vars, threadVars, Shape, ThreadShape, DataShape, Serving
<1>2. ASSUME NEW t \in Threads, NEW p \in Proposals, Propose(t, p)
      PROVE  Shape'
  <2>1. ThreadShape' /\ requests' \in 0 .. MaxRequests
    BY <1>2, ReceiveShape DEF Propose, Shape, DataShape
  <2> QED
    BY <1>2, <2>1 DEF Propose, Shape, DataShape
<1>3. ASSUME NEW t \in Threads, NEW k \in Keys,
             \/ Replay(t, k) \/ StatusUnknown(t, k)
             \/ \E p \in issued : CommitUnknown(t, k, p)
      PROVE  Shape'
  <2>1. ledger[k] \in Ids \cup {NoRecord}
    BY DEF Shape, DataShape
  <2> QED
    BY <1>3, <2>1, AnswerNowShape
       DEF Replay, StatusUnknown, CommitUnknown, Verdicts
<1>4. ASSUME NEW t \in Threads, NEW k \in Keys, Status(t, k)
      PROVE  Shape'
  <2>1. ThreadShape' /\ requests' \in 0 .. MaxRequests
    BY <1>4, ReceiveShape DEF Status, Shape, DataShape
  <2> QED
    BY <1>4, <2>1 DEF Status, Shape, DataShape
<1>5. ASSUME NEW t \in Threads, NEW k \in Keys, NEW p \in issued,
             Commit(t, k, p)
      PROVE  Shape'
  <2>1. p \in Proposals
    BY DEF Shape, DataShape
  <2>2. ThreadShape' /\ requests' \in 0 .. MaxRequests
    BY <1>5, <2>1, ReceiveShape DEF Commit, Shape, DataShape
  <2> QED
    BY <1>5, <2>2 DEF Commit, Shape, DataShape
<1>6. ASSUME NEW t \in Threads, Serve(t)
      PROVE  Shape'
  <2> USE DEF Goto
  <2>1. CASE SchemaFetched(t)
    <3>1. ThreadShape'
      BY <2>1, GotoShape DEF SchemaFetched, Shape, ThreadShape, Serving,
                             Writing, Places
    <3> QED
      BY <2>1, <3>1 DEF SchemaFetched, Shape, DataShape
  <2>2. CASE SchemaLost(t)
    <3>1. cache' = "none"
      BY <2>2 DEF SchemaLost
    <3>2. CASE op[t] = "propose" /\ Leave(t) /\ UNCHANGED callerVars
      BY <2>2, <3>2, LeaveShape DEF SchemaLost, Shape, DataShape
    <3>3. CASE op[t] = "status" /\ Answer(t, "unknown", NoRecord)
      <4>1. ThreadShape'
        BY <3>3, LeaveShape DEF Answer, Shape
      <4>2. req[t] \in Requests /\ key[t] \in Keys
        BY <2>2, <3>3 DEF SchemaLost, Shape, ThreadShape, Serving
      <4>3. replies' \subseteq Reply /\ issued' = issued
            /\ restarts' = restarts
        BY <3>3, <4>2, SayShape DEF Answer, Shape, Verdicts
      <4> QED
        BY <2>2, <3>3, <4>1, <4>3 DEF SchemaLost, Answer, Shape, DataShape
    <3> QED
      BY <2>2, <3>2, <3>3 DEF SchemaLost
  <2>3. CASE Propounded(t) \/ ProposeRefused(t)
    <3>1. prop[t] \in Proposals
      BY <2>3 DEF Propounded, ProposeRefused, Shape, ThreadShape, Serving
    <3> QED
      BY <2>3, <3>1, LeaveShape
         DEF Propounded, ProposeRefused, Shape, DataShape
  <2>4. ASSUME pc[t] \in Writing \cup {"probe"}, NEW v \in Verdicts,
               NEW r \in Ids \cup {NoRecord}, Answer(t, v, r),
               UNCHANGED shimVars, UNCHANGED odooVars
        PROVE  Shape'
    BY <2>4, AnswerShape DEF Writing, Shape, ThreadShape, Serving
  <2>5. ASSUME pc[t] \in Writing \cup {"probe"}, op[t] = "commit",
               NEW p \in Writing \cup {"probe"}, pc' = [pc EXCEPT ![t] = p],
               UNCHANGED <<op, key, prop, req>>,
               copy' \in [Threads -> 0 .. Hidden],
               stamped' \in [Threads -> BOOLEAN],
               found' \in [Threads -> Ids \cup {NoRecord}]
        PROVE  ThreadShape'
    BY <2>5, GotoShape DEF Writing, Shape, Places
  <2>6. \A u \in Threads : pc[u] \in Writing => op[u] = "commit"
    BY DEF Shape, ThreadShape, Serving
  <2>7. CASE Prepare(t)
    <3>1. ThreadShape'
      <4>1. stamped' \in [Threads -> BOOLEAN]
        BY <2>7, FlagsAssumption DEF Prepare, Shape, ThreadShape
      <4> QED
        BY <2>5, <2>6, <2>7, <4>1 DEF Prepare, Writing, Shape, ThreadShape
    <3> QED
      BY <2>7, <3>1 DEF Prepare, Shape, DataShape
  <2>8. CASE \/ PrepareFails(t) \/ ProbeAmbiguous(t) \/ ProbeFails(t)
             \/ Reject(t) \/ ConfirmFails(t) \/ ReprobeInconclusive(t)
             \/ VerifyFails(t) \/ EmitFails(t) \/ Emit(t)
    <3>1. found[t] \in Ids \cup {NoRecord}
      BY DEF Shape, ThreadShape
    <3> QED
      BY <2>4, <2>8, <3>1
         DEF PrepareFails, ProbeAmbiguous, ProbeFails, Reject, ConfirmFails,
             ReprobeInconclusive, VerifyFails, EmitFails, Emit, Writing,
             Verdicts
  <2>9. CASE ProbeMisses(t)
    <3>1. CASE Answer(t, "not_found", NoRecord)
      BY <2>4, <2>9, <3>1 DEF ProbeMisses, Verdicts
    <3>2. CASE ~Answer(t, "not_found", NoRecord)
      <4>1. ThreadShape'
        BY <2>5, <2>9, <3>2
           DEF ProbeMisses, Writing, Shape, ThreadShape
      <4> QED
        BY <2>9, <3>2, <4>1 DEF ProbeMisses, Shape, DataShape
    <3> QED
      BY <3>1, <3>2
  <2>10. CASE ProbeFinds(t)
    <3>1. PICK r \in records :
            \/ /\ op[t] = "commit"
               /\ pc' = [pc EXCEPT ![t] = "verify"]
               /\ found' = [found EXCEPT ![t] = r.id]
               /\ UNCHANGED <<op, key, prop, req, stamped, callerVars>>
            \/ /\ op[t] = "status"
               /\ Answer(t, "executed", r.id)
      BY <2>10 DEF ProbeFinds
    <3>2. r.id \in Ids
      BY DEF Shape, DataShape, Record
    <3>3. CASE Answer(t, "executed", r.id)
      BY <2>4, <2>10, <3>2, <3>3 DEF ProbeFinds, Verdicts
    <3>4. CASE ~Answer(t, "executed", r.id)
      <4>1. ThreadShape'
        BY <2>5, <2>10, <3>1, <3>2, <3>4
           DEF ProbeFinds, Writing, Shape, ThreadShape
      <4> QED
        BY <2>10, <3>1, <3>4, <4>1 DEF ProbeFinds, Shape, DataShape
    <3> QED
      BY <3>3, <3>4
  <2>11. CASE Apply(t)
    <3>1. ThreadShape'
      BY <2>5, <2>6, <2>11 DEF Apply, Writing, Shape, ThreadShape
    <3>2. Draft(t) \in Record
      BY <2>11, DraftShape DEF Apply, Writing
    <3> QED
      BY <2>11, <3>1, <3>2 DEF Apply, Shape, DataShape
  <2>12. CASE CreateAnswered(t) \/ Confirm(t)
    <3>1. Own(t) \in Ids
      BY <2>12, DraftShape DEF CreateAnswered, Confirm, Writing
    <3>2. ThreadShape'
      BY <2>5, <2>6, <2>12, <3>1
         DEF CreateAnswered, Confirm, Writing, Shape, ThreadShape
    <3> QED
      BY <2>12, <3>2 DEF CreateAnswered, Confirm, Shape, DataShape
  <2>13. CASE ReprobeFinds(t)
    <3>1. PICK r \in records : found' = [found EXCEPT ![t] = r.id]
      BY <2>13 DEF ReprobeFinds
    <3>2. r.id \in Ids
      BY DEF Shape, DataShape, Record
    <3>3. ThreadShape'
      BY <2>5, <2>6, <2>13, <3>1, <3>2
         DEF ReprobeFinds, Writing, Shape, ThreadShape
    <3> QED
      BY <2>13, <3>3 DEF ReprobeFinds, Shape, DataShape
  <2>14. CASE AnswerLost(t)
    <3>1. pc[t] \in Writing /\ Draft(t) \in Record
      BY <2>14, DraftShape DEF AnswerLost, Writing
    <3>2. orphans' \subseteq Record
      BY <2>14, <3>1 DEF AnswerLost, Shape, DataShape
    <3>3. CASE Answer(t, "suspended", NoRecord)
      <4>1. ThreadShape'
        BY <3>3, LeaveShape DEF Answer, Shape
      <4>2. req[t] \in Requests /\ key[t] \in Keys
        BY <2>6, <3>1 DEF Writing, Shape, ThreadShape, Serving
      <4>3. replies' \subseteq Reply /\ issued' = issued
            /\ restarts' = restarts
        BY <3>3, <4>2, SayShape DEF Answer, Shape, Verdicts
      <4> QED
        BY <2>14, <3>2, <3>3, <4>1, <4>3
           DEF AnswerLost, Answer, Shape, DataShape
    <3>4. CASE ~Answer(t, "suspended", NoRecord)
      <4>1. ThreadShape'
        BY <2>5, <2>6, <2>14, <3>1, <3>4
           DEF AnswerLost, Writing, Shape, ThreadShape
      <4> QED
        BY <2>14, <3>2, <3>4, <4>1 DEF AnswerLost, Shape, DataShape
    <3> QED
      BY <3>3, <3>4
  <2>15. CASE Verify(t)
    <3>1. ThreadShape'
      BY <2>5, <2>6, <2>15 DEF Verify, Writing, Shape, ThreadShape
    <3>2. prop[t] \in Proposals /\ found[t] \in Ids \cup {NoRecord}
      BY <2>6, <2>15 DEF Verify, Writing, Shape, ThreadShape, Serving
    <3> QED
      BY <2>15, <3>1, <3>2 DEF Verify, Shape, DataShape
  <2>16. CASE Resend(t)
    <3>1. pc[t] \in Writing /\ Draft(t) \in Record
      BY <2>16, DraftShape DEF Resend, Writing
    <3>2. orphans' \subseteq Record
      BY <2>16, <3>1 DEF Resend, Shape, DataShape
    <3>3. copy' \in [Threads -> 0 .. Hidden]
      BY <2>16, HiddenAssumption DEF Resend, Shape, ThreadShape
    <3>4. ThreadShape'
      BY <2>5, <2>6, <2>16, <3>1, <3>3
         DEF Resend, Writing, Shape, ThreadShape
    <3> QED
      BY <2>16, <3>2, <3>4 DEF Resend, Shape, DataShape
  <2> QED
    BY <1>6, <2>1, <2>2, <2>3, <2>7, <2>8, <2>9, <2>10, <2>11, <2>12, <2>13,
       <2>14, <2>15, <2>16 DEF Serve
<1>7. CASE Settle
  BY <1>7 DEF Settle, Land, Drop, threadVars, Shape, ThreadShape, DataShape,
              Serving
<1>8. CASE Restart
  <2>1. ThreadShape'
    BY <1>8, Numbers, BoundsAssumption
       DEF Restart, ThreadShape, Serving, Writing, Places, Ops
  <2>2. \A t \in Threads : pc[t] = "sent" => Draft(t) \in Record
    BY DraftShape DEF Writing
  <2> QED
    BY <1>8, <2>1, <2>2, Numbers DEF Restart, Shape, DataShape
<1> QED
  BY <1>1, <1>2, <1>3, <1>4, <1>5, <1>6, <1>7, <1>8 DEF Next, Ask, Shape,
     DataShape

LEMMA ShapeHolds == Spec => []Shape
<1>1. Init => Shape
  BY Numbers, BoundsAssumption, NoProposalAssumption
     DEF Init, Shape, ThreadShape, DataShape, Serving, Writing, Places, Ops
<1> QED
  BY <1>1, ShapeStep, PTL DEF Spec

(* Type correctness of PROPOSE, COMMIT and STATUS.                         *)
THEOREM TypeCorrect == Spec => []TypeOK
<1>1. Shape => TypeOK
  BY DEF Shape, ThreadShape, DataShape, TypeOK
<1> QED
  BY <1>1, ShapeHolds, PTL

-----------------------------------------------------------------------------
(* In every environment, what is said and remembered is of Odoo.  `Made`   *)
(* pairs the id of each record with the marker of its key; Odoo never      *)
(* loses a record, so a pair once there stays.                             *)
Made == {<<r.id, MarkerOf[r.key]>> : r \in records}

RealInv ==
  /\ \A k \in Keys : ledger[k] # NoRecord => <<ledger[k], MarkerOf[k]>> \in Made
  /\ \A t \in Threads :
       pc[t] \in {"verify", "emit"} => <<found[t], MarkerOf[key[t]]>> \in Made
  /\ \A t \in Threads :
       pc[t] \in {"applied", "confirm"} => <<Own(t), MarkerOf[key[t]]>> \in Made
  /\ \A a \in replies :
       a.verdict = "executed" => <<a.rec, MarkerOf[a.key]>> \in Made
  /\ executed # {} => \E k \in Keys : ledger[k] # NoRecord

LEMMA RecordsGrow == [Next]_vars => Made \subseteq Made'
<1> SUFFICES ASSUME [Next]_vars PROVE records \subseteq records'
  BY DEF Made
<1> USE DEF odooVars
<1>1. ASSUME NEW t \in Threads, Ask(t)
      PROVE  records' = records
  BY <1>1 DEF Ask, Propose, Replay, CommitUnknown, Commit, Status,
              StatusUnknown
<1>2. ASSUME NEW t \in Threads, Serve(t)
      PROVE  records \subseteq records'
  BY <1>2 DEF Serve, SchemaFetched, SchemaLost, Propounded, ProposeRefused,
              Prepare, PrepareFails, ProbeMisses, ProbeFinds, ProbeAmbiguous,
              ProbeFails, Apply, Resend, Reject, CreateAnswered, AnswerLost,
              ConfirmFails, Confirm, ReprobeFinds, ReprobeInconclusive,
              VerifyFails, Verify, Emit, EmitFails
<1>3. Settle \/ Restart \/ UNCHANGED vars => records \subseteq records'
  BY DEF Settle, Land, Drop, Restart, vars
<1> QED
  BY <1>1, <1>2, <1>3 DEF Next

LEMMA RealStep == Shape /\ RealInv /\ [Next]_vars => RealInv'
<1> SUFFICES ASSUME Shape, RealInv, [Next]_vars PROVE RealInv'
  OBVIOUS
<1>0. Made \subseteq Made'
  BY RecordsGrow
<1> USE DEF RealInv, shimVars, callerVars, Goto, Own
<1>1. CASE UNCHANGED vars
  BY <1>0, <1>1 DEF vars, threadVars
<1>2. ASSUME NEW t \in Threads, Ask(t)
      PROVE  RealInv'
  <2>1. ASSUME NEW o, NEW k, NEW pr, NEW p, Receive(t, o, k, pr, p),
               p \in {"gate", "schema", "probe", "prepare"},
               UNCHANGED <<ledger, executed, replies>>
        PROVE  RealInv'
    BY <1>0, <2>1 DEF Receive, Shape, ThreadShape
  <2>2. ASSUME NEW k \in Keys, NEW v, NEW r, AnswerNow(t, k, v, r),
               UNCHANGED shimVars,
               v = "executed" => <<r, MarkerOf[k]>> \in Made
        PROVE  RealInv'
    BY <1>0, <2>2 DEF AnswerNow, Say, threadVars
  <2> QED
    BY <1>2, <2>1, <2>2 DEF Ask, Propose, Replay, CommitUnknown, Commit,
                            Status, StatusUnknown
<1>3. ASSUME NEW t \in Threads, Serve(t)
      PROVE  RealInv'
  <2>1. ASSUME NEW v, NEW r, Answer(t, v, r), UNCHANGED <<ledger, executed>>,
               v = "executed" => <<r, MarkerOf[key[t]]>> \in Made
        PROVE  RealInv'
    <3>1. \A u \in Threads :
            /\ u = t => pc'[u] = "idle"
            /\ u # t => /\ pc'[u] = pc[u] /\ key'[u] = key[u]
                       /\ req'[u] = req[u] /\ copy'[u] = copy[u]
                       /\ found'[u] = found[u]
      BY <2>1 DEF Answer, Leave, Shape, ThreadShape
    <3>2. \A a \in replies' :
            a.verdict = "executed" => <<a.rec, MarkerOf[a.key]>> \in Made
      BY <2>1 DEF Answer, Say
    <3>3. \A u \in Threads :
            pc'[u] \in {"verify", "emit"} =>
              <<found'[u], MarkerOf[key'[u]]>> \in Made'
      BY <1>0, <3>1
    <3>4. \A u \in Threads :
            pc'[u] \in {"applied", "confirm"} =>
              <<<<req'[u], copy'[u]>>, MarkerOf[key'[u]]>> \in Made'
      BY <1>0, <3>1
    <3> QED
      BY <1>0, <2>1, <3>2, <3>3, <3>4
  <2>2. ASSUME NEW p, pc' = [pc EXCEPT ![t] = p],
               UNCHANGED <<ledger, executed, key, replies>>,
               \A u \in Threads : u # t => found'[u] = found[u],
               req' = req, \A u \in Threads : u # t => copy'[u] = copy[u],
               p \in {"verify", "emit"} =>
                 <<found'[t], MarkerOf[key[t]]>> \in Made,
               p \in {"applied", "confirm"} =>
                 copy' = copy /\ <<Own(t), MarkerOf[key[t]]>> \in Made'
        PROVE  RealInv'
    <3>1. \A u \in Threads :
            /\ key'[u] = key[u]
            /\ pc'[u] = IF u = t THEN p ELSE pc[u]
      BY <2>2 DEF Shape, ThreadShape
    <3>2. \A u \in Threads :
            pc'[u] \in {"verify", "emit"} =>
              <<found'[u], MarkerOf[key'[u]]>> \in Made'
      BY <1>0, <2>2, <3>1
    <3>3. \A u \in Threads :
            pc'[u] \in {"applied", "confirm"} =>
              <<<<req'[u], copy'[u]>>, MarkerOf[key'[u]]>> \in Made'
      BY <1>0, <2>2, <3>1
    <3> QED
      BY <1>0, <2>2, <3>2, <3>3
  <2>3. CASE SchemaLost(t) \/ Propounded(t) \/ ProposeRefused(t)
    BY <1>0, <2>1, <2>3 DEF SchemaLost, Propounded, ProposeRefused, Leave,
                            Shape, ThreadShape
  <2>4. CASE SchemaFetched(t) \/ Prepare(t)
    BY <2>2, <2>4 DEF SchemaFetched, Prepare
  <2>5. CASE \/ PrepareFails(t) \/ ProbeAmbiguous(t) \/ ProbeFails(t)
             \/ Reject(t) \/ ConfirmFails(t) \/ ReprobeInconclusive(t)
             \/ VerifyFails(t) \/ EmitFails(t) \/ Emit(t)
    BY <2>1, <2>5
       DEF PrepareFails, ProbeAmbiguous, ProbeFails, Reject, ConfirmFails,
           ReprobeInconclusive, VerifyFails, EmitFails, Emit
  <2>6. CASE ProbeMisses(t) \/ AnswerLost(t)
    BY <2>1, <2>2, <2>6 DEF ProbeMisses, AnswerLost
  <2>7. CASE Apply(t)
    <3>0. Draft(t) \in records' /\ Draft(t).id = Own(t) /\ Draft(t).key = key[t]
      BY <2>7 DEF Apply, Draft
    <3>1. <<Own(t), MarkerOf[key[t]]>> \in Made'
      BY <3>0 DEF Made
    <3> QED
      BY <2>2, <2>7, <3>1 DEF Apply
  <2>8. CASE CreateAnswered(t) \/ Confirm(t)
    BY <1>0, <2>2, <2>8 DEF CreateAnswered, Confirm, Shape, ThreadShape
  <2>9. \A r \in Hits(key[t]) : <<r.id, MarkerOf[key[t]]>> \in Made
    BY DEF Hits, SameMarker, Made
  <2>10. CASE ProbeFinds(t) \/ ReprobeFinds(t)
    <3>1. PICK r \in records :
            /\ Hits(key[t]) = {r}
            /\ \/ pc' = [pc EXCEPT ![t] = "verify"]
                  /\ found' = [found EXCEPT ![t] = r.id]
                  /\ UNCHANGED <<op, key, prop, req, stamped, callerVars>>
               \/ Answer(t, "executed", r.id)
      BY <2>10 DEF ProbeFinds, ReprobeFinds
    <3>2. <<r.id, MarkerOf[key[t]]>> \in Made
      BY <2>9, <3>1
    <3> QED
      BY <2>1, <2>2, <2>10, <3>1, <3>2
         DEF ProbeFinds, ReprobeFinds, Shape, ThreadShape
  <2>11. CASE Verify(t)
    <3>1. <<found[t], MarkerOf[key[t]]>> \in Made /\ found[t] # NoRecord
      BY <2>11, Numbers DEF Verify, Made, Shape, DataShape, Record
    <3>2. key[t] \in Keys
      BY <2>11 DEF Verify, Shape, ThreadShape, Serving, Writing
    <3>3. ledger' = [ledger EXCEPT ![key[t]] = found[t]]
      BY <2>11 DEF Verify
    <3>4. ledger'[key[t]] # NoRecord
      BY <3>1, <3>2, <3>3 DEF Shape, DataShape
    <3>5. \A k \in Keys :
            ledger'[k] # NoRecord => <<ledger'[k], MarkerOf[k]>> \in Made
      BY <3>1, <3>2, <3>3 DEF Shape, DataShape
    <3> QED
      BY <1>0, <2>11, <3>1, <3>2, <3>4, <3>5 DEF Verify, Shape, ThreadShape
  <2>12. CASE Resend(t)
    BY <2>2, <2>12 DEF Resend, Shape, ThreadShape
  <2> QED
    BY <1>3, <2>3, <2>4, <2>5, <2>6, <2>7, <2>8, <2>10, <2>11, <2>12 DEF Serve
<1>4. CASE Settle
  BY <1>0, <1>4 DEF Settle, Land, Drop, threadVars, Own
<1>5. CASE Restart
  BY <1>0, <1>5 DEF Restart
<1> QED
  BY <1>1, <1>2, <1>3, <1>4, <1>5 DEF Next

LEMMA RealHolds == Spec => []RealInv
<1>1. Init => RealInv
  BY DEF Init, RealInv
<1> QED
  BY <1>1, RealStep, ShapeHolds, PTL DEF Spec

(* Whatever the environment does - callers that overlap, writes that land  *)
(* late, a schema that cannot be read, restarts - an `executed` answer     *)
(* names a record that a commit with this key's marker made.               *)
THEOREM ExecutedReal == Spec => []ExecutedIsReal
<1>1. RealInv => ExecutedIsReal
  BY DEF RealInv, Made, ExecutedIsReal, SameMarker
<1> QED
  BY <1>1, RealHolds, PTL

(* And the memory of the adapter is never ahead of Odoo.                   *)
THEOREM MemoryAgreed == Spec => []MemoryAgrees
<1>1. RealInv => MemoryAgrees
  BY DEF RealInv, Made, MemoryAgrees, SameMarker
<1> QED
  BY <1>1, RealHolds, PTL

-----------------------------------------------------------------------------
(* A request is numbered once, answered once, and makes no record but in   *)
(* its create: before it is sent no record or pending write has its number.*)
Writes == records \cup orphans

Unsent == {"schema", "gate", "prepare", "probe"}

NumberInv ==
  /\ \A r \in Writes : Maker(r) <= requests
  /\ \A a \in replies : a.req <= requests
  /\ \A t \in Threads : req[t] <= requests
  /\ \A t, u \in Threads :
       t # u /\ pc[t] # "idle" /\ pc[u] # "idle" => req[t] # req[u]
  /\ \A t \in Threads : pc[t] # "idle" => \A a \in replies : a.req # req[t]
  /\ \A t \in Threads :
       pc[t] \in Unsent => \A r \in Writes : Maker(r) # req[t]
  /\ RefusalIsTrue

(* How a step may touch the writes: a thread at "sent" may add its own; a  *)
(* restart leaves those of all threads at "sent" behind.                   *)
LEMMA AskWrites ==
  ASSUME NEW t \in Threads, Ask(t)
  PROVE  UNCHANGED <<records, orphans>>
BY DEF Ask, Propose, Replay, CommitUnknown, Commit, Status, StatusUnknown,
       odooVars

LEMMA ServeWrites ==
  ASSUME NEW t \in Threads, Serve(t)
  PROVE  \A r \in Writes' : r \in Writes \/ (pc[t] = "sent" /\ r = Draft(t))
<1> USE DEF Writes, odooVars
<1>1. CASE Apply(t) \/ Resend(t) \/ AnswerLost(t)
  BY <1>1 DEF Apply, Resend, AnswerLost, Goto
<1> QED
  BY <1>1
     DEF Serve, SchemaFetched, SchemaLost, Propounded, ProposeRefused, Prepare,
         PrepareFails, ProbeMisses, ProbeFinds, ProbeAmbiguous, ProbeFails,
         Reject, CreateAnswered, ConfirmFails, Confirm, ReprobeFinds,
         ReprobeInconclusive, VerifyFails, Verify, Emit, EmitFails

LEMMA RestartWrites ==
  ASSUME Restart
  PROVE  \A r \in Writes' :
           \/ r \in Writes
           \/ \E t \in Threads : pc[t] = "sent" /\ r = Draft(t)
BY DEF Restart, Writes

LEMMA SettleWrites ==
  ASSUME Settle \/ UNCHANGED vars
  PROVE  Writes' \subseteq Writes
BY DEF Settle, Land, Drop, Writes, vars, odooVars

LEMMA NumberStep == Shape /\ NumberInv /\ [Next]_vars => NumberInv'
<1> SUFFICES ASSUME Shape, NumberInv, [Next]_vars PROVE NumberInv'
  OBVIOUS
<1>2. /\ requests \in Nat
      /\ \A t \in Threads : req[t] \in Nat
      /\ \A a \in replies : a.req \in Nat
      /\ \A r \in Writes : Maker(r) \in Nat
  BY BoundsAssumption
     DEF Shape, ThreadShape, DataShape, Reply, Record, Ids, Requests, Maker,
         Writes
<1> USE DEF NumberInv, RefusalIsTrue, Unsent, callerVars
<1>3. ASSUME NEW n \in Nat, n = requests + 1, requests' = n, Writes' = Writes
      PROVE  /\ \A r \in Writes' : Maker(r) <= requests' /\ Maker(r) # n
             /\ \A a \in replies : a.req <= requests' /\ a.req # n
             /\ \A t \in Threads : req[t] <= requests' /\ req[t] # n
  BY <1>2, <1>3
<1>4. ASSUME NEW t \in Threads, Ask(t)
      PROVE  NumberInv'
  <2>1. Writes' = Writes
    BY <1>4, AskWrites DEF Writes
  <2>2. ASSUME NEW o, NEW k, NEW pr, NEW p, Receive(t, o, k, pr, p),
               UNCHANGED replies
        PROVE  NumberInv'
    <3>1. requests + 1 \in Nat /\ requests' = requests + 1
      BY <1>2, <2>2 DEF Receive
    <3>2. /\ \A r \in Writes' : Maker(r) <= requests' /\ Maker(r) # requests + 1
          /\ \A a \in replies : a.req <= requests' /\ a.req # requests + 1
          /\ \A u \in Threads : req[u] <= requests' /\ req[u] # requests + 1
      BY <1>3, <2>1, <3>1
    <3> QED
      BY <1>2, <2>1, <2>2, <3>1, <3>2 DEF Receive, Shape, ThreadShape, Writes
  <2>3. ASSUME NEW k \in Keys, NEW v, NEW r, AnswerNow(t, k, v, r)
        PROVE  NumberInv'
    <3>1. requests + 1 \in Nat /\ requests' = requests + 1
      BY <1>2, <2>3 DEF AnswerNow
    <3>2. /\ \A w \in Writes' : Maker(w) <= requests' /\ Maker(w) # requests + 1
          /\ \A a \in replies : a.req <= requests' /\ a.req # requests + 1
          /\ \A u \in Threads : req[u] <= requests' /\ req[u] # requests + 1
      BY <1>3, <2>1, <3>1
    <3> QED
      BY <1>2, <2>1, <2>3, <3>1, <3>2
         DEF AnswerNow, Say, threadVars, Shape, ThreadShape, Writes
  <2> QED
    BY <1>4, <2>2, <2>3 DEF Ask, Propose, Replay, CommitUnknown, Commit,
                            Status, StatusUnknown
<1>5. ASSUME NEW t \in Threads, Serve(t)
      PROVE  NumberInv'
  <2>0. \A r \in Writes' :
          \/ r \in Writes
          \/ pc[t] = "sent" /\ Maker(r) = req[t] /\ Maker(r) <= requests
    BY <1>5, ServeWrites DEF Draft, Own, Maker
  <2>1. ASSUME NEW v, NEW r, Answer(t, v, r), pc[t] # "idle",
               v \in {"unavailable", "expired"} => pc[t] \in Unsent
        PROVE  NumberInv'
    <3>1. replies' = replies \cup
            {[req |-> req[t], key |-> key[t], verdict |-> v, rec |-> r]}
      BY <2>1 DEF Answer, Say
    <3>2. \A a \in replies' :
            \/ a \in replies
            \/ a.req = req[t] /\ a.verdict = v
      BY <3>1
    <3>3. /\ requests' = requests
          /\ pc' = [pc EXCEPT ![t] = "idle"]
          /\ req' = [req EXCEPT ![t] = 0]
      BY <2>1 DEF Answer, Leave
    <3>4. RefusalIsTrue'
      BY <2>0, <2>1, <3>2 DEF Writes
    <3> QED
      BY <2>0, <1>2, <2>1, <3>2, <3>3, <3>4 DEF Shape, ThreadShape
  <2>2. ASSUME NEW p, pc' = [pc EXCEPT ![t] = p], p # "idle", pc[t] # "idle",
               req' = req, UNCHANGED callerVars,
               p \in Unsent => pc[t] \in Unsent
        PROVE  NumberInv'
    <3>1. RefusalIsTrue'
      BY <2>0, <2>2 DEF Writes
    <3> QED
      BY <2>0, <1>2, <2>2, <3>1 DEF Shape, ThreadShape
  <2>3. ASSUME Leave(t), UNCHANGED callerVars
        PROVE  NumberInv'
    <3>1. RefusalIsTrue'
      BY <2>0, <2>3 DEF Writes
    <3> QED
      BY <2>0, <1>2, <2>3, <3>1 DEF Leave, Shape, ThreadShape
  <2>4. CASE SchemaFetched(t) \/ Prepare(t) \/ ProbeMisses(t) \/ ProbeFinds(t)
    BY <2>1, <2>2, <2>4
       DEF SchemaFetched, Prepare, ProbeMisses, ProbeFinds, Goto
  <2>5. CASE SchemaLost(t) \/ Propounded(t) \/ ProposeRefused(t)
    BY <2>1, <2>3, <2>5 DEF SchemaLost, Propounded, ProposeRefused
  <2>6. CASE \/ PrepareFails(t) \/ ProbeAmbiguous(t) \/ ProbeFails(t)
             \/ Reject(t) \/ ConfirmFails(t) \/ ReprobeInconclusive(t)
             \/ VerifyFails(t) \/ EmitFails(t) \/ Emit(t)
    BY <2>1, <2>6
       DEF PrepareFails, ProbeAmbiguous, ProbeFails, Reject, ConfirmFails,
           ReprobeInconclusive, VerifyFails, EmitFails, Emit
  <2>7. CASE \/ Apply(t) \/ Resend(t) \/ CreateAnswered(t) \/ Confirm(t)
             \/ ReprobeFinds(t) \/ Verify(t)
    BY <2>2, <2>7
       DEF Apply, Resend, CreateAnswered, Confirm, ReprobeFinds, Verify, Goto
  <2>8. CASE AnswerLost(t)
    BY <2>1, <2>2, <2>8 DEF AnswerLost
  <2> QED
    BY <1>5, <2>4, <2>5, <2>6, <2>7, <2>8 DEF Serve
<1>6. CASE Settle \/ UNCHANGED vars
  <2>1. Writes' \subseteq Writes
    BY <1>6, SettleWrites
  <2> QED
    BY <1>6, <2>1 DEF Settle, Land, Drop, threadVars, vars, Writes
<1>7. CASE Restart
  <2>0. \A r \in Writes' :
          \/ r \in Writes
          \/ \E t \in Threads :
               pc[t] = "sent" /\ Maker(r) = req[t] /\ Maker(r) <= requests
    BY <1>7, RestartWrites DEF Draft, Own, Maker
  <2>1. RefusalIsTrue'
    BY <2>0, <1>7 DEF Restart, Writes
  <2> QED
    BY <2>0, <1>2, <1>7, <2>1 DEF Restart
<1> QED
  BY <1>4, <1>5, <1>6, <1>7 DEF Next

LEMMA NumberHolds == Spec => []NumberInv
<1>1. Init => NumberInv
  BY DEF Init, NumberInv, RefusalIsTrue, Writes, Unsent
<1> QED
  BY <1>1, NumberStep, ShapeHolds, PTL DEF Spec

(* In every environment, "nothing was written" is true and stays true.     *)
THEOREM RefusalsTrue == Spec => []RefusalIsTrue
<1>1. NumberInv => RefusalIsTrue
  BY DEF NumberInv
<1> QED
  BY <1>1, NumberHolds, PTL

-----------------------------------------------------------------------------
(* The environment under which COMMIT keeps its promise: the callers of a  *)
(* key wait for their answers, a probe never overtakes a write, the schema *)
(* can always be read, and the verb declares an idempotency field.         *)
Sound == ~Overlap /\ ~LateLanding /\ ~SchemaFaults /\ HasIdemField

(* Then the schema, once read, stays: whoever commits, commits with it.    *)
SchemaInv ==
  /\ cache # "none"
  /\ proposals # {} => cache = "live"
  /\ \A t \in Threads : pc[t] = "gate" \/ op[t] = "commit" => cache = "live"

(* A commit that passed "prepare" carries the marker, and so does all that *)
(* was ever sent.                                                          *)
StampInv ==
  /\ SchemaInv
  /\ \A t \in Threads :
       op[t] = "commit" /\ pc[t] \in {"probe", "sent", "applied", "reprobe"}
         => stamped[t]
  /\ \A r \in Writes : r.stamped

LEMMA StampStep ==
  ASSUME Sound
  PROVE  Shape /\ StampInv /\ [Next]_vars => StampInv'
<1> SUFFICES ASSUME Shape, StampInv, [Next]_vars PROVE StampInv'
  OBVIOUS
<1> USE DEF Sound, StampInv, SchemaInv, shimVars
<1>1. ASSUME NEW t \in Threads, Ask(t)
      PROVE  StampInv'
  <2>1. \A r \in Writes' : r.stamped
    BY <1>1, AskWrites DEF Writes
  <2>2. ASSUME NEW o, NEW k, NEW pr, NEW p, Receive(t, o, k, pr, p),
               UNCHANGED shimVars, o = "commit" => p = "prepare",
               p = "gate" \/ o = "commit" => cache = "live"
        PROVE  StampInv'
    BY <2>1, <2>2 DEF Receive, Shape, ThreadShape
  <2>3. ASSUME NEW k \in Keys, NEW v, NEW r, AnswerNow(t, k, v, r),
               UNCHANGED shimVars
        PROVE  StampInv'
    BY <2>1, <2>3 DEF AnswerNow, threadVars
  <2> QED
    BY <1>1, <2>2, <2>3 DEF Ask, Propose, Replay, CommitUnknown, Commit,
                            Status, StatusUnknown
<1>2. ASSUME NEW t \in Threads, Serve(t)
      PROVE  StampInv'
  <2>0. op[t] = "commit" <=>
          pc[t] \in Writing \/ (pc[t] = "probe" /\ op[t] = "commit")
    BY <1>2 DEF Shape, ThreadShape, Serving, Writing, Serve, SchemaFetched,
       SchemaLost, Propounded, ProposeRefused, Prepare, PrepareFails,
       ProbeMisses, ProbeFinds, ProbeAmbiguous, ProbeFails, Apply, Resend,
       Reject, CreateAnswered, AnswerLost, ConfirmFails, Confirm,
       ReprobeFinds, ReprobeInconclusive, VerifyFails, Verify, Emit,
       EmitFails, Goto
  <2>1. \A r \in Writes' : r.stamped
    BY <1>2, <2>0, ServeWrites DEF Draft, Writing
  <2>2. ASSUME NEW v, NEW r, Answer(t, v, r),
               UNCHANGED <<proposals, cache>>
        PROVE  StampInv'
    BY <2>1, <2>2 DEF Answer, Leave, Shape, ThreadShape
  <2>3. ASSUME NEW p, pc' = [pc EXCEPT ![t] = p], p # "gate",
               UNCHANGED <<op, proposals>>, op[t] = "commit",
               cache' = cache,
               p \in {"probe", "sent", "applied", "reprobe"} => stamped'[t],
               \A u \in Threads : u # t => stamped'[u] = stamped[u]
        PROVE  StampInv'
    BY <2>1, <2>3 DEF Shape, ThreadShape
  <2>4. CASE SchemaFetched(t)
    BY <2>0, <2>1, <2>4 DEF SchemaFetched, Goto, Shape, ThreadShape, Writing
  <2>5. CASE Propounded(t) \/ ProposeRefused(t)
    BY <2>1, <2>5 DEF Propounded, ProposeRefused, Leave, Shape, ThreadShape
  <2>6. CASE Prepare(t)
    BY <2>0, <2>3, <2>6 DEF Prepare, Goto, Shape, ThreadShape, Writing
  <2>7. CASE \/ PrepareFails(t) \/ ProbeAmbiguous(t) \/ ProbeFails(t)
             \/ Reject(t) \/ ConfirmFails(t) \/ ReprobeInconclusive(t)
             \/ VerifyFails(t) \/ EmitFails(t) \/ Emit(t)
    BY <2>2, <2>7
       DEF PrepareFails, ProbeAmbiguous, ProbeFails, Reject, ConfirmFails,
           ReprobeInconclusive, VerifyFails, EmitFails, Emit
  <2>8. CASE ProbeMisses(t) \/ ProbeFinds(t)
    BY <2>2, <2>3, <2>8 DEF ProbeMisses, ProbeFinds
  <2>9. CASE \/ Apply(t) \/ Resend(t) \/ CreateAnswered(t) \/ Confirm(t)
             \/ ReprobeFinds(t) \/ Verify(t)
    BY <2>0, <2>3, <2>9
       DEF Apply, Resend, CreateAnswered, Confirm, ReprobeFinds, Verify, Goto,
           Writing
  <2>10. CASE AnswerLost(t)
    BY <2>0, <2>2, <2>3, <2>10 DEF AnswerLost, Writing
  <2>11. ~SchemaLost(t)
    BY DEF SchemaLost
  <2> QED
    BY <1>2, <2>4, <2>5, <2>6, <2>7, <2>8, <2>9, <2>10, <2>11 DEF Serve
<1>3. CASE Settle \/ UNCHANGED vars
  <2>1. \A r \in Writes' : r.stamped
    BY <1>3, SettleWrites
  <2> QED
    BY <1>3, <2>1 DEF Settle, Land, Drop, threadVars, vars
<1>4. CASE Restart
  <2>1. \A r \in Writes' : r.stamped
    BY <1>4, RestartWrites DEF Draft, Shape, ThreadShape, Serving, Writing
  <2> QED
    BY <1>4, <2>1 DEF Restart
<1> QED
  BY <1>1, <1>2, <1>3, <1>4 DEF Next

LEMMA StampHolds == ASSUME Sound PROVE Spec => []StampInv
<1>1. Init => StampInv
  BY DEF Init, StampInv, SchemaInv, Writes
<1> QED
  BY <1>1, StampStep, ShapeHolds, PTL DEF Spec

(* The key reaches the field of every record a commit makes.               *)
THEOREM Stamped == ASSUME Sound PROVE Spec => []AlwaysStamped
<1>1. StampInv => AlwaysStamped
  BY DEF StampInv, AlwaysStamped, Writes
<1> QED
  BY <1>1, StampHolds, PTL

(* One request per marker is under way.  While a create is on the wire,    *)
(* the writes of its marker, landed or pending, are its own copies: the    *)
(* commit asked, Odoo had settled, and nobody else could add one since.    *)
(* Hence the writes of a marker are all of one request.                    *)
AloneInv ==
  /\ \A t, u \in Threads :
       t # u /\ key[t] # NoKey /\ key[u] # NoKey => ~SameMarker(key[t], key[u])
  /\ \A t \in Threads :
       pc[t] \in {"sent", "applied"} =>
         \A r \in Writes : SameMarker(r.key, key[t]) => Maker(r) = req[t]
  /\ \A r1, r2 \in Writes :
       SameMarker(r1.key, r2.key) => Maker(r1) = Maker(r2)

(* Leaving "probe" empty-handed means that no write has the marker.        *)
LEMMA MissMeansNone ==
  ASSUME Sound, StampInv, NEW t \in Threads, Answers(key[t]),
         Hits(key[t]) = {}
  PROVE  \A r \in Writes : ~SameMarker(r.key, key[t])
BY DEF Sound, StampInv, Answers, Hits, Writes

LEMMA AloneStep ==
  ASSUME Sound
  PROVE  Shape /\ StampInv /\ AloneInv /\ [Next]_vars => AloneInv'
<1> SUFFICES ASSUME Shape, StampInv, AloneInv, [Next]_vars PROVE AloneInv'
  OBVIOUS
<1> USE DEF AloneInv
<1>0. \A t \in Threads : pc[t] \in {"sent", "applied"} => key[t] # NoKey
  BY NoKeyAssumption DEF Shape, ThreadShape, Serving, Writing
<1>1. ASSUME NEW t \in Threads, Ask(t)
      PROVE  AloneInv'
  <2>1. Writes' = Writes
    BY <1>1, AskWrites DEF Writes
  <2>2. ASSUME NEW o, NEW k, NEW pr, NEW p, Receive(t, o, k, pr, p),
               p \notin {"sent", "applied"}, k = NoKey \/ MayAsk(k)
        PROVE  AloneInv'
    <3>1. \A u \in Threads :
            k # NoKey /\ key[u] # NoKey =>
              ~SameMarker(key[u], k) /\ ~SameMarker(k, key[u])
      BY <2>2 DEF MayAsk, Sound, SameMarker
    <3>2. /\ pc' = [pc EXCEPT ![t] = p] /\ key' = [key EXCEPT ![t] = k]
          /\ req' = [req EXCEPT ![t] = requests + 1]
      BY <2>2 DEF Receive
    <3>3. /\ \A u \in Threads : key'[u] = IF u = t THEN k ELSE key[u]
          /\ \A u \in Threads :
               pc'[u] \in {"sent", "applied"} =>
                 u # t /\ pc'[u] = pc[u] /\ req'[u] = req[u]
      BY <2>2, <3>2 DEF Shape, ThreadShape
    <3> QED
      BY <2>1, <3>1, <3>3 DEF SameMarker
  <2>3. ASSUME NEW k \in Keys, NEW v, NEW r, AnswerNow(t, k, v, r)
        PROVE  AloneInv'
    BY <2>1, <2>3 DEF AnswerNow, threadVars, SameMarker
  <2> QED
    BY <1>1, <2>2, <2>3 DEF Ask, Propose, Replay, CommitUnknown, Commit,
                            Status, StatusUnknown
<1>2. ASSUME NEW t \in Threads, Serve(t)
      PROVE  AloneInv'
  <2>1. \A r \in Writes' :
          \/ r \in Writes
          \/ pc[t] = "sent" /\ Maker(r) = req[t] /\ r.key = key[t]
    BY <1>2, ServeWrites DEF Draft, Own, Maker
  <2>2. \A r1, r2 \in Writes' :
          SameMarker(r1.key, r2.key) => Maker(r1) = Maker(r2)
    BY <2>1 DEF SameMarker
  <2>3. \A u \in Threads :
          pc[u] \in {"sent", "applied"} =>
            \A r \in Writes' : SameMarker(r.key, key[u]) => Maker(r) = req[u]
    BY <1>0, <2>1 DEF SameMarker
  <2>4. CASE ProbeMisses(t) /\ op[t] = "commit"
    <3>1. Writes' = Writes /\ key' = key /\ req' = req
      BY <2>4 DEF ProbeMisses, odooVars, Writes
    <3>2. \A r \in Writes : ~SameMarker(r.key, key[t])
      BY <2>4, MissMeansNone DEF ProbeMisses
    <3>3. pc' = [pc EXCEPT ![t] = "sent"]
      BY <2>4 DEF ProbeMisses
    <3> QED
      BY <2>2, <2>3, <3>1, <3>2, <3>3 DEF SameMarker, Shape, ThreadShape
  <2>5. ASSUME NEW p, pc' = [pc EXCEPT ![t] = p],
               p \in {"sent", "applied"} =>
                 pc[t] \in {"sent", "applied"} /\ UNCHANGED <<req, key>>,
               req' = req \/ req' = [req EXCEPT ![t] = 0],
               key' = key \/ key' = [key EXCEPT ![t] = NoKey]
        PROVE  AloneInv'
    <3>1. \A u \in Threads : key'[u] = key[u] \/ (u = t /\ key'[u] = NoKey)
      BY <2>5 DEF Shape, ThreadShape
    <3>2. \A u \in Threads :
            pc'[u] \in {"sent", "applied"} =>
              pc[u] \in {"sent", "applied"} /\ req'[u] = req[u]
              /\ key'[u] = key[u]
      BY <2>5 DEF Shape, ThreadShape
    <3> QED
      BY <2>2, <2>3, <3>1, <3>2 DEF SameMarker
  <2>6. ~(Prepare(t) /\ pc' = [pc EXCEPT ![t] = "sent"])
    <3>1. pc[t] = "prepare" => op[t] = "commit"
      BY DEF Shape, ThreadShape, Serving, Writing
    <3> QED
      BY <3>1 DEF Prepare, Goto, Sound, StampInv, SchemaInv, Shape, ThreadShape
  <2> QED
    BY <1>2, <2>4, <2>5, <2>6
       DEF Serve, SchemaFetched, SchemaLost, Propounded, ProposeRefused,
           Prepare, PrepareFails, ProbeMisses, ProbeFinds, ProbeAmbiguous,
           ProbeFails, Apply, Resend, Reject, CreateAnswered, AnswerLost,
           ConfirmFails, Confirm, ReprobeFinds, ReprobeInconclusive,
           VerifyFails, Verify, Emit, EmitFails, Goto, Answer, Leave
<1>3. CASE Settle \/ UNCHANGED vars
  <2>1. Writes' \subseteq Writes
    BY <1>3, SettleWrites
  <2>2. pc' = pc /\ key' = key /\ req' = req
    BY <1>3 DEF Settle, Land, Drop, vars, threadVars
  <2> QED
    BY <2>1, <2>2 DEF SameMarker
<1>4. CASE Restart
  <2>1. \A r \in Writes' :
          \/ r \in Writes
          \/ \E t \in Threads :
               pc[t] = "sent" /\ Maker(r) = req[t] /\ r.key = key[t]
    BY <1>4, RestartWrites DEF Draft, Own, Maker
  <2>2. \A r1, r2 \in Writes' :
          SameMarker(r1.key, r2.key) => Maker(r1) = Maker(r2)
    BY <1>0, <2>1 DEF SameMarker
  <2> QED
    BY <1>4, <2>2 DEF Restart
<1> QED
  BY <1>1, <1>2, <1>3, <1>4 DEF Next

LEMMA AloneHolds == ASSUME Sound PROVE Spec => []AloneInv
<1>1. Init => AloneInv
  BY DEF Init, AloneInv, Writes
<1> QED
  BY <1>1, AloneStep, StampHolds, ShapeHolds, PTL DEF Spec

(* Over a sound environment the records of a key are all of one create,    *)
(* however often it is committed, before and after restarts and lost       *)
(* answers; over a transport that repeats nothing they are one record.     *)
THEOREM OneRecord == ASSUME Sound PROVE Spec => []OneRecordPerKey
<1>1. Shape /\ StampInv /\ AloneInv => OneRecordPerKey
  <2> SUFFICES ASSUME Shape, StampInv, AloneInv,
                      NEW r1 \in records, NEW r2 \in records,
                      r1.key = r2.key
               PROVE  Maker(r1) = Maker(r2) /\ (Hidden = 0 => r1 = r2)
    BY DEF OneRecordPerKey
  <2>1. Maker(r1) = Maker(r2)
    BY DEF AloneInv, SameMarker, Writes
  <2>2. ASSUME Hidden = 0
        PROVE  r1 = r2
    <3>1. r1 \in Record /\ r2 \in Record
      BY DEF Shape, DataShape
    <3>2. r1.id = r2.id
      BY <2>1, <2>2, <3>1 DEF Record, Ids, Maker
    <3>3. r1.stamped = r2.stamped
      BY <3>1 DEF StampInv, Writes, Record
    <3> QED
      BY <3>1, <3>2, <3>3 DEF Record
  <2> QED
    BY <2>1, <2>2
<1> QED
  BY <1>1, AloneHolds, StampHolds, ShapeHolds, PTL

-----------------------------------------------------------------------------
(* After `not_found` for a key, a record of that key is a later request's: *)
(* none is there or pending, and no commit asked for earlier is under way. *)
NotFoundInv ==
  \A a \in replies :
    a.verdict = "not_found" =>
      /\ \A r \in Writes : r.key = a.key => Maker(r) > a.req
      /\ \A t \in Threads :
           op[t] = "commit" /\ key[t] = a.key => req[t] > a.req

LEMMA NotFoundStep ==
  ASSUME Sound
  PROVE  Shape /\ NumberInv /\ StampInv /\ AloneInv /\ NotFoundInv
           /\ [Next]_vars => NotFoundInv'
<1> SUFFICES ASSUME Shape, NumberInv, StampInv, AloneInv, NotFoundInv,
                    [Next]_vars
             PROVE  NotFoundInv'
  OBVIOUS
<1> USE DEF NotFoundInv
<1>1. /\ requests \in Nat
      /\ \A a \in replies : a.req \in Nat /\ a.req <= requests
  BY BoundsAssumption DEF Shape, DataShape, Reply, Requests, NumberInv
<1>2. ASSUME NEW t \in Threads, Ask(t)
      PROVE  NotFoundInv'
  <2>1. Writes' = Writes
    BY <1>2, AskWrites DEF Writes
  <2>2. ASSUME NEW o, NEW k, NEW pr, NEW p, Receive(t, o, k, pr, p),
               UNCHANGED replies
        PROVE  NotFoundInv'
    <3>1. req' = [req EXCEPT ![t] = requests + 1]
      BY <2>2 DEF Receive
    <3>2. \A a \in replies : requests + 1 > a.req
      BY <1>1
    <3> QED
      BY <2>1, <2>2, <3>1, <3>2 DEF Receive, Shape, ThreadShape
  <2>3. ASSUME NEW k \in Keys, NEW v, NEW r, AnswerNow(t, k, v, r),
               v # "not_found"
        PROVE  NotFoundInv'
    BY <2>1, <2>3 DEF AnswerNow, Say, threadVars
  <2> QED
    BY <1>2, <2>2, <2>3 DEF Ask, Propose, Replay, CommitUnknown, Commit,
                            Status, StatusUnknown, callerVars
<1>3. ASSUME NEW t \in Threads, Serve(t)
      PROVE  NotFoundInv'
  <2>0. pc[t] = "sent" => op[t] = "commit"
    BY DEF Shape, ThreadShape, Serving, Writing
  <2>1. \A r \in Writes' :
          \/ r \in Writes
          \/ op[t] = "commit" /\ Maker(r) = req[t] /\ r.key = key[t]
    BY <1>3, <2>0, ServeWrites DEF Draft, Own, Maker
  <2>2. ASSUME NEW v, NEW r, Answer(t, v, r), v # "not_found"
        PROVE  NotFoundInv'
    BY <2>1, <2>2 DEF Answer, Leave, Say, Shape, ThreadShape
  <2>3. ASSUME UNCHANGED <<op, key, req, replies>>
        PROVE  NotFoundInv'
    BY <2>1, <2>3
  <2>4. ASSUME Leave(t), UNCHANGED replies
        PROVE  NotFoundInv'
    BY <2>1, <2>4 DEF Leave, Shape, ThreadShape
  <2>5. CASE ProbeMisses(t) /\ Answer(t, "not_found", NoRecord)
    <3>1. \A r \in Writes : r.key # key[t]
      BY <2>5, MissMeansNone DEF ProbeMisses, SameMarker
    <3>2. key[t] # NoKey
      BY <2>5, NoKeyAssumption DEF ProbeMisses, Shape, ThreadShape, Serving
    <3>3. \A u \in Threads : u # t => key[u] # key[t]
      BY <3>2 DEF AloneInv, SameMarker
    <3>4. Writes' = Writes
      BY <2>5 DEF ProbeMisses, odooVars, Writes
    <3>5. replies' = replies \cup
            {[req |-> req[t], key |-> key[t], verdict |-> "not_found",
              rec |-> NoRecord]}
      BY <2>5 DEF Answer, Say
    <3>6. /\ op' = [op EXCEPT ![t] = "none"]
          /\ key' = [key EXCEPT ![t] = NoKey]
          /\ req' = [req EXCEPT ![t] = 0]
      BY <2>5 DEF Answer, Leave
    <3> QED
      BY <3>1, <3>3, <3>4, <3>5, <3>6 DEF Shape, ThreadShape
  <2> QED
    BY <1>3, <2>2, <2>3, <2>4, <2>5
       DEF Serve, SchemaFetched, SchemaLost, Propounded, ProposeRefused,
           Prepare, PrepareFails, ProbeMisses, ProbeFinds, ProbeAmbiguous,
           ProbeFails, Apply, Resend, Reject, CreateAnswered, AnswerLost,
           ConfirmFails, Confirm, ReprobeFinds, ReprobeInconclusive,
           VerifyFails, Verify, Emit, EmitFails, callerVars
<1>4. CASE Settle \/ UNCHANGED vars
  BY <1>4, SettleWrites DEF Settle, Land, Drop, vars, threadVars, callerVars
<1>5. CASE Restart
  <2>1. \A r \in Writes' :
          \/ r \in Writes
          \/ \E t \in Threads :
               op[t] = "commit" /\ Maker(r) = req[t] /\ r.key = key[t]
    BY <1>5, RestartWrites
       DEF Draft, Own, Maker, Shape, ThreadShape, Serving, Writing
  <2> QED
    BY <1>5, <2>1 DEF Restart
<1> QED
  BY <1>2, <1>3, <1>4, <1>5 DEF Next

(* Over a sound environment STATUS may be believed: after `not_found` it   *)
(* is safe to commit again under the same key.                             *)
THEOREM NotFoundTrue == ASSUME Sound PROVE Spec => []NotFoundIsTrue
<1>1. Init => NotFoundInv
  BY DEF Init, NotFoundInv
<1>2. NotFoundInv => NotFoundIsTrue
  BY DEF NotFoundInv, NotFoundIsTrue, Writes
<1> QED
  BY <1>1, <1>2, NotFoundStep, AloneHolds, StampHolds, NumberHolds,
     ShapeHolds, PTL DEF Spec

-----------------------------------------------------------------------------
(* What a step may do to Odoo's records and to the answers: nothing, one   *)
(* more record, or one more answer.                                        *)
LEMMA StepKinds ==
  ASSUME Shape, [Next]_vars
  PROVE  \/ UNCHANGED <<records, replies>>
         \/ /\ UNCHANGED replies
            /\ \E r \in Record : records' = records \cup {r}
         \/ /\ UNCHANGED records
            /\ \E a : replies' = replies \cup {a}
<1> USE DEF odooVars, callerVars
<1>1. ASSUME NEW t \in Threads, Ask(t)
      PROVE  /\ UNCHANGED records
             /\ UNCHANGED replies \/ \E a : replies' = replies \cup {a}
  BY <1>1, AskWrites
     DEF Ask, Propose, Replay, CommitUnknown, Commit, Status, StatusUnknown,
         AnswerNow, Say
<1>2. ASSUME NEW t \in Threads, Serve(t), ~Apply(t)
      PROVE  /\ UNCHANGED records
             /\ UNCHANGED replies \/ \E a : replies' = replies \cup {a}
  BY <1>2
     DEF Serve, SchemaFetched, SchemaLost, Propounded, ProposeRefused, Prepare,
         PrepareFails, ProbeMisses, ProbeFinds, ProbeAmbiguous, ProbeFails,
         Resend, Reject, CreateAnswered, AnswerLost, ConfirmFails, Confirm,
         ReprobeFinds, ReprobeInconclusive, VerifyFails, Verify, Emit,
         EmitFails, Answer, Say
<1>3. ASSUME NEW t \in Threads, Apply(t)
      PROVE  /\ UNCHANGED replies
             /\ \E r \in Record : records' = records \cup {r}
  BY <1>3, DraftShape DEF Apply, Goto, Writing
<1>4. Settle =>
        /\ UNCHANGED replies
        /\ UNCHANGED records \/ \E r \in Record : records' = records \cup {r}
  BY DEF Settle, Land, Drop, Shape, DataShape
<1>5. Restart \/ UNCHANGED vars => UNCHANGED <<records, replies>>
  BY DEF Restart, vars
<1> QED
  BY <1>1, <1>2, <1>3, <1>4, <1>5 DEF Next

(* Markers that tell the keys apart, as _idem_marker does for keys that    *)
(* hold no character it replaces.                                          *)
ExactMarker == \A k1, k2 \in Keys : SameMarker(k1, k2) => k1 = k2

(* What has been told of key k, or is about to be: by an answer, by the    *)
(* ledger, by a request that found it.                                     *)
Named(k, x) ==
  \/ x = ledger[k] /\ x # NoRecord
  \/ \E a \in replies : a.verdict = "executed" /\ a.key = k /\ a.rec = x
  \/ \E t \in Threads :
       pc[t] \in {"verify", "emit"} /\ key[t] = k /\ found[t] = x

(* One record is named for a key, and none while its create is under way.  *)
NamedInv ==
  /\ \A k \in Keys : \A x, y \in Ids : Named(k, x) /\ Named(k, y) => x = y
  /\ \A t \in Threads :
       pc[t] \in {"sent", "applied", "confirm"} =>
         \A x \in Ids : ~Named(key[t], x)

(* What is named for a key is among the records its probe matches.         *)
LEMMA NamedIsHit ==
  ASSUME StampInv, RealInv, NEW k \in Keys, NEW x, Named(k, x)
  PROVE  \E r \in Hits(k) : r.id = x
<1>1. <<x, MarkerOf[k]>> \in Made
  BY DEF Named, RealInv
<1> QED
  BY <1>1 DEF Made, Hits, SameMarker, StampInv, Writes

LEMMA NamedStep ==
  ASSUME Sound, ExactMarker
  PROVE  /\ Shape /\ StampInv /\ AloneInv /\ RealInv /\ NamedInv
         /\ [Next]_vars
         => NamedInv'
<1> SUFFICES ASSUME Shape, StampInv, AloneInv, RealInv, NamedInv, [Next]_vars
             PROVE  NamedInv'
  OBVIOUS
<1> DEFINE W == {"sent", "applied", "confirm"}
<1>0. \A t \in Threads : pc[t] \in W => op[t] = "commit" /\ key[t] \in Keys
  BY DEF Shape, ThreadShape, Serving, Writing
<1> USE DEF NamedInv, shimVars, callerVars, Goto
(* A step after which nothing new is named, and no create is under way     *)
(* that was not.                                                           *)
<1>1. ASSUME \A k \in Keys, x \in Ids : Named(k, x)' => Named(k, x),
             \A u \in Threads :
               pc'[u] \in W => pc[u] \in W /\ key'[u] = key[u]
      PROVE  NamedInv'
  BY <1>0, <1>1
(* A step in which t names n for its key, where nothing else was named.    *)
<1>2. ASSUME NEW t \in Threads, key[t] \in Keys, NEW n \in Ids,
             \A y \in Ids : Named(key[t], y) => y = n,
             \A k \in Keys, x \in Ids :
               Named(k, x)' => Named(k, x) \/ (k = key[t] /\ x = n),
             \A u \in Threads :
               pc'[u] \in W => u # t /\ pc[u] \in W /\ key'[u] = key[u]
      PROVE  NamedInv'
  <2>1. \A u \in Threads : u # t /\ pc[u] \in W => key[u] # key[t]
    BY <1>0, <1>2, NoKeyAssumption DEF AloneInv, SameMarker
  <2> QED
    BY <1>0, <1>2, <2>1
<1>3. ASSUME NEW t \in Threads, Ask(t)
      PROVE  NamedInv'
  <2>1. ASSUME NEW o, NEW k, NEW pr, NEW p, Receive(t, o, k, pr, p),
               p \notin W \cup {"verify", "emit"}, UNCHANGED <<ledger, replies>>
        PROVE  NamedInv'
    <3>1. \A u \in Threads :
            /\ u = t => pc'[u] = p
            /\ u # t => /\ pc'[u] = pc[u] /\ key'[u] = key[u]
                       /\ found'[u] = found[u]
      BY <2>1 DEF Receive, Shape, ThreadShape
    <3> QED
      BY <1>1, <2>1, <3>1 DEF Named
  <2>2. ASSUME NEW k \in Keys, NEW v, NEW r, AnswerNow(t, k, v, r),
               UNCHANGED ledger, v = "executed" => Named(k, r)
        PROVE  NamedInv'
    <3>1. \A a \in replies' :
            a.verdict = "executed" => Named(a.key, a.rec)
      BY <2>2 DEF AnswerNow, Say, Named
    <3>2. UNCHANGED <<pc, key, found>>
      BY <2>2 DEF AnswerNow, threadVars
    <3>3. \A c \in Keys, x \in Ids : Named(c, x)' => Named(c, x)
      BY <2>2, <3>1, <3>2 DEF Named
    <3> QED
      BY <1>1, <3>2, <3>3
  <2>3. ASSUME NEW k \in Keys, Replay(t, k)
        PROVE  NamedInv'
    BY <2>2, <2>3 DEF Replay, Named
  <2> QED
    BY <1>3, <2>1, <2>2, <2>3 DEF Ask, Propose, CommitUnknown, Commit, Status,
                                  StatusUnknown
<1>4. ASSUME NEW t \in Threads, Serve(t)
      PROVE  NamedInv'
  <2>0. pc[t] \in Writing \cup {"probe"} => key[t] \in Keys
    BY DEF Shape, ThreadShape, Serving, Writing
  <2>1. ASSUME NEW v, NEW r, Answer(t, v, r), UNCHANGED ledger,
               v = "executed" => Named(key[t], r)
        PROVE  NamedInv'
    <3>1. \A a \in replies' :
            a.verdict = "executed" => Named(a.key, a.rec)
      BY <2>1 DEF Answer, Say, Named
    <3>2. \A u \in Threads :
            /\ u = t => pc'[u] = "idle"
            /\ u # t => /\ pc'[u] = pc[u] /\ key'[u] = key[u]
                       /\ found'[u] = found[u]
      BY <2>1 DEF Answer, Leave, Shape, ThreadShape
    <3>3. \A c \in Keys, x \in Ids : Named(c, x)' => Named(c, x)
      BY <2>1, <3>1, <3>2 DEF Named
    <3> QED
      BY <1>1, <3>2, <3>3
  <2>2. ASSUME NEW p, pc' = [pc EXCEPT ![t] = p], p \notin {"verify", "emit"},
               UNCHANGED <<ledger, key, found, replies>>,
               p \in W => pc[t] \in W
        PROVE  NamedInv'
    <3>1. \A u \in Threads : pc'[u] = IF u = t THEN p ELSE pc[u]
      BY <2>2 DEF Shape, ThreadShape
    <3>2. \A c \in Keys, x \in Ids : Named(c, x)' => Named(c, x)
      BY <2>2, <3>1 DEF Named
    <3> QED
      BY <1>1, <2>2, <3>1, <3>2
  <2>3. ASSUME Leave(t), UNCHANGED <<ledger, replies>>
        PROVE  NamedInv'
    <3>1. \A u \in Threads :
            /\ u = t => pc'[u] = "idle"
            /\ u # t => /\ pc'[u] = pc[u] /\ key'[u] = key[u]
                       /\ found'[u] = found[u]
      BY <2>3 DEF Leave, Shape, ThreadShape
    <3> QED
      BY <1>1, <2>3, <3>1 DEF Named
  <2>4. ASSUME key[t] \in Keys, NEW n \in Ids,
               \A y \in Ids : Named(key[t], y) => y = n,
               UNCHANGED ledger,
               \/ Answer(t, "executed", n)
               \/ /\ pc' = [pc EXCEPT ![t] = "verify"]
                  /\ found' = [found EXCEPT ![t] = n]
                  /\ UNCHANGED <<key, replies>>
        PROVE  NamedInv'
    <3>1. \A a \in replies' :
            \/ a \in replies
            \/ a.key = key[t] /\ a.rec = n
      BY <2>4 DEF Answer, Say
    <3>2. \A u \in Threads :
            /\ u = t => pc'[u] \in {"idle", "verify"}
            /\ u = t /\ pc'[u] = "verify" => key'[u] = key[u] /\ found'[u] = n
            /\ u # t => /\ pc'[u] = pc[u] /\ key'[u] = key[u]
                       /\ found'[u] = found[u]
      <4>1. CASE Answer(t, "executed", n)
        <5>1. /\ pc' = [pc EXCEPT ![t] = "idle"]
              /\ key' = [key EXCEPT ![t] = NoKey]
              /\ found' = [found EXCEPT ![t] = NoRecord]
          BY <4>1 DEF Answer, Leave
        <5>2. pc'[t] = "idle"
          BY <5>1 DEF Shape, ThreadShape
        <5>3. \A u \in Threads :
                u # t => /\ pc'[u] = pc[u] /\ key'[u] = key[u]
                         /\ found'[u] = found[u]
          BY <5>1 DEF Shape, ThreadShape
        <5> QED
          BY <5>2, <5>3
      <4>2. CASE ~Answer(t, "executed", n)
        <5>1. /\ pc' = [pc EXCEPT ![t] = "verify"]
              /\ found' = [found EXCEPT ![t] = n]
              /\ key' = key
          BY <2>4, <4>2
        <5> QED
          BY <5>1 DEF Shape, ThreadShape
      <4> QED
        BY <4>1, <4>2
    <3>3. \A k \in Keys, x \in Ids :
            Named(k, x)' => Named(k, x) \/ (k = key[t] /\ x = n)
      BY <2>4, <3>1, <3>2 DEF Named
    <3> QED
      BY <1>2, <2>4, <3>2, <3>3
  <2>5. CASE \/ SchemaFetched(t) \/ SchemaLost(t) \/ Propounded(t)
             \/ ProposeRefused(t)
    BY <2>1, <2>2, <2>3, <2>5
       DEF SchemaFetched, SchemaLost, Propounded, ProposeRefused
  <2>6. CASE \/ PrepareFails(t) \/ ProbeAmbiguous(t) \/ ProbeFails(t)
             \/ Reject(t) \/ ConfirmFails(t) \/ ReprobeInconclusive(t)
             \/ VerifyFails(t) \/ EmitFails(t)
    BY <2>1, <2>6
       DEF PrepareFails, ProbeAmbiguous, ProbeFails, Reject, ConfirmFails,
           ReprobeInconclusive, VerifyFails, EmitFails
  <2>7. CASE Prepare(t)
    <3>1. op[t] = "commit"
      BY <2>7 DEF Prepare, Shape, ThreadShape, Serving, Writing
    <3>2. pc' = [pc EXCEPT ![t] = "probe"]
      BY <2>7, <3>1 DEF Prepare, Sound, StampInv, SchemaInv
    <3> QED
      BY <2>2, <2>7, <3>2 DEF Prepare
  <2>8. CASE ProbeMisses(t)
    <3>1. CASE Answer(t, "not_found", NoRecord)
      BY <2>1, <2>8, <3>1 DEF ProbeMisses
    <3>2. CASE ~Answer(t, "not_found", NoRecord)
      <4>1. /\ pc' = [pc EXCEPT ![t] = "sent"]
            /\ UNCHANGED <<ledger, key, found, replies>>
        BY <2>8, <3>2 DEF ProbeMisses
      <4>2. \A x \in Ids : ~Named(key[t], x)
        BY <2>0, <2>8, NamedIsHit DEF ProbeMisses
      <4>3. \A u \in Threads : pc'[u] = IF u = t THEN "sent" ELSE pc[u]
        BY <4>1 DEF Shape, ThreadShape
      <4>4. \A k \in Keys, x \in Ids : Named(k, x)' => Named(k, x)
        BY <4>1, <4>3 DEF Named
      <4> QED
        BY <1>0, <2>0, <2>8, <4>1, <4>2, <4>3, <4>4 DEF ProbeMisses
    <3> QED
      BY <3>1, <3>2
  <2>9. CASE ProbeFinds(t) \/ ReprobeFinds(t)
    <3>1. PICK r \in records :
            /\ Hits(key[t]) = {r}
            /\ \/ /\ pc' = [pc EXCEPT ![t] = "verify"]
                  /\ found' = [found EXCEPT ![t] = r.id]
                  /\ UNCHANGED <<key, replies>>
               \/ Answer(t, "executed", r.id)
      BY <2>9 DEF ProbeFinds, ReprobeFinds
    <3>2. r.id \in Ids /\ key[t] \in Keys
      BY <2>0, <2>9
         DEF ProbeFinds, ReprobeFinds, Writing, Shape, DataShape, Record
    <3>3. \A y \in Ids : Named(key[t], y) => y = r.id
      BY <3>1, <3>2, NamedIsHit
    <3>4. UNCHANGED ledger
      BY <2>9 DEF ProbeFinds, ReprobeFinds
    <3> QED
      BY <2>4, <3>1, <3>2, <3>3, <3>4
  <2>10. CASE Confirm(t)
    <3>1. Own(t) \in Ids /\ key[t] \in Keys
      BY <1>0, <2>10, DraftShape DEF Confirm, Writing
    <3>2. \A y \in Ids : ~Named(key[t], y)
      BY <2>10 DEF Confirm
    <3> QED
      BY <2>4, <2>10, <3>1, <3>2 DEF Confirm
  <2>11. CASE Apply(t) \/ Resend(t) \/ CreateAnswered(t)
    BY <2>2, <2>11 DEF Apply, Resend, CreateAnswered
  <2>12. CASE AnswerLost(t)
    BY <2>1, <2>2, <2>12 DEF AnswerLost
  <2>13. CASE Verify(t)
    <3>1. Named(key[t], found[t]) /\ key[t] \in Keys
      BY <2>0, <2>13 DEF Verify, Named, Writing
    <3>2. \A k \in Keys :
            ledger'[k] = ledger[k] \/ (k = key[t] /\ ledger'[k] = found[t])
      BY <2>13 DEF Verify, Shape, DataShape
    <3>3. /\ \A u \in Threads : pc'[u] = IF u = t THEN "emit" ELSE pc[u]
          /\ UNCHANGED <<key, found, replies>>
      BY <2>13 DEF Verify, Shape, ThreadShape
    <3>4. \A k \in Keys, x \in Ids : Named(k, x)' => Named(k, x)
      BY <2>13, <3>1, <3>2, <3>3 DEF Verify, Named
    <3> QED
      BY <1>1, <3>3, <3>4
  <2>14. CASE Emit(t)
    <3>1. Named(key[t], found[t])
      BY <2>14 DEF Emit, Named
    <3> QED
      BY <2>1, <2>14, <3>1 DEF Emit
  <2> QED
    BY <1>4, <2>5, <2>6, <2>7, <2>8, <2>9, <2>10, <2>11, <2>12, <2>13, <2>14
       DEF Serve
<1>5. CASE Settle \/ UNCHANGED vars
  <2>1. UNCHANGED <<ledger, replies, pc, key, found>>
    BY <1>5 DEF Settle, Land, Drop, vars, threadVars
  <2> QED
    BY <1>1, <2>1 DEF Named
<1>6. CASE Restart
  BY <1>1, <1>6 DEF Restart, Named
<1> QED
  BY <1>3, <1>4, <1>5, <1>6 DEF Next

LEMMA NamedHolds == ASSUME Sound, ExactMarker PROVE Spec => []NamedInv
<1>1. Init => NamedInv
  BY DEF Init, NamedInv, Named
<1> QED
  BY <1>1, NamedStep, RealHolds, AloneHolds, StampHolds, ShapeHolds, PTL
     DEF Spec

(* "Idempotent COMMIT": over a sound environment PROPOSE, COMMIT and       *)
(* STATUS implement a register that each key sets by one create and that   *)
(* every answer reads, through restarts, lost answers, repeated requests   *)
(* and late writes.                                                        *)
THEOREM CommitIsIdempotent ==
  ASSUME Sound, ExactMarker
  PROVE  Spec => IdempotentCommit
<1>1. Init => Promise!Init
  BY DEF Init, Promise!Init, Effect, Told
<1>2. /\ Shape /\ AloneInv /\ RealInv /\ NamedInv
      /\ Shape' /\ AloneInv' /\ RealInv' /\ NamedInv'
      /\ [Next]_vars
      => [Promise!Next]_(Promise!vars)
  <2> SUFFICES ASSUME Shape, Shape', AloneInv', RealInv', NamedInv',
                      [Next]_vars
               PROVE  Promise!Next \/ UNCHANGED <<Effect, Told>>
    BY DEF Promise!vars
  <2>1. /\ Effect = [k \in Keys |-> Effect[k]]
        /\ Effect' = [k \in Keys |-> Effect'[k]]
        /\ Told = [k \in Keys |-> Told[k]]
        /\ Told' = [k \in Keys |-> Told'[k]]
    BY DEF Effect, Told
  <2>2. CASE UNCHANGED <<records, replies>>
    BY <2>2 DEF Effect, Told
  <2>3. ASSUME UNCHANGED replies, NEW r \in Record,
               records' = records \cup {r}
        PROVE  Promise!Next \/ UNCHANGED <<Effect, Told>>
    <3>1. Told' = Told
      BY <2>3 DEF Told
    <3>2. r.key \in Keys /\ r.id \in Ids
      BY DEF Record
    <3>3. \A q \in records : q.key = r.key => q.id[1] = r.id[1]
      BY <2>3 DEF AloneInv, SameMarker, Writes, Maker
    <3>4. \A e \in Effect[r.key] : e[1] = r.id[1]
      BY <3>2, <3>3 DEF Effect
    <3>5. \A k \in Keys :
            Effect'[k] = IF k = r.key THEN Effect[k] \cup {r.id} ELSE Effect[k]
      BY <2>3 DEF Effect
    <3>6. Effect' = [Effect EXCEPT ![r.key] = @ \cup {r.id}]
      BY <2>1, <3>2, <3>5
    <3> QED
      BY <3>1, <3>2, <3>4, <3>6 DEF Promise!Next, Promise!Perform
  <2>4. ASSUME UNCHANGED records, NEW a, replies' = replies \cup {a}
        PROVE  Promise!Next \/ UNCHANGED <<Effect, Told>>
    <3>1. Effect' = Effect
      BY <2>4 DEF Effect
    <3>2. CASE a.verdict # "executed"
      <4>1. Told' = Told
        BY <2>4, <3>2 DEF Told
      <4> QED
        BY <3>1, <4>1
    <3>3. CASE a.verdict = "executed"
      <4>1. a \in replies' /\ a.key \in Keys
        BY <2>4 DEF Shape, DataShape, Reply
      <4>2. <<a.rec, MarkerOf[a.key]>> \in Made'
        BY <3>3, <4>1 DEF RealInv
      <4>3. PICK r \in records : r.id = a.rec /\ SameMarker(r.key, a.key)
        BY <2>4, <4>2 DEF Made, SameMarker
      <4>4. r.key = a.key /\ r.id \in Ids
        BY <4>1, <4>3 DEF ExactMarker, Shape, DataShape, Record
      <4>5. a.rec \in Effect[a.key] /\ a.rec \in Ids
        BY <4>1, <4>3, <4>4 DEF Effect
      <4>6. \A b \in replies :
              b.verdict = "executed" /\ b.key = a.key => b.rec = a.rec
        <5> TAKE b \in replies
        <5> HAVE b.verdict = "executed" /\ b.key = a.key
        <5>1. b \in replies'
          BY <2>4
        <5>2. <<b.rec, MarkerOf[b.key]>> \in Made'
          BY <5>1 DEF RealInv
        <5>3. b.rec \in Ids
          BY <5>2 DEF Made, Shape, DataShape, Record
        <5>4. Named(a.key, b.rec)' /\ Named(a.key, a.rec)'
          BY <3>3, <4>1, <5>1 DEF Named
        <5> QED
          BY <4>1, <4>5, <5>3, <5>4 DEF NamedInv
      <4>7. Told[a.key] \subseteq {a.rec}
        BY <4>1, <4>6 DEF Told
      <4>8. \A k \in Keys : Told'[k] = IF k = a.key THEN Told[k] \cup {a.rec}
                                                   ELSE Told[k]
        BY <2>4, <3>3 DEF Told
      <4>9. Told' = [Told EXCEPT ![a.key] = @ \cup {a.rec}]
        BY <2>1, <4>1, <4>8
      <4> QED
        BY <3>1, <4>1, <4>5, <4>7, <4>9 DEF Promise!Next, Promise!Tell
    <3> QED
      BY <3>2, <3>3
  <2> QED
    BY <2>2, <2>3, <2>4, StepKinds
<1> QED
  BY <1>1, <1>2, ShapeHolds, AloneHolds, RealHolds, NamedHolds, PTL
     DEF Spec, IdempotentCommit, Promise!Spec
=============================================================================
