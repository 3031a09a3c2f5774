----------------------------- MODULE KeyedCommit ----------------------------
(***************************************************************************)
(* The life of a curated `create`: PROPOSE, COMMIT under an idempotency    *)
(* key, and STATUS by that key (edge.py), over ShimState (state.py), the   *)
(* schema cache of RealSystemClient (system.py) and Odoo.                  *)
(*                                                                         *)
(* The endpoints are synchronous functions run by a threadpool, so each    *)
(* request is a thread that advances from one remote call to the next;     *)
(* everything between two remote calls is one step.  A remote call has the *)
(* outcomes of OdooCall: the transport below it may repeat a request by    *)
(* itself, and Odoo may apply each copy.  Odoo itself is external: it      *)
(* holds the records, and the writes whose sender is gone or gave up,      *)
(* which may still land.                                                   *)
(*                                                                         *)
(* A COMMIT dispatches at most one create, so a record is identified by    *)
(* the request that made it and by the copy of its create that was applied.*)
(***************************************************************************)
EXTENDS Naturals, FiniteSets

CONSTANTS
  Threads,              \* worker threads of the threadpool
  Keys,                 \* idempotency keys
  NoKey,                \* the key of an idle thread
  MarkerOf,             \* _idem_marker: the marker a key is rendered as
  Proposals,            \* ids PROPOSE may hand out
  NoProposal,           \* the proposal of an idle thread
  HasIdemField,         \* the verb declares an idempotency_field
  Overlap,              \* environment: a key's requests may overlap
  LateLanding,          \* environment: a probe may overtake a pending write
  SchemaFaults,         \* environment: fields_get may fail
  Hidden,               \* environment: repetitions the transport may add
  MaxRequests,          \* bound: requests received
  MaxRestarts           \* bound: restarts of the adapter

ASSUME NoKeyAssumption == NoKey \notin Keys
ASSUME NoProposalAssumption == NoProposal \notin Proposals
ASSUME BoundsAssumption == MaxRequests \in Nat /\ MaxRestarts \in Nat
ASSUME FlagsAssumption ==
  {HasIdemField, Overlap, LateLanding, SchemaFaults} \subseteq BOOLEAN
ASSUME HiddenAssumption == Hidden \in Nat

VARIABLES
  \* ShimState, and the client's _fields_cache entry: lost on a restart
  proposals,            \* state.proposals
  ledger,               \* state.ledger: the record in k's STATUS body, if any
  executed,             \* state.executed
  cache,                \* "unknown", "live" (the schema) or "none"
  \* the threads
  pc, op, key, prop,    \* the request being served
  req,                  \* its number
  copy,                 \* which copy of its create is on the wire
  stamped,              \* whether its create carries the marker
  found,                \* the record it will answer with, if any
  \* Odoo
  records,              \* what the model holds
  orphans,              \* writes sent whose sender no longer listens
  \* the callers' side
  issued,               \* proposal ids ever handed out (uuid4)
  requests,             \* requests received
  restarts,             \* restarts so far
  replies               \* every answer given

shimVars == <<proposals, ledger, executed, cache>>
threadVars == <<pc, op, key, prop, req, copy, stamped, found>>
odooVars == <<records, orphans>>
callerVars == <<issued, requests, restarts, replies>>
vars == <<shimVars, threadVars, odooVars, callerVars>>

Requests == 1 .. MaxRequests
Ids == Requests \X (0 .. Hidden)
NoRecord == <<0, 0>>
Record == [id : Ids, key : Keys, stamped : BOOLEAN]
Verdicts == {"executed", "failed_terminal", "suspended", "unavailable",
             "expired", "error", "not_found", "unknown"}
Reply == [req : Requests, key : Keys, verdict : Verdicts,
          rec : Ids \cup {NoRecord}]
Ops == {"none", "propose", "commit", "status"}
Places == {"idle", "schema", "gate", "prepare", "probe", "sent", "applied",
           "confirm", "reprobe", "verify", "emit"}

Init ==
  /\ proposals = {}
  /\ ledger = [k \in Keys |-> NoRecord]
  /\ executed = {}
  /\ cache = "unknown"
  /\ pc = [t \in Threads |-> "idle"]
  /\ op = [t \in Threads |-> "none"]
  /\ key = [t \in Threads |-> NoKey]
  /\ prop = [t \in Threads |-> NoProposal]
  /\ req = [t \in Threads |-> 0]
  /\ copy = [t \in Threads |-> 0]
  /\ stamped = [t \in Threads |-> FALSE]
  /\ found = [t \in Threads |-> NoRecord]
  /\ records = {}
  /\ orphans = {}
  /\ issued = {}
  /\ requests = 0
  /\ restarts = 0
  /\ replies = {}

-----------------------------------------------------------------------------
SameMarker(k1, k2) == MarkerOf[k1] = MarkerOf[k2]

(* The records _find_by_marker's query matches for key k.                  *)
Hits(k) == {r \in records : r.stamped /\ SameMarker(r.key, k)}

(* Odoo answers a probe for k; unless writes may land late, it has by then *)
(* settled every earlier write under k's marker.                           *)
Answers(k) == ~LateLanding => \A o \in orphans : ~SameMarker(o.key, k)

(* The record that the copy of t's create now on the wire makes.           *)
Own(t) == <<req[t], copy[t]>>
Draft(t) == [id |-> Own(t), key |-> key[t], stamped |-> stamped[t]]

(* The request whose create made record r.                                 *)
Maker(r) == r.id[1]

(* The callers of key k wait for their answers, unless Overlap.            *)
MayAsk(k) ==
  ~Overlap => \A t \in Threads : key[t] # NoKey => ~SameMarker(key[t], k)

(* A request arrives at thread t and is left at place p.                   *)
Receive(t, o, k, pr, p) ==
  /\ pc[t] = "idle"
  /\ requests < MaxRequests
  /\ requests' = requests + 1
  /\ pc' = [pc EXCEPT ![t] = p]
  /\ op' = [op EXCEPT ![t] = o]
  /\ key' = [key EXCEPT ![t] = k]
  /\ prop' = [prop EXCEPT ![t] = pr]
  /\ req' = [req EXCEPT ![t] = requests + 1]
  /\ UNCHANGED <<copy, stamped, found>>

Goto(t, from, to) ==
  /\ pc[t] = from
  /\ pc' = [pc EXCEPT ![t] = to]

(* t's request is over; the thread returns to the pool.                    *)
Leave(t) ==
  /\ pc' = [pc EXCEPT ![t] = "idle"]
  /\ op' = [op EXCEPT ![t] = "none"]
  /\ key' = [key EXCEPT ![t] = NoKey]
  /\ prop' = [prop EXCEPT ![t] = NoProposal]
  /\ req' = [req EXCEPT ![t] = 0]
  /\ copy' = [copy EXCEPT ![t] = 0]
  /\ stamped' = [stamped EXCEPT ![t] = FALSE]
  /\ found' = [found EXCEPT ![t] = NoRecord]

Say(n, k, v, r) ==
  /\ replies' = replies \cup
                 {[req |-> n, key |-> k, verdict |-> v, rec |-> r]}
  /\ UNCHANGED <<issued, restarts>>

(* t answers verdict v, naming record r, and is done.                      *)
Answer(t, v, r) ==
  /\ Leave(t)
  /\ Say(req[t], key[t], v, r)
  /\ UNCHANGED requests

(* A request answered on arrival, without a remote call.                   *)
AnswerNow(t, k, v, r) ==
  /\ pc[t] = "idle"
  /\ requests < MaxRequests
  /\ requests' = requests + 1
  /\ Say(requests + 1, k, v, r)
  /\ UNCHANGED threadVars

-----------------------------------------------------------------------------
(* PROPOSE.  `exists` reads the cached schema, fetching it once.           *)

Propose(t, p) ==
  /\ p \notin issued
  /\ cache # "none"     \* else refused at once, with nothing changed
  /\ Receive(t, "propose", NoKey, p,
             IF cache = "live" THEN "gate" ELSE "schema")
  /\ issued' = issued \cup {p}
  /\ UNCHANGED <<shimVars, odooVars, restarts, replies>>

(* fields_get answered: whatever a concurrent fetch cached is overwritten. *)
SchemaFetched(t) ==
  /\ Goto(t, "schema", IF op[t] = "propose" THEN "gate" ELSE "probe")
  /\ cache' = "live"
  /\ UNCHANGED <<proposals, ledger, executed, op, key, prop, req, copy, stamped,
                 found, odooVars, callerVars>>

(* fields_get failed: None is cached, PROPOSE refuses, STATUS cannot ask.  *)
SchemaLost(t) ==
  /\ SchemaFaults
  /\ pc[t] = "schema"
  /\ cache' = "none"
  /\ \/ op[t] = "propose" /\ Leave(t) /\ UNCHANGED callerVars
     \/ op[t] = "status" /\ Answer(t, "unknown", NoRecord)
  /\ UNCHANGED <<proposals, ledger, executed, odooVars>>

(* The choice gate passes and the proposal is stored: no write.            *)
Propounded(t) ==
  /\ pc[t] = "gate"
  /\ proposals' = proposals \cup {prop[t]}
  /\ Leave(t)
  /\ UNCHANGED <<ledger, executed, cache, odooVars, callerVars>>

(* The choice gate refuses, or one of its reads fails.                     *)
ProposeRefused(t) ==
  /\ pc[t] = "gate"
  /\ Leave(t)
  /\ UNCHANGED <<shimVars, odooVars, callerVars>>

-----------------------------------------------------------------------------
(* COMMIT, from the ledger check to the write.                             *)

Replay(t, k) ==
  /\ MayAsk(k)
  /\ ledger[k] # NoRecord
  /\ AnswerNow(t, k, "executed", ledger[k])
  /\ UNCHANGED <<shimVars, odooVars>>

CommitUnknown(t, k, p) ==
  /\ MayAsk(k)
  /\ ledger[k] = NoRecord
  /\ p \notin proposals
  /\ AnswerNow(t, k, "expired", NoRecord)
  /\ UNCHANGED <<shimVars, odooVars>>

Commit(t, k, p) ==
  /\ MayAsk(k)
  /\ ledger[k] = NoRecord
  /\ p \in proposals
  /\ Receive(t, "commit", k, p, "prepare")
  /\ UNCHANGED <<shimVars, odooVars, issued, restarts, replies>>

(* Mutant: the create is sent without asking first.                        *)
PrepareUnasked(t) ==
  /\ Goto(t, "prepare", "sent")
  /\ stamped' = [stamped EXCEPT ![t] = HasIdemField /\ cache = "live"]
  /\ UNCHANGED <<shimVars, op, key, prop, req, copy, found, odooVars, callerVars>>

(* The payload is built and its references resolved; _stampable decides    *)
(* whether the create carries the marker and is preceded by the probe.     *)
Prepare(t) ==
  LET stampable == HasIdemField /\ cache = "live" IN
  /\ Goto(t, "prepare", IF stampable THEN "probe" ELSE "sent")
  /\ stamped' = [stamped EXCEPT ![t] = stampable]
  /\ UNCHANGED <<shimVars, op, key, prop, req, copy, found, odooVars, callerVars>>

PrepareFails(t) ==
  /\ pc[t] = "prepare"
  /\ Answer(t, "failed_terminal", NoRecord)
  /\ UNCHANGED <<shimVars, odooVars>>

(* The ask-first probe of COMMIT, and the one probe of STATUS.             *)
ProbeMisses(t) ==
  /\ pc[t] = "probe"
  /\ Answers(key[t])
  /\ Hits(key[t]) = {}
  /\ \/ /\ op[t] = "commit"
        /\ pc' = [pc EXCEPT ![t] = "sent"]
        /\ UNCHANGED <<op, key, prop, req, copy, stamped, found, callerVars>>
     \/ /\ op[t] = "status"
        /\ Answer(t, "not_found", NoRecord)
  /\ UNCHANGED <<shimVars, odooVars>>

ProbeFinds(t) ==
  /\ pc[t] = "probe"
  /\ Answers(key[t])
  /\ \E r \in records :
       /\ Hits(key[t]) = {r}
       /\ \/ /\ op[t] = "commit"
             /\ pc' = [pc EXCEPT ![t] = "verify"]
             /\ found' = [found EXCEPT ![t] = r.id]
             /\ UNCHANGED <<op, key, prop, req, copy, stamped, callerVars>>
          \/ /\ op[t] = "status"
             /\ Answer(t, "executed", r.id)
  /\ UNCHANGED <<shimVars, odooVars>>

(* Two records carry the marker: neither is picked, nothing is added.      *)
ProbeAmbiguous(t) ==
  /\ pc[t] = "probe"
  /\ Answers(key[t])
  /\ Cardinality(Hits(key[t])) > 1
  /\ Answer(t, IF op[t] = "commit" THEN "suspended" ELSE "unknown", NoRecord)
  /\ UNCHANGED <<shimVars, odooVars>>

(* Mutant: a probe that could not run taken for one that found nothing.    *)
ProbeFailsAsMiss(t) ==
  /\ pc[t] = "probe"
  /\ Answer(t, IF op[t] = "commit" THEN "unavailable" ELSE "not_found",
            NoRecord)
  /\ UNCHANGED <<shimVars, odooVars>>

(* The probe cannot run: nothing is written.                               *)
ProbeFails(t) ==
  /\ pc[t] = "probe"
  /\ Answer(t, IF op[t] = "commit" THEN "unavailable" ELSE "unknown", NoRecord)
  /\ UNCHANGED <<shimVars, odooVars>>

-----------------------------------------------------------------------------
(* The create, and what Odoo does with it.                                 *)

Apply(t) ==
  /\ Goto(t, "sent", "applied")
  /\ records' = records \cup {Draft(t)}
  /\ UNCHANGED <<shimVars, op, key, prop, req, copy, stamped, found, orphans,
                 callerVars>>

(* The connection is reset and the transport sends the same request once   *)
(* more, without the adapter knowing: the earlier copy was applied, or is  *)
(* left to Odoo.                                                           *)
Resend(t) ==
  /\ pc[t] \in {"sent", "applied"}
  /\ copy[t] < Hidden
  /\ copy' = [copy EXCEPT ![t] = @ + 1]
  /\ pc' = [pc EXCEPT ![t] = "sent"]
  /\ orphans' = IF pc[t] = "sent" THEN orphans \cup {Draft(t)} ELSE orphans
  /\ UNCHANGED <<shimVars, op, key, prop, req, stamped, found, records,
                 callerVars>>

(* A Fault, or a rate limit to the last retry, answers the last copy.      *)
Reject(t) ==
  /\ pc[t] = "sent"
  /\ Answer(t, "failed_terminal", NoRecord)
  /\ UNCHANGED <<shimVars, odooVars>>

(* The new id arrives; RealSystemClient.create goes on to read it back.    *)
CreateAnswered(t) ==
  /\ Goto(t, "applied", "confirm")
  /\ UNCHANGED <<shimVars, op, key, prop, req, copy, stamped, found, odooVars,
                 callerVars>>

(* Mutant: silence taken for success.                                      *)
AnswerLostTrusted(t) ==
  /\ pc[t] \in {"sent", "applied"}
  /\ orphans' = IF pc[t] = "sent" THEN orphans \cup {Draft(t)} ELSE orphans
  /\ pc' = [pc EXCEPT ![t] = "verify"]
  /\ found' = [found EXCEPT ![t] = Own(t)]
  /\ UNCHANGED <<shimVars, op, key, prop, req, copy, stamped, records, callerVars>>

(* No answer arrives: OutcomeInDoubt, with the write applied or pending.   *)
(* Only a stamped create can be asked about; the other is suspended.       *)
AnswerLost(t) ==
  /\ pc[t] \in {"sent", "applied"}
  /\ orphans' = IF pc[t] = "sent" THEN orphans \cup {Draft(t)} ELSE orphans
  /\ \/ /\ stamped[t]
        /\ pc' = [pc EXCEPT ![t] = "reprobe"]
        /\ UNCHANGED <<op, key, prop, req, copy, stamped, found, callerVars>>
     \/ /\ ~stamped[t]
        /\ Answer(t, "suspended", NoRecord)
  /\ UNCHANGED <<shimVars, records>>

(* A read after the create failed: a plain SystemError out of the write.   *)
ConfirmFails(t) ==
  /\ pc[t] = "confirm"
  /\ Answer(t, "failed_terminal", NoRecord)
  /\ UNCHANGED <<shimVars, odooVars>>

Confirm(t) ==
  /\ Goto(t, "confirm", "verify")
  /\ found' = [found EXCEPT ![t] = Own(t)]
  /\ UNCHANGED <<shimVars, op, key, prop, req, copy, stamped, odooVars, callerVars>>

ReprobeFinds(t) ==
  /\ Goto(t, "reprobe", "verify")
  /\ Answers(key[t])
  /\ \E r \in records :
       /\ Hits(key[t]) = {r}
       /\ found' = [found EXCEPT ![t] = r.id]
  /\ UNCHANGED <<shimVars, op, key, prop, req, copy, stamped, odooVars, callerVars>>

(* Mutant: the doubt told as "nothing was written".                        *)
ReprobeUnavailable(t) ==
  /\ pc[t] = "reprobe"
  /\ Answer(t, "unavailable", NoRecord)
  /\ UNCHANGED <<shimVars, odooVars>>

(* Mutant: the probe is repeated until it finds the record.                *)
ReprobeForEver(t) ==
  /\ pc[t] = "reprobe"
  /\ UNCHANGED vars

(* Nothing found, two found, or the probe failed: the doubt stands.        *)
ReprobeInconclusive(t) ==
  /\ pc[t] = "reprobe"
  /\ Answer(t, "suspended", NoRecord)
  /\ UNCHANGED <<shimVars, odooVars>>

-----------------------------------------------------------------------------
(* COMMIT, from the verification to the answer.                            *)

(* The read-back of _verify_and_diff is outside the try: HTTP 500.         *)
VerifyFails(t) ==
  /\ pc[t] = "verify"
  /\ Answer(t, "error", NoRecord)
  /\ UNCHANGED <<shimVars, odooVars>>

Verify(t) ==
  /\ Goto(t, "verify", "emit")
  /\ ledger' = [ledger EXCEPT ![key[t]] = found[t]]
  /\ executed' = executed \cup {prop[t]}
  /\ UNCHANGED <<proposals, cache, op, key, prop, req, copy, stamped, found,
                 odooVars, callerVars>>

(* Mutant: the answer names this request's record, not the one found.      *)
EmitOwn(t) ==
  /\ pc[t] = "emit"
  /\ Answer(t, "executed", Own(t))
  /\ UNCHANGED <<shimVars, odooVars>>

Emit(t) ==
  /\ pc[t] = "emit"
  /\ Answer(t, "executed", found[t])
  /\ UNCHANGED <<shimVars, odooVars>>

(* The webhook cannot be reached: HTTP 500 after the ledger row.           *)
EmitFails(t) ==
  /\ pc[t] = "emit"
  /\ Answer(t, "error", NoRecord)
  /\ UNCHANGED <<shimVars, odooVars>>

-----------------------------------------------------------------------------
(* STATUS by key.                                                          *)
Status(t, k) ==
  /\ MayAsk(k)
  /\ HasIdemField /\ cache # "none"
  /\ Receive(t, "status", k, NoProposal,
             IF cache = "live" THEN "probe" ELSE "schema")
  /\ UNCHANGED <<shimVars, odooVars, issued, restarts, replies>>

StatusUnknown(t, k) ==
  /\ MayAsk(k)
  /\ ~HasIdemField \/ cache = "none"
  /\ AnswerNow(t, k, "unknown", NoRecord)
  /\ UNCHANGED <<shimVars, odooVars>>

-----------------------------------------------------------------------------
(* A pending write lands after all, or is rolled back.                     *)
Land(o) ==
  /\ orphans' = orphans \ {o}
  /\ records' = records \cup {o}
  /\ UNCHANGED <<shimVars, threadVars, callerVars>>

Drop(o) ==
  /\ orphans' = orphans \ {o}
  /\ UNCHANGED <<shimVars, threadVars, records, callerVars>>

(* The adapter restarts: everything in memory is gone, requests included;  *)
(* a create under way is left to Odoo.                                     *)
Restart ==
  /\ restarts < MaxRestarts
  /\ restarts' = restarts + 1
  /\ proposals' = {}
  /\ ledger' = [k \in Keys |-> NoRecord]
  /\ executed' = {}
  /\ cache' = "unknown"
  /\ pc' = [t \in Threads |-> "idle"]
  /\ op' = [t \in Threads |-> "none"]
  /\ key' = [t \in Threads |-> NoKey]
  /\ prop' = [t \in Threads |-> NoProposal]
  /\ req' = [t \in Threads |-> 0]
  /\ copy' = [t \in Threads |-> 0]
  /\ stamped' = [t \in Threads |-> FALSE]
  /\ found' = [t \in Threads |-> NoRecord]
  /\ orphans' = orphans \cup {Draft(t) : t \in {u \in Threads : pc[u] = "sent"}}
  /\ UNCHANGED <<records, issued, requests, replies>>

-----------------------------------------------------------------------------
(* One step of a request under way.                                        *)
Serve(t) ==
  \/ SchemaFetched(t) \/ SchemaLost(t) \/ Propounded(t) \/ ProposeRefused(t)
  \/ Prepare(t) \/ PrepareFails(t)
  \/ ProbeMisses(t) \/ ProbeFinds(t) \/ ProbeAmbiguous(t) \/ ProbeFails(t)
  \/ Apply(t) \/ Resend(t) \/ Reject(t) \/ CreateAnswered(t) \/ AnswerLost(t)
  \/ ConfirmFails(t) \/ Confirm(t)
  \/ ReprobeFinds(t) \/ ReprobeInconclusive(t)
  \/ VerifyFails(t) \/ Verify(t) \/ Emit(t) \/ EmitFails(t)

Ask(t) ==
  \/ \E p \in Proposals : Propose(t, p)
  \/ \E k \in Keys :
       \/ Replay(t, k)
       \/ Status(t, k)
       \/ StatusUnknown(t, k)
       \/ \E p \in issued : CommitUnknown(t, k, p) \/ Commit(t, k, p)

Settle == \E o \in orphans : Land(o) \/ Drop(o)

Next == (\E t \in Threads : Ask(t) \/ Serve(t)) \/ Settle \/ Restart

Spec == Init /\ [][Next]_vars

(* A request under way keeps going, and Odoo ends its transactions.  No    *)
(* caller is obliged to ask anything.                                      *)
Fairness == WF_vars(Settle) /\ \A t \in Threads : WF_vars(Serve(t))

FairSpec == Spec /\ Fairness

-----------------------------------------------------------------------------
TypeOK ==
  /\ proposals \subseteq Proposals
  /\ ledger \in [Keys -> Ids \cup {NoRecord}]
  /\ executed \subseteq Proposals
  /\ cache \in {"unknown", "live", "none"}
  /\ pc \in [Threads -> Places]
  /\ op \in [Threads -> Ops]
  /\ key \in [Threads -> Keys \cup {NoKey}]
  /\ prop \in [Threads -> Proposals \cup {NoProposal}]
  /\ req \in [Threads -> 0 .. MaxRequests]
  /\ copy \in [Threads -> 0 .. Hidden]
  /\ stamped \in [Threads -> BOOLEAN]
  /\ found \in [Threads -> Ids \cup {NoRecord}]
  /\ records \subseteq Record
  /\ orphans \subseteq Record
  /\ issued \subseteq Proposals
  /\ requests \in 0 .. MaxRequests
  /\ restarts \in 0 .. MaxRestarts
  /\ replies \subseteq Reply

(* "Re-commit under the SAME idempotency key and it will return the        *)
(* existing record, never a second one" (_recovery_hint): however often a  *)
(* key is committed, before and after restarts, one create is performed    *)
(* for it.  Over a transport that repeats nothing that is one record; the  *)
(* copies of a create that the transport repeated are the only others.     *)
OneRecordPerKey ==
  \A r1, r2 \in records :
    r1.key = r2.key =>
      /\ Maker(r1) = Maker(r2)
      /\ Hidden = 0 => r1 = r2

(* An `executed` answer, replayed or not, from COMMIT or from STATUS,      *)
(* names a record Odoo holds, and one that a commit with this key's marker *)
(* made.  The record may be another request's, found by the probe or kept  *)
(* in a ledger that outlived it.                                           *)
ExecutedIsReal ==
  \A a \in replies :
    a.verdict = "executed" =>
      \E r \in records : r.id = a.rec /\ SameMarker(r.key, a.key)

(* "NOTHING WAS WRITTEN" and EXPIRED: the request so answered made no      *)
(* record and has none under way that could still appear.                  *)
RefusalIsTrue ==
  \A a \in replies :
    a.verdict \in {"unavailable", "expired"} =>
      \A r \in records \cup orphans : Maker(r) # a.req

(* STATUS: `not_found` is authoritative, "so it is safe to commit again    *)
(* under the identical key".  No commit received before the question may   *)
(* turn up as a record afterwards.                                         *)
NotFoundIsTrue ==
  \A a \in replies :
    a.verdict = "not_found" =>
      \A r \in records : r.key = a.key => Maker(r) > a.req

(* What is in memory is never ahead of Odoo: a ledger row names a record   *)
(* of its marker, and no proposal counts as executed without a row.        *)
MemoryAgrees ==
  /\ \A k \in Keys :
       ledger[k] # NoRecord =>
         \E r \in records : r.id = ledger[k] /\ SameMarker(r.key, k)
  /\ executed # {} => \E k \in Keys : ledger[k] # NoRecord

(* "Whatever a verb declares, the key must actually reach the field"       *)
(* (test_duplicate_write_hazard.py).                                       *)
AlwaysStamped == HasIdemField => \A r \in records : r.stamped

(* Every request is answered, whatever fails below it and however requests *)
(* wait on one another.                                                    *)
EveryRequestAnswered ==
  \A t \in Threads : pc[t] # "idle" ~> pc[t] = "idle"

-----------------------------------------------------------------------------
(* The effect of a key, and what its callers are told of it.               *)
Effect == [k \in Keys |-> {r.id : r \in {q \in records : q.key = k}}]

Told ==
  [k \in Keys |->
     {a.rec : a \in {b \in replies : b.key = k /\ b.verdict = "executed"}}]

Promise == INSTANCE OncePerKey WITH effect <- Effect, told <- Told

(* COMMIT is idempotent: over a sound environment each key's effect is the *)
(* work of one create, and every answer that names a record for the key    *)
(* names the same one, also where the transport repeated the create.       *)
IdempotentCommit == Promise!Spec
=============================================================================
