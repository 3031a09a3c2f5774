------------------------------ MODULE ResourceCrud --------------------------
(***************************************************************************)
(* Writes on records that already exist, and their undoing (edge.py):      *)
(*   - the generic resource.create / update / delete / method family, with *)
(*     the state witness of PROPOSE and its recheck at COMMIT;             *)
(*   - the curated verbs that update, delete, upsert, create without an    *)
(*     attempt key, or call a method;                                      *)
(*   - the compensation tokens both mint, and ROLLBACK, which turns a      *)
(*     token into a new proposal.                                          *)
(*                                                                         *)
(* As in KeyedCommit, a request is a thread that advances from one remote  *)
(* call to the next.  A record is a function from fields to values.  Odoo  *)
(* and the people who use it directly are external: they edit and remove   *)
(* records at any moment.  A request's number names what it creates: its   *)
(* proposal, its token, its entry in the journal of writes.  A create      *)
(* whose answer is late is KeyedCommit's subject: here Odoo has applied an *)
(* unanswered write by the time its sender gives up, or never does.        *)
(***************************************************************************)
EXTENDS Naturals

CONSTANTS
  Threads,              \* worker threads of the threadpool
  Keys,                 \* idempotency keys
  NoKey,                \* the key of an idle thread
  Fields, Vals,         \* the fields of the model, and their values
  Within,               \* <<v, w>>: w's text contains v's
  None,                 \* what a field of a missing record reads as
  Gone,                 \* stands for the fields of a record that is not there
  Dedup,                \* the field an upsert finds its record by
  Stage,                \* the field a workflow method moves
  Posted, Draft,        \* to where the method, and its inverse, move it
  FirstRecord,          \* the record there is at the start
  Asks,                 \* what PROPOSE may be asked
  IgnoresDeletes,       \* environment: Odoo may accept a delete and ignore it
  Quiet,                \* environment: nobody writes between a commit's
                        \* last read and its own write
  MaxIds,               \* bound: records ever made
  MaxRequests,          \* bound: requests received
  MaxEdits              \* bound: edits by others

Ids == 1 .. MaxIds
Requests == 1 .. MaxRequests
NoId == 0
NoRequest == 0
Data == UNION {[S -> Vals] : S \in SUBSET Fields}
NoData == [f \in {} |-> None]
Snapshots == UNION {[S -> Vals \cup {None}] : S \in SUBSET Fields}

(* What a write is: an operation of a family on a record with some data.   *)
Ask == [family : {"generic", "curated"},
        op : {"create", "update", "upsert", "delete", "method"},
        rid : Ids \cup {NoId}, data : Data]

(* What PROPOSE does not refuse as INVALID_ARGS: an id where one is needed,*)
(* a dedup value, a field that the method moves.                           *)
Complete(a) ==
  /\ a.op \in {"update", "delete", "method"} => a.rid # NoId
  /\ a.op = "upsert" => Dedup \in DOMAIN a.data
  /\ a.op = "method" => Stage \in DOMAIN a.data

ASSUME ValuesAssumption ==
  /\ NoKey \notin Keys /\ Dedup \notin Keys
  /\ None \notin Vals
  /\ Gone \notin [Fields -> Vals] /\ FirstRecord \in [Fields -> Vals]
  /\ {Dedup, Stage} \subseteq Fields
  /\ {Posted, Draft} \subseteq Vals /\ Posted # Draft
  /\ Within \subseteq Vals \X Vals
ASSUME AsksAssumption == Asks \subseteq {a \in Ask : Complete(a)}
ASSUME FlagsAssumption == {IgnoresDeletes, Quiet} \subseteq BOOLEAN
ASSUME BoundsAssumption ==
  MaxIds \in Nat \ {0} /\ {MaxRequests, MaxEdits} \subseteq Nat

VARIABLES
  \* Odoo
  records,              \* records[i]: the fields of record i, or Gone
  born,                 \* ids given out so far
  edits,                \* edits by others so far
  \* ShimState
  proposals,            \* state.proposals
  ledger,               \* state.ledger: the body that replays for a key;
                        \* an upsert's row is filed under Dedup (see Store)
  executed,             \* state.executed
  tokens,               \* state.compensations
  \* the threads
  pc, req, key,         \* where t is, and which COMMIT it serves
  prop,                 \* the proposal it commits
  rid,                  \* the record it works on
  before,               \* the before-image it read
  \* the callers' side
  requests,             \* requests received
  results,              \* the results COMMIT told; other answers leave no trace
  journal               \* every write Odoo accepted (history)

odooVars == <<records, born, edits>>
shimVars == <<proposals, ledger, executed, tokens>>
jobVars == <<req, key, prop, rid, before>>
vars == <<odooVars, shimVars, pc, jobVars, requests, results, journal>>

Proposal == [id : Requests, ask : Ask, witness : Snapshots, undoes : 0 .. MaxRequests]
NoProposal == [id |-> NoRequest]
Token == [undoes : Requests, ask : Ask]
Places == {"idle", "probe", "before", "send", "applied", "confirm", "verify", "record"}

(* The STATUS body of an executed COMMIT, and the result told for a key    *)
(* when `at` requests had been received.                                   *)
Body == [by : Requests, claim : {"success", "partial"}]
NoBody == [by |-> NoRequest]
Result == [key : Keys, body : Body, at : Requests]

Entry == [req : Requests, key : Keys, prop : Proposal, rid : Ids,
          old : [Fields -> Vals] \cup {Gone}, new : [Fields -> Vals] \cup {Gone}]

Init ==
  /\ records = [i \in Ids |-> IF i = 1 THEN FirstRecord ELSE Gone]
  /\ born = 1
  /\ edits = 0
  /\ proposals = {}
  /\ ledger = [k \in Keys \cup {Dedup} |-> NoBody]
  /\ executed = {}
  /\ tokens = {}
  /\ pc = [t \in Threads |-> "idle"]
  /\ req = [t \in Threads |-> NoRequest]
  /\ key = [t \in Threads |-> NoKey]
  /\ prop = [t \in Threads |-> NoProposal]
  /\ rid = [t \in Threads |-> NoId]
  /\ before = [t \in Threads |-> Gone]
  /\ requests = 0
  /\ results = {}
  /\ journal = {}

-----------------------------------------------------------------------------
(* {f: rec.get(f) for f in ...}, over the fields of r or over nothing.     *)
Snapshot(r, S) == [f \in S |-> IF r = Gone THEN None ELSE r[f]]

Patch(r, d) == [f \in Fields |-> IF f \in DOMAIN d THEN d[f] ELSE r[f]]

Only(r, S) == [f \in S |-> r[f]]

Op(t) == prop[t].ask.op
Family(t) == prop[t].ask.family

(* COMMIT reads the record first: always in the generic family, and for a  *)
(* curated update, whose compensation is a before-image.                   *)
ReadsBefore(a) ==
  \/ a.family = "generic" /\ a.op \in {"update", "delete"}
  \/ a.family = "curated" /\ a.op = "update"

(* t's create makes a record: an upsert's does when its probe found none.  *)
Creates(t) == Op(t) = "create" \/ (Op(t) = "upsert" /\ before[t] = Gone)

(* t is between its last read and its write.                               *)
Poised(t) == pc[t] = "send" /\ (before[t] # Gone \/ Op(t) = "upsert")

MayWrite(t) == Quiet => \A u \in Threads \ {t} : ~Poised(u)

Goto(t, from, to) ==
  /\ pc[t] = from
  /\ pc' = [pc EXCEPT ![t] = to]

(* The job of an idle thread, so that equal states look equal.             *)
Clear(t) ==
  /\ pc' = [pc EXCEPT ![t] = "idle"]
  /\ req' = [req EXCEPT ![t] = NoRequest]
  /\ key' = [key EXCEPT ![t] = NoKey]
  /\ prop' = [prop EXCEPT ![t] = NoProposal]
  /\ rid' = [rid EXCEPT ![t] = NoId]
  /\ before' = [before EXCEPT ![t] = Gone]

(* An answer without a result: a refusal, a failure, a doubt, an HTTP 500. *)
Refuse(t) ==
  /\ Clear(t)
  /\ UNCHANGED <<requests, results>>

-----------------------------------------------------------------------------
(* PROPOSE.  Of its reads only the witness's matters later, so it is one   *)
(* step, at the moment of that read.  A curated verb, a delete, a create   *)
(* and a record that is not there get no witness; refusals change nothing. *)
Witness(a) ==
  IF a.family = "generic" /\ a.op = "update" /\ records[a.rid] # Gone
    THEN Snapshot(records[a.rid], DOMAIN a.data)
    ELSE NoData

Propose(a) ==
  /\ requests < MaxRequests
  /\ requests' = requests + 1
  /\ proposals' = proposals \cup
       {[id |-> requests + 1, ask |-> a, witness |-> Witness(a),
         undoes |-> NoRequest]}
  /\ UNCHANGED <<odooVars, ledger, executed, tokens, pc, jobVars, results,
                 journal>>

(* The tokens a caller can know: those in a result it was told.            *)
Known == {c \in tokens : \E a \in results : a.body.by = c.undoes}

(* ROLLBACK previews the reversal as a proposal of its own, without a      *)
(* witness, and keeps the token.                                           *)
Rollback(c) ==
  /\ requests < MaxRequests
  /\ requests' = requests + 1
  /\ proposals' = proposals \cup
       {[id |-> requests + 1, ask |-> c.ask, witness |-> NoData,
         undoes |-> c.undoes]}
  /\ UNCHANGED <<odooVars, ledger, executed, tokens, pc, jobVars, results,
                 journal>>

-----------------------------------------------------------------------------
(* COMMIT.                                                                 *)

FirstPlace(a) ==
  IF a.op = "upsert" THEN "probe" ELSE IF ReadsBefore(a) THEN "before" ELSE "send"

(* Mutant: any stored body answers a retry, whatever its key.              *)
ReplayAny(t, k) ==
  /\ pc[t] = "idle"
  /\ requests < MaxRequests
  /\ requests' = requests + 1
  /\ \E q \in Keys :
       /\ ledger[q] # NoBody
       /\ results' = results \cup
            {[key |-> k, body |-> ledger[q], at |-> requests + 1]}
  /\ UNCHANGED <<odooVars, shimVars, pc, jobVars, journal>>

Replay(t, k) ==
  /\ pc[t] = "idle"
  /\ requests < MaxRequests
  /\ ledger[k] # NoBody
  /\ requests' = requests + 1
  /\ results' = results \cup
       {[key |-> k, body |-> ledger[k], at |-> requests + 1]}
  /\ UNCHANGED <<odooVars, shimVars, pc, jobVars, journal>>

(* Mutant: the ledger is not consulted.                                    *)
CommitAgain(t, k, p) ==
  /\ requests < MaxRequests
  /\ Goto(t, "idle", FirstPlace(p.ask))
  /\ requests' = requests + 1
  /\ req' = [req EXCEPT ![t] = requests + 1]
  /\ key' = [key EXCEPT ![t] = k]
  /\ prop' = [prop EXCEPT ![t] = p]
  /\ rid' = [rid EXCEPT ![t] = p.ask.rid]
  /\ UNCHANGED <<odooVars, shimVars, before, results, journal>>

Commit(t, k, p) ==
  /\ requests < MaxRequests
  /\ ledger[k] = NoBody
  /\ Goto(t, "idle", FirstPlace(p.ask))
  /\ requests' = requests + 1
  /\ req' = [req EXCEPT ![t] = requests + 1]
  /\ key' = [key EXCEPT ![t] = k]
  /\ prop' = [prop EXCEPT ![t] = p]
  /\ rid' = [rid EXCEPT ![t] = p.ask.rid]
  /\ UNCHANGED <<odooVars, shimVars, before, results, journal>>

(* Mutant: the witness is not rechecked.                                   *)
ReadBeforeUnchecked(t) ==
  /\ Goto(t, "before", "send")
  /\ records[rid[t]] # Gone
  /\ before' = [before EXCEPT ![t] = records[rid[t]]]
  /\ UNCHANGED <<odooVars, shimVars, req, key, prop, rid, requests, results,
                 journal>>

(* The before-image is read, and a generic update recheckes its witness.   *)
ReadBefore(t) ==
  /\ Goto(t, "before", "send")
  /\ records[rid[t]] # Gone
  /\ Snapshot(records[rid[t]], DOMAIN prop[t].witness) = prop[t].witness
  /\ before' = [before EXCEPT ![t] = records[rid[t]]]
  /\ UNCHANGED <<odooVars, shimVars, req, key, prop, rid, requests, results,
                 journal>>

(* PRECONDITION_FAILED: the world drifted since PROPOSE.                   *)
Drifted(t) ==
  /\ pc[t] = "before"
  /\ Snapshot(records[rid[t]], DOMAIN prop[t].witness) # prop[t].witness
  /\ Refuse(t)
  /\ UNCHANGED <<odooVars, shimVars, journal>>

(* Mutant: an upsert that does not ask.                                    *)
ProbeMissed(t) ==
  /\ Goto(t, "probe", "send")
  /\ UNCHANGED <<odooVars, shimVars, jobVars, requests, results, journal>>

(* An upsert asks for the records with its dedup value: exactly one is     *)
(* updated, none means a create.                                           *)
Probe(t) ==
  /\ pc[t] = "probe"
  /\ LET hits == {i \in Ids : /\ records[i] # Gone
                             /\ records[i][Dedup] = prop[t].ask.data[Dedup]}
     IN \/ /\ hits = {}
           /\ Goto(t, "probe", "send")
           /\ UNCHANGED rid
        \/ \E i \in hits :
             /\ hits = {i}
             /\ Goto(t, "probe", "before")
             /\ rid' = [rid EXCEPT ![t] = i]
  /\ UNCHANGED <<odooVars, shimVars, req, key, prop, before, requests, results,
                 journal>>

(* The record cannot be found or read, or the probe finds more than one.   *)
(* (A curated update sends what it cannot find, and Odoo refuses it.)      *)
ReadFails(t) ==
  /\ pc[t] \in {"probe", "before"}
  /\ Refuse(t)
  /\ UNCHANGED <<odooVars, shimVars, journal>>

-----------------------------------------------------------------------------
(* The write.                                                              *)
Wrote(t, i, old, new) ==
  journal' = journal \cup
    {[req |-> req[t], key |-> key[t], prop |-> prop[t], rid |-> i,
      old |-> old, new |-> new]}

(* Odoo creates the record, from the fields given and its defaults.        *)
Create(t) ==
  /\ Goto(t, "send", "applied")
  /\ Creates(t)
  /\ MayWrite(t)
  /\ born < MaxIds
  /\ born' = born + 1
  /\ rid' = [rid EXCEPT ![t] = born + 1]
  /\ \E r \in [Fields -> Vals] :
       /\ Only(r, DOMAIN prop[t].ask.data) = prop[t].ask.data
       /\ \A f \in Fields \ DOMAIN prop[t].ask.data : r[f] = Draft
       /\ records' = [records EXCEPT ![born + 1] = r]
       /\ Wrote(t, born + 1, Gone, r)
  /\ UNCHANGED <<edits, shimVars, req, key, prop, before, requests, results>>

(* Odoo accepts the values, and may silently drop some of them.            *)
Write(t) ==
  /\ Goto(t, "send", "applied")
  /\ Op(t) \in {"update", "upsert", "method"} /\ ~Creates(t)
  /\ records[rid[t]] # Gone
  /\ MayWrite(t)
  /\ \E S \in SUBSET DOMAIN prop[t].ask.data :
       LET new == Patch(records[rid[t]], Only(prop[t].ask.data, S)) IN
       /\ records' = [records EXCEPT ![rid[t]] = new]
       /\ Wrote(t, rid[t], records[rid[t]], new)
  /\ UNCHANGED <<born, edits, shimVars, jobVars, requests, results>>

Unlink(t) ==
  /\ Goto(t, "send", "applied")
  /\ Op(t) = "delete"
  /\ records[rid[t]] # Gone
  /\ MayWrite(t)
  /\ \E new \in {Gone} \cup (IF IgnoresDeletes THEN {records[rid[t]]} ELSE {}) :
       /\ records' = [records EXCEPT ![rid[t]] = new]
       /\ Wrote(t, rid[t], records[rid[t]], new)
  /\ UNCHANGED <<born, edits, shimVars, jobVars, requests, results>>

(* A Fault or a rate limit: nothing was applied.  So are values that do    *)
(* not resolve, before the write is sent.                                  *)
Reject(t) ==
  /\ pc[t] = "send"
  /\ Refuse(t)
  /\ UNCHANGED <<odooVars, shimVars, journal>>

(* OutcomeInDoubt, applied or not.                                         *)
AnswerLost(t) ==
  /\ pc[t] \in {"send", "applied"}
  /\ Refuse(t)
  /\ UNCHANGED <<odooVars, shimVars, journal>>

-----------------------------------------------------------------------------
(* What follows the write.                                                 *)

Undo(fam, o, i, d) == {[family |-> fam, op |-> o, rid |-> i, data |-> d]}

(* Mutant: a curated update keeps the whole record to restore.             *)
RestoreWhole(t) == Undo("generic", "update", rid[t], before[t])

(* Mutant: the image is read when the write is done.                       *)
RestoreLate(t) ==
  Undo("generic", "update", rid[t],
       IF records[rid[t]] = Gone THEN NoData
       ELSE Only(records[rid[t]], DOMAIN prop[t].ask.data))

(* What restores the record t patched: for a generic update the whole      *)
(* before-image, for a curated one the fields patched.                     *)
Restore(t) ==
  Undo("generic", "update", rid[t],
       IF Family(t) = "generic" THEN before[t]
                                ELSE Only(before[t], DOMAIN prop[t].ask.data))

(* The reversal of t's write, if it has one: a curated delete has none,    *)
(* and of the methods only the one that posts.                             *)
Reversals(t) ==
  CASE Creates(t) -> Undo(Family(t), "delete", rid[t], NoData)
    [] Op(t) \in {"update", "upsert"} /\ ~Creates(t) -> Restore(t)
    [] Op(t) = "delete" ->
         IF Family(t) = "generic" THEN Undo("generic", "create", NoId, before[t])
                                  ELSE {}
    [] Op(t) = "method" ->
         IF prop[t].ask.data[Stage] = Posted
           THEN Undo("generic", "method", rid[t], [f \in {Stage} |-> Draft])
           ELSE {}

Mint(t) ==
  tokens' = tokens \cup {[undoes |-> req[t], ask |-> a] : a \in Reversals(t)}

(* The answer arrives.  After a create or an update the client reads the   *)
(* record back; a method call is not verified at all.                      *)
Answered(t) ==
  /\ Goto(t, "applied", CASE Op(t) \in {"create", "update", "upsert"} -> "confirm"
                          [] Op(t) = "delete" -> "verify"
                          [] Op(t) = "method" -> "record")
  /\ UNCHANGED <<odooVars, shimVars, jobVars, requests, results, journal>>

Confirm(t) ==
  /\ Goto(t, "confirm", "verify")
  /\ UNCHANGED <<odooVars, shimVars, jobVars, requests, results, journal>>

(* The client's read-back fails: a failure, after the write has landed.    *)
ConfirmFails(t) ==
  /\ pc[t] = "confirm"
  /\ Refuse(t)
  /\ UNCHANGED <<odooVars, shimVars, journal>>

(* The edge's read-back is outside the try: HTTP 500.  The generic family  *)
(* has by then minted a token, which nobody is told.                       *)
VerifyFails(t) ==
  /\ pc[t] = "verify"
  /\ IF Family(t) = "generic" THEN Mint(t) ELSE UNCHANGED tokens
  /\ Refuse(t)
  /\ UNCHANGED <<odooVars, proposals, ledger, executed, journal>>

(* WRITE_NOT_LANDED: a curated delete whose record is still there.         *)
NotLanded(t) ==
  /\ pc[t] = "verify"
  /\ Family(t) = "curated" /\ Op(t) = "delete"
  /\ records[rid[t]] # Gone
  /\ Refuse(t)
  /\ UNCHANGED <<odooVars, shimVars, journal>>

(* _field_landed: equality, "then a tag-stripped contains".                *)
Shows(found, asked) ==
  \A f \in DOMAIN asked : found[f] = asked[f] \/ <<asked[f], found[f]>> \in Within

(* The written fields read back as asked; the delete left nothing.         *)
Landed(t) ==
  IF Op(t) = "delete" THEN records[rid[t]] = Gone
  ELSE Shows(Snapshot(records[rid[t]], DOMAIN prop[t].ask.data), prop[t].ask.data)

(* The result of t's write is stored, and told unless the event's webhook  *)
(* fails after the ledger row (HTTP 500).  The loop over an upsert's dedup *)
(* keys reuses the variable `key`, so its row is filed under the field.    *)
Store(t, body) ==
  /\ Mint(t)
  /\ ledger' = [ledger EXCEPT ![IF Op(t) = "upsert" THEN Dedup ELSE key[t]] = body]
  /\ executed' = executed \cup {prop[t].id}
  /\ Clear(t)
  /\ \/ results' = results \cup
            {[key |-> key[t], body |-> body, at |-> requests]}
     \/ UNCHANGED results
  /\ UNCHANGED <<odooVars, proposals, requests, journal>>

(* Mutant: a delete that removed nothing is stored all the same.           *)
ConcludePartial(t) ==
  /\ pc[t] \in {"verify", "record"}
  /\ Store(t, [by |-> req[t],
               claim |-> IF pc[t] = "record" \/ Landed(t) THEN "success"
                                                          ELSE "partial"])

(* Mutant: success is asserted, not earned.                                *)
ConcludeAsserted(t) ==
  /\ pc[t] \in {"verify", "record"}
  /\ Family(t) = "curated" /\ Op(t) = "delete" => Landed(t)
  /\ Store(t, [by |-> req[t], claim |-> "success"])

(* The read-back decides the claim; a method call claims success unread.   *)
Conclude(t) ==
  /\ pc[t] \in {"verify", "record"}
  /\ Family(t) = "curated" /\ Op(t) = "delete" => Landed(t)
  /\ Store(t, [by |-> req[t],
               claim |-> IF pc[t] = "record" \/ Landed(t) THEN "success"
                                                          ELSE "partial"])

-----------------------------------------------------------------------------
(* A record with another value in one field, or no more.                   *)
Set(r, f, v) == Patch(r, [g \in {f} |-> v])
Touched(r) == {Gone} \cup {Set(r, f, v) : f \in Fields, v \in Vals}

(* Somebody edits, or removes, a record in Odoo itself.                    *)
Edit(i) ==
  /\ edits < MaxEdits
  /\ records[i] # Gone
  /\ Quiet => \A t \in Threads : ~Poised(t)
  /\ edits' = edits + 1
  /\ \E new \in Touched(records[i]) \ {records[i]} :
       records' = [records EXCEPT ![i] = new]
  /\ UNCHANGED <<born, shimVars, pc, jobVars, requests, results, journal>>

Serve(t) ==
  \/ Probe(t) \/ ReadBefore(t) \/ Drifted(t) \/ ReadFails(t)
  \/ Create(t) \/ Write(t) \/ Unlink(t) \/ Reject(t) \/ AnswerLost(t)
  \/ Answered(t) \/ Confirm(t) \/ ConfirmFails(t)
  \/ VerifyFails(t) \/ NotLanded(t) \/ Conclude(t)

Next ==
  \/ \E a \in Asks : Propose(a)
  \/ \E c \in Known : Rollback(c)
  \/ \E t \in Threads, k \in Keys :
       Replay(t, k) \/ \E p \in proposals : Commit(t, k, p)
  \/ \E t \in Threads : Serve(t)
  \/ \E i \in Ids : Edit(i)

Spec == Init /\ [][Next]_vars

-----------------------------------------------------------------------------
TypeOK ==
  /\ records \in [Ids -> [Fields -> Vals] \cup {Gone}]
  /\ born \in Ids
  /\ edits \in 0 .. MaxEdits
  /\ proposals \subseteq Proposal
  /\ ledger \in [Keys \cup {Dedup} -> Body \cup {NoBody}]
  /\ executed \subseteq Requests
  /\ tokens \subseteq Token
  /\ pc \in [Threads -> Places]
  /\ req \in [Threads -> 0 .. MaxRequests]
  /\ key \in [Threads -> Keys \cup {NoKey}]
  /\ prop \in [Threads -> Proposal \cup {NoProposal}]
  /\ rid \in [Threads -> Ids \cup {NoId}]
  /\ before \in [Threads -> [Fields -> Vals] \cup {Gone}]
  /\ requests \in 0 .. MaxRequests
  /\ results \subseteq Result
  /\ journal \subseteq Entry

(* The state witness: "a COMMIT after a delayed approval against a changed *)
(* world fails closed instead of writing stale".  The values a generic     *)
(* update overwrites are the ones its proposal previewed.                  *)
NoStaleWrite ==
  \A w \in journal :
    Snapshot(w.old, DOMAIN w.prop.witness) = w.prop.witness

(* A token undoes a write that Odoo accepted, and restores what that write *)
(* found: the patched values, the deleted record, the absence of a record. *)
TokensTrue ==
  \A c \in tokens :
    \E w \in journal :
      /\ w.req = c.undoes
      /\ CASE c.ask.op = "delete" -> w.old = Gone /\ c.ask.rid = w.rid
           [] c.ask.op = "create" -> w.old = c.ask.data
           [] c.ask.op = "update" ->
                /\ c.ask.rid = w.rid
                /\ Snapshot(w.old, DOMAIN c.ask.data) = c.ask.data
                /\ DOMAIN w.prop.ask.data \subseteq DOMAIN c.ask.data
           [] c.ask.op = "method" -> c.ask.rid = w.rid

(* An executed result, told or replayed, is that of a write Odoo accepted  *)
(* for this key.                                                           *)
ExecutedWasAccepted ==
  \A a \in results :
    \E w \in journal : w.req = a.body.by /\ w.key = a.key

(* "EARN the verification - never assert it": when success is claimed of   *)
(* an update and nobody else wrote since, the values asked for are there,  *)
(* or others whose text contains them: 15 will do for 5.                   *)
SuccessIsEarned ==
  \A a \in results : \A w \in journal :
    (/\ a.body.by = w.req /\ a.body.claim = "success"
     /\ w.prop.ask.op \in {"update", "upsert"}
     /\ edits = 0 /\ \A v \in journal : v.rid = w.rid => v = w)
    => Shows(Snapshot(records[w.rid], DOMAIN w.prop.ask.data), w.prop.ask.data)

(* "Retried COMMIT - replay, no second write": once the result of one of   *)
(* these operations was told for a key, no COMMIT received later writes    *)
(* under that key.                                                         *)
Replayed(ops) ==
  \A a \in results : \A v, w \in journal :
    (/\ v.req = a.body.by /\ v.prop.ask.op \in ops
     /\ w.key = a.key)
    => w.req <= a.at

ReplayWritesNothing == Replayed({"create", "update", "delete", "method"})
UpsertReplayed == Replayed({"upsert"})

(* An upsert makes a record only where none has its dedup value ("a single *)
(* hit - update it in place, no hit - create").                            *)
UpsertNeverDoubles ==
  [][ \A w \in journal' \ journal :
        w.prop.ask.op = "upsert" /\ w.old = Gone =>
          \A i \in Ids : records[i] # Gone =>
                           records[i][Dedup] # w.prop.ask.data[Dedup] ]_vars

(* A reversal "restores ONLY the fields a write is about to patch - so     *)
(* ROLLBACK never clobbers an unrelated concurrent edit": undoing a        *)
(* curated update leaves the other fields as they are by then.             *)
UndoSparesOthers ==
  \A w, v \in journal :
    (/\ w.prop.undoes = v.req
     /\ v.prop.ask.family = "curated" /\ v.old # Gone
     /\ w.old # Gone /\ w.new # Gone)
    => \A f \in Fields \ DOMAIN v.prop.ask.data : w.new[f] = w.old[f]

(* "A reversal that did not happen must never be recorded as one": when a  *)
(* COMMIT that undoes a create is told to be executed, the record is gone. *)
(* Of the curated path: the generic one does not look (edge.py, 929).      *)
CuratedReversalHappened ==
  \A a \in results : \A w \in journal :
    (/\ a.body.by = w.req
     /\ w.prop.undoes # NoRequest
     /\ w.prop.ask.op = "delete" /\ w.prop.ask.family = "curated")
    => records[w.rid] = Gone
=============================================================================
