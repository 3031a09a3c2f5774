-------------------------- MODULE ResourceCrudProofs ------------------------
(***************************************************************************)
(* Proofs about ResourceCrud, for every number of threads, keys, records,  *)
(* requests and edits, every set of fields and values and whatever the     *)
(* callers ask for.                                                        *)
(***************************************************************************)
EXTENDS ResourceCrud, TLAPS

(* The places of a COMMIT before, and after, Odoo accepted its write.      *)
Pre == {"probe", "before", "send"}
Post == {"applied", "confirm", "verify", "record"}

(* A proposal has a witness only where it is rechecked, and one that       *)
(* undoes something was made of a token.                                   *)
Proposed ==
  \A p \in proposals :
    /\ p.id <= requests
    /\ Complete(p.ask)
    /\ p.witness # NoData => p.ask.family = "generic" /\ p.ask.op = "update"
    /\ p.undoes # NoRequest => \E c \in tokens : c.undoes = p.undoes /\ c.ask = p.ask

(* What a thread at each place has read.                                   *)
Serving ==
  \A t \in Threads :
    /\ pc[t] = "idle" => before[t] = Gone
    /\ pc[t] # "idle" =>
         req[t] \in 1 .. requests /\ key[t] \in Keys /\ prop[t] \in proposals
    /\ pc[t] \in {"probe", "before"} => before[t] = Gone
    /\ pc[t] = "probe" => Op(t) = "upsert"
    /\ pc[t] = "before" => rid[t] \in Ids
    /\ pc[t] = "send" => rid[t] \in Ids \/ Creates(t)
    /\ pc[t] \in {"send"} \cup Post =>
         /\ ReadsBefore(prop[t].ask) => before[t] # Gone
         /\ before[t] # Gone =>
              Snapshot(before[t], DOMAIN prop[t].witness) = prop[t].witness
    /\ pc[t] = "record" => Op(t) = "method"

Shape == TypeOK /\ Proposed /\ Serving

(* No two threads serve one request.                                       *)
Distinct ==
  \A t, u \in Threads : pc[t] # "idle" /\ pc[u] # "idle" /\ req[t] = req[u] => t = u

(* A write leaves the fields it was not asked for, and a request writes at *)
(* most once.                                                              *)
Spares(w) ==
  w.old # Gone /\ w.new # Gone =>
    \A f \in Fields \ DOMAIN w.prop.ask.data : w.new[f] = w.old[f]

Recorded ==
  /\ \A w \in journal : /\ w.req \in 1 .. requests /\ w.prop \in proposals
                        /\ w.rid \in 1 .. born /\ Spares(w)
  /\ \A v, w \in journal : v.req = w.req => v = w

(* The entry of a thread past its write.                                   *)
Of(w, t) ==
  /\ w.req = req[t] /\ w.key = key[t] /\ w.prop = prop[t] /\ w.rid = rid[t]
  /\ Creates(t) <=> w.old = Gone

Done ==
  \A t \in Threads :
    /\ pc[t] \in Pre => \A w \in journal : w.req # req[t]
    /\ pc[t] \in Post => \E w \in journal : Of(w, t)

(* A token is of a write, and a curated one's leaves the other fields.     *)
Careful(c, w) ==
  w.prop.ask.family = "curated" /\ w.old # Gone =>
    c.ask.op \in {"update", "method"} /\ DOMAIN c.ask.data \subseteq DOMAIN w.prop.ask.data

Minted ==
  \A c \in tokens : /\ Complete(c.ask)
                    /\ \E w \in journal : w.req = c.undoes /\ Careful(c, w)

Placed == \A i \in Ids : records[i] # Gone => i <= born

(* While nobody edits, a record written once is as that write left it.     *)
Only1(w) == \A v \in journal : v.rid = w.rid => v = w
Latest == edits = 0 => \A w \in journal : Only1(w) => records[w.rid] = w.new

WriteInv == Distinct /\ Recorded /\ Done /\ Minted /\ Placed /\ Latest

-----------------------------------------------------------------------------
LEMMA NumbersApart ==
  /\ NoId = 0 /\ NoId \notin Ids /\ NoRequest = 0 /\ NoRequest \notin Requests
  /\ Ids \subseteq Nat /\ Requests \subseteq Nat
  /\ \A n \in 0 .. MaxRequests : n < MaxRequests => n + 1 \in Requests
  /\ \A n \in Ids : n < MaxIds => n + 1 \in Ids
BY BoundsAssumption DEF Ids, Requests, NoId, NoRequest

(* Data are functions from some of the fields to values.                   *)
LEMMA DataHas ==
  ASSUME NEW d \in Data
  PROVE  DOMAIN d \subseteq Fields /\ d \in [DOMAIN d -> Vals]
BY DEF Data

LEMMA DataOf ==
  ASSUME NEW S \in SUBSET Fields, NEW d \in [S -> Vals]
  PROVE  d \in Data
BY DEF Data

LEMMA SnapshotOf ==
  ASSUME NEW S \in SUBSET Fields, NEW r \in [Fields -> Vals] \cup {Gone}
  PROVE  Snapshot(r, S) \in Snapshots
<1>1. Snapshot(r, S) \in [S -> Vals \cup {None}]
  BY DEF Snapshot
<1> QED
  BY <1>1 DEF Snapshots

LEMMA NoDataIs == NoData \in Data /\ NoData \in Snapshots
<1>1. NoData \in [{} -> Vals] /\ NoData \in [{} -> Vals \cup {None}]
  BY DEF NoData
<1> QED
  BY <1>1 DEF Data, Snapshots

LEMMA PatchOf ==
  ASSUME NEW r \in [Fields -> Vals], NEW d \in Data
  PROVE  Patch(r, d) \in [Fields -> Vals]
BY DataHas DEF Patch

LEMMA OnlyOf ==
  ASSUME NEW d \in Data, NEW S \in SUBSET DOMAIN d
  PROVE  Only(d, S) \in Data /\ DOMAIN Only(d, S) = S
<1>1. Only(d, S) \in [S -> Vals] /\ S \in SUBSET Fields
  BY DataHas DEF Only
<1> QED
  BY <1>1, DataOf

LEMMA RecordIsData ==
  ASSUME NEW r \in [Fields -> Vals]
  PROVE  /\ r \in Data /\ DOMAIN r = Fields
         /\ \A S \in SUBSET Fields : Only(r, S) \in Data /\ DOMAIN Only(r, S) = S
<1>1. r \in Data
  BY DataOf
<1> QED
  BY <1>1, OnlyOf

LEMMA ProposalIs ==
  ASSUME NEW p \in Proposal
  PROVE  /\ p.id \in Requests /\ p.ask \in Ask /\ p.witness \in Snapshots
         /\ p.undoes \in 0 .. MaxRequests
         /\ p.ask.rid \in Ids \cup {NoId} /\ p.ask.data \in Data
         /\ p.ask.op \in {"create", "update", "upsert", "delete", "method"}
         /\ p.ask.family \in {"generic", "curated"}
BY DEF Proposal, Ask

-----------------------------------------------------------------------------
(* Types, proposals, and what threads have read.                           *)
ThreadTypes ==
  /\ pc \in [Threads -> Places]
  /\ req \in [Threads -> 0 .. MaxRequests]
  /\ key \in [Threads -> Keys \cup {NoKey}]
  /\ prop \in [Threads -> Proposal \cup {NoProposal}]
  /\ rid \in [Threads -> Ids \cup {NoId}]
  /\ before \in [Threads -> [Fields -> Vals] \cup {Gone}]

LEMMA InitShape == Init => Shape
<1> SUFFICES ASSUME Init PROVE Shape
  OBVIOUS
<1>1. records \in [Ids -> [Fields -> Vals] \cup {Gone}]
  BY ValuesAssumption DEF Init
<1>2. born \in Ids /\ edits \in 0 .. MaxEdits /\ requests \in 0 .. MaxRequests
  BY BoundsAssumption DEF Init, Ids
<1>3. ThreadTypes
  BY BoundsAssumption DEF Init, ThreadTypes, Places, NoRequest
<1>4. TypeOK
  BY <1>1, <1>2, <1>3 DEF Init, TypeOK, ThreadTypes
<1> QED
  BY <1>4 DEF Init, Shape, Proposed, Serving, Post

(* Proposals stay founded while tokens and requests only grow.             *)
LEMMA ProposedStays ==
  ASSUME Proposed, requests \in Nat, requests' \in Nat, requests <= requests',
         proposals' = proposals, tokens \subseteq tokens', proposals \subseteq Proposal
  PROVE  Proposed'
<1>1. \A p \in proposals : p.id \in Nat
  BY NumbersApart, ProposalIs
<1> QED
  BY <1>1 DEF Proposed

(* A thread that is done is idle, whatever was stored.                     *)
LEMMA ClearShape ==
  ASSUME Shape, NEW t \in Threads, Clear(t), UNCHANGED <<odooVars, proposals, requests>>,
         tokens \subseteq tokens', tokens' \subseteq Token,
         ledger' \in [Keys \cup {Dedup} -> Body \cup {NoBody}],
         executed' \subseteq Requests, results' \subseteq Result, journal' = journal
  PROVE  Shape'
<1>1. TypeOK'
  BY NumbersApart, BoundsAssumption DEF Shape, TypeOK, Clear, odooVars, Places
<1>2. Proposed'
  BY ProposedStays, BoundsAssumption DEF Shape, TypeOK
<1>3. Serving'
  BY DEF Shape, TypeOK, Serving, Clear, Creates, Op, Post
<1> QED
  BY <1>1, <1>2, <1>3 DEF Shape

LEMMA RefuseShape ==
  ASSUME Shape, NEW t \in Threads, Refuse(t), UNCHANGED <<odooVars, shimVars, journal>>
  PROVE  Shape'
BY ClearShape DEF Refuse, shimVars, Shape, TypeOK

(* A request that changes no thread: a PROPOSE, a ROLLBACK, a replay.      *)
LEMMA AsideShape ==
  ASSUME Shape, requests < MaxRequests, requests' = requests + 1,
         UNCHANGED <<odooVars, ledger, executed, tokens, pc, jobVars, journal>>,
         proposals \subseteq proposals', proposals' \subseteq Proposal, Proposed',
         results' \subseteq Result
  PROVE  Shape'
<1>1. requests \in Nat /\ requests + 1 \in 0 .. MaxRequests
  BY BoundsAssumption DEF Shape, TypeOK
<1>2. TypeOK'
  BY <1>1 DEF Shape, TypeOK, odooVars, jobVars
<1>3. Serving'
  <2> SUFFICES ASSUME NEW t \in Threads, pc[t] # "idle"
               PROVE  req[t] \in 1 .. requests' /\ prop[t] \in proposals'
    BY DEF Serving, Shape, jobVars, Creates, Op
  <2>1. req[t] \in 1 .. requests /\ prop[t] \in proposals
    BY DEF Shape, Serving
  <2> QED
    BY <1>1, <2>1
<1> QED
  BY <1>2, <1>3 DEF Shape

LEMMA WitnessIs ==
  ASSUME TypeOK, NEW a \in Ask, Complete(a)
  PROVE  Witness(a) \in Snapshots
<1>1. CASE a.family = "generic" /\ a.op = "update" /\ records[a.rid] # Gone
  <2>1. a.rid \in Ids
    BY <1>1 DEF Complete, Ask
  <2>2. DOMAIN a.data \in SUBSET Fields /\ records[a.rid] \in [Fields -> Vals] \cup {Gone}
    BY <2>1, DataHas DEF Ask, TypeOK
  <2> QED
    BY <1>1, <2>2, SnapshotOf DEF Witness
<1>2. CASE ~(a.family = "generic" /\ a.op = "update" /\ records[a.rid] # Gone)
  BY <1>2, NoDataIs DEF Witness
<1> QED
  BY <1>1, <1>2

LEMMA ProposedBefore ==
  ASSUME TypeOK, Proposed
  PROVE  \A p \in proposals : p.id <= requests + 1
<1>1. requests \in Nat /\ proposals \subseteq Proposal
  BY BoundsAssumption DEF TypeOK
<1>2. \A p \in proposals : p.id \in Nat /\ p.id <= requests
  BY <1>1, NumbersApart, ProposalIs DEF Proposed
<1> QED
  BY <1>1, <1>2

LEMMA ProposeShape ==
  ASSUME Shape, NEW a \in Asks, Propose(a)
  PROVE  Shape'
<1>1. a \in Ask /\ Complete(a)
  BY AsksAssumption
<1>2. requests \in Nat /\ requests + 1 \in Requests
  BY NumbersApart, BoundsAssumption DEF Propose, Shape, TypeOK
<1>3. Witness(a) \in Snapshots
  BY <1>1, WitnessIs DEF Shape
<1>4. proposals' \subseteq Proposal
  BY <1>1, <1>2, <1>3, BoundsAssumption DEF Propose, Shape, TypeOK, Proposal, NoRequest
<1>5. Witness(a) # NoData => a.family = "generic" /\ a.op = "update"
  BY DEF Witness
<1>6. Proposed'
  <2>1. \A p \in proposals : p.id <= requests + 1
    BY ProposedBefore DEF Shape
  <2> QED
    BY <1>1, <1>2, <1>5, <2>1 DEF Propose, Shape, Proposed
<1> QED
  BY <1>4, <1>6, AsideShape DEF Propose, Shape, TypeOK

LEMMA RollbackShape ==
  ASSUME Shape, Minted, NEW c \in tokens, Rollback(c)
  PROVE  Shape'
<1>1. c.ask \in Ask /\ Complete(c.ask) /\ c.undoes \in Requests
  BY DEF Shape, TypeOK, Token, Minted
<1>2. requests \in Nat /\ requests + 1 \in Requests
  BY NumbersApart, BoundsAssumption DEF Rollback, Shape, TypeOK
<1>3. proposals' \subseteq Proposal
  BY <1>1, <1>2, NoDataIs, BoundsAssumption
     DEF Rollback, Shape, TypeOK, Proposal, Requests
<1>4. Proposed'
  <2>1. \A p \in proposals : p.id <= requests + 1
    BY ProposedBefore DEF Shape
  <2> QED
    BY <1>1, <1>2, <2>1 DEF Rollback, Shape, Proposed
<1> QED
  BY <1>3, <1>4, AsideShape DEF Rollback, Shape, TypeOK

LEMMA ReplayShape ==
  ASSUME Shape, NEW t \in Threads, NEW k \in Keys, Replay(t, k)
  PROVE  Shape'
<1>1. requests \in Nat /\ requests + 1 \in Requests
  BY NumbersApart, BoundsAssumption DEF Replay, Shape, TypeOK
<1>2. results' \subseteq Result
  BY <1>1 DEF Replay, Shape, TypeOK, Result
<1>3. Proposed'
  BY <1>1, ProposedStays DEF Replay, Shape, TypeOK, shimVars
<1> QED
  BY <1>2, <1>3, AsideShape DEF Replay, Shape, TypeOK, shimVars

LEMMA CommitShape ==
  ASSUME Shape, NEW t \in Threads, NEW k \in Keys, NEW p \in proposals, Commit(t, k, p)
  PROVE  Shape'
<1>1. requests \in Nat /\ requests + 1 \in Requests /\ requests + 1 \in 0 .. MaxRequests
  BY NumbersApart, BoundsAssumption DEF Commit, Shape, TypeOK
<1>2. p \in Proposal /\ p.ask \in Ask /\ Complete(p.ask) /\ p.ask.rid \in Ids \cup {NoId}
  BY ProposalIs DEF Shape, TypeOK, Proposed
<1>3. FirstPlace(p.ask) \in Pre
  BY DEF FirstPlace, Pre
<1>4. TypeOK'
  BY <1>1, <1>2, <1>3
     DEF Commit, Goto, Shape, TypeOK, odooVars, shimVars, Pre, Places
<1>5. Proposed'
  BY <1>1, ProposedStays DEF Commit, Shape, TypeOK, shimVars
<1>6. Serving'
  <2>1. ASSUME NEW u \in Threads, u # t
        PROVE  /\ pc'[u] = pc[u] /\ req'[u] = req[u] /\ key'[u] = key[u]
               /\ prop'[u] = prop[u] /\ rid'[u] = rid[u] /\ before'[u] = before[u]
    BY <2>1 DEF Commit, Goto, Shape, TypeOK
  <2>2. /\ pc'[t] = FirstPlace(p.ask) /\ req'[t] = requests + 1 /\ key'[t] = k
        /\ prop'[t] = p /\ rid'[t] = p.ask.rid /\ before'[t] = Gone
    BY DEF Commit, Goto, Shape, TypeOK, Serving
  <2>3. /\ FirstPlace(p.ask) = "before" => p.ask.rid \in Ids
        /\ FirstPlace(p.ask) = "probe" => p.ask.op = "upsert"
        /\ FirstPlace(p.ask) = "send" =>
             /\ p.ask.rid \in Ids \/ p.ask.op = "create"
             /\ ~ReadsBefore(p.ask)
    BY <1>2 DEF FirstPlace, ReadsBefore, Complete, Ask
  <2>4. UNCHANGED <<proposals, records>> /\ requests' = requests + 1
    BY DEF Commit, shimVars, odooVars
  <2> QED
    BY <1>1, <1>3, <2>1, <2>2, <2>3, <2>4
       DEF Shape, Serving, Creates, Op, Pre, Post
<1> QED
  BY <1>4, <1>5, <1>6 DEF Shape

(* A thread that goes on with the proposal it serves.                      *)
LEMMA OnwardShape ==
  ASSUME Shape, NEW t \in Threads, NEW q \in Places \ {"idle", "probe"},
         pc[t] # "idle", pc' = [pc EXCEPT ![t] = q],
         UNCHANGED <<shimVars, req, key, prop, requests, results>>,
         rid' \in [Threads -> Ids \cup {NoId}],
         before' \in [Threads -> [Fields -> Vals] \cup {Gone}],
         \A u \in Threads \ {t} : rid'[u] = rid[u] /\ before'[u] = before[u],
         records' \in [Ids -> [Fields -> Vals] \cup {Gone}], born' \in Ids,
         edits' = edits, journal' \subseteq Entry,
         q = "before" => before'[t] = Gone /\ rid'[t] \in Ids,
         q = "send" => \/ rid'[t] \in Ids
                        \/ prop[t].ask.op = "create"
                        \/ (prop[t].ask.op = "upsert" /\ before'[t] = Gone),
         q \in {"send"} \cup Post =>
           /\ ReadsBefore(prop[t].ask) => before'[t] # Gone
           /\ before'[t] # Gone =>
                Snapshot(before'[t], DOMAIN prop[t].witness) = prop[t].witness,
         q = "record" => prop[t].ask.op = "method"
  PROVE  Shape'
<1>1. TypeOK'
  BY DEF Shape, TypeOK, shimVars
<1>2. Proposed'
  BY ProposedStays, BoundsAssumption DEF Shape, TypeOK, shimVars
<1>3. /\ pc'[t] = q /\ \A u \in Threads \ {t} : pc'[u] = pc[u]
      /\ prop' = prop /\ proposals' = proposals /\ requests' = requests
      /\ req' = req /\ key' = key
  BY DEF Shape, TypeOK, shimVars
<1>4. Serving'
  <2>1. ASSUME NEW u \in Threads, u # t
        PROVE  /\ pc'[u] = pc[u] /\ rid'[u] = rid[u] /\ before'[u] = before[u]
    BY <1>3, <2>1
  <2> QED
    BY <1>3, <2>1 DEF Shape, Serving, Creates, Op, Post
<1> QED
  BY <1>1, <1>2, <1>4 DEF Shape

LEMMA ReadBeforeShape ==
  ASSUME Shape, NEW t \in Threads, ReadBefore(t)
  PROVE  Shape'
<1>1. pc[t] = "before" /\ rid[t] \in Ids /\ records[rid[t]] \in [Fields -> Vals]
  BY DEF ReadBefore, Goto, Shape, TypeOK, Serving
<1>2. before' = [before EXCEPT ![t] = records[rid[t]]] /\ before'[t] = records[rid[t]]
  BY DEF ReadBefore, Shape, TypeOK
<1>3. before' \in [Threads -> [Fields -> Vals] \cup {Gone}]
  BY <1>1, <1>2 DEF Shape, TypeOK
<1>4. before'[t] # Gone
      /\ Snapshot(before'[t], DOMAIN prop[t].witness) = prop[t].witness
  BY <1>2 DEF ReadBefore
<1>5. rid'[t] \in Ids /\ rid' = rid /\ \A u \in Threads \ {t} : before'[u] = before[u]
  BY <1>1, <1>2 DEF ReadBefore, Shape, TypeOK
<1>6. /\ UNCHANGED <<shimVars, req, key, prop, requests, results>>
      /\ pc' = [pc EXCEPT ![t] = "send"]
      /\ UNCHANGED <<records, born, edits, journal>>
  BY DEF ReadBefore, Goto, odooVars
<1>7. /\ records' \in [Ids -> [Fields -> Vals] \cup {Gone}] /\ born' \in Ids
      /\ journal' \subseteq Entry /\ rid' \in [Threads -> Ids \cup {NoId}]
      /\ \A u \in Threads \ {t} : rid'[u] = rid[u] /\ before'[u] = before[u]
  BY <1>5, <1>6 DEF Shape, TypeOK
<1>8. "send" \in Places \ {"idle", "probe"} /\ "send" # "before" /\ "send" # "record"
  BY DEF Places
<1> QED
  <2>1. /\ "send" = "before" => before'[t] = Gone /\ rid'[t] \in Ids
        /\ "send" = "send" => \/ rid'[t] \in Ids
                              \/ prop[t].ask.op = "create"
                              \/ (prop[t].ask.op = "upsert" /\ before'[t] = Gone)
        /\ "send" = "record" => prop[t].ask.op = "method"
    BY <1>5, <1>8
  <2>2. "send" \in {"send"} \cup Post =>
           /\ ReadsBefore(prop[t].ask) => before'[t] # Gone
           /\ before'[t] # Gone =>
                Snapshot(before'[t], DOMAIN prop[t].witness) = prop[t].witness
    BY <1>4
  <2>3. pc[t] # "idle" /\ edits' = edits
    BY <1>1, <1>6
  <2> QED
    BY <1>3, <1>6, <1>7, <1>8, <2>1, <2>2, <2>3, OnwardShape

LEMMA ProbeShape ==
  ASSUME Shape, NEW t \in Threads, Probe(t)
  PROVE  Shape'
<1>1. pc[t] = "probe" /\ before[t] = Gone /\ prop[t] \in proposals
  BY DEF Probe, Shape, Serving
<1>2. CASE Goto(t, "probe", "before") /\ \E i \in Ids : rid' = [rid EXCEPT ![t] = i]
  BY <1>1, <1>2, OnwardShape
     DEF Probe, Goto, odooVars, Places, Post, Shape, TypeOK
<1>3. CASE Goto(t, "probe", "send") /\ UNCHANGED rid
  <2>1. prop[t].ask.op = "upsert" /\ ~ReadsBefore(prop[t].ask)
    BY <1>1 DEF ReadsBefore, Shape, Serving, Op
  <2> QED
    BY <1>1, <1>3, <2>1, OnwardShape
       DEF Probe, Goto, odooVars, Places, Post, Shape, TypeOK
<1> QED
  BY <1>2, <1>3 DEF Probe

LEMMA ServingAt ==
  ASSUME Shape, NEW t \in Threads, pc[t] # "idle"
  PROVE  /\ req[t] \in Requests /\ req[t] \in 1 .. requests
         /\ key[t] \in Keys /\ prop[t] \in proposals
         /\ prop[t] \in Proposal /\ Complete(prop[t].ask)
         /\ prop[t].ask.data \in Data /\ DOMAIN prop[t].ask.data \in SUBSET Fields
         /\ prop[t].ask.op \in {"create", "update", "upsert", "delete", "method"}
         /\ prop[t].ask.family \in {"generic", "curated"}
         /\ prop[t].id \in Requests
<1>1. req[t] \in 1 .. requests /\ key[t] \in Keys /\ prop[t] \in proposals
  BY DEF Shape, Serving
<1>2. requests \in Nat /\ requests <= MaxRequests
  BY BoundsAssumption DEF Shape, TypeOK
<1>3. req[t] \in Requests
  BY <1>1, <1>2, BoundsAssumption DEF Requests
<1>4. prop[t] \in Proposal /\ Complete(prop[t].ask)
  BY <1>1 DEF Shape, TypeOK, Proposed
<1> QED
  BY <1>1, <1>3, <1>4, ProposalIs, DataHas

LEMMA WroteShape ==
  ASSUME Shape, NEW t \in Threads, pc[t] # "idle", NEW i \in Ids,
         NEW old \in [Fields -> Vals] \cup {Gone},
         NEW new \in [Fields -> Vals] \cup {Gone}, Wrote(t, i, old, new)
  PROVE  journal' \subseteq Entry
BY ServingAt DEF Wrote, Entry, Shape, TypeOK

(* What each of the three writes does.                                     *)
LEMMA Writes ==
  ASSUME Shape, NEW t \in Threads, Create(t) \/ Write(t) \/ Unlink(t)
  PROVE  /\ Goto(t, "send", "applied") /\ MayWrite(t)
         /\ UNCHANGED <<edits, shimVars, req, key, prop, before, requests, results>>
         /\ \A u \in Threads \ {t} : rid'[u] = rid[u]
         /\ \E old, new \in [Fields -> Vals] \cup {Gone} :
              /\ Wrote(t, rid'[t], old, new)
              /\ rid'[t] \in Ids /\ rid' \in [Threads -> Ids \cup {NoId}]
              /\ records' = [records EXCEPT ![rid'[t]] = new]
              /\ \/ /\ Creates(t) /\ old = Gone
                    /\ born < MaxIds /\ born' = born + 1 /\ rid'[t] = born + 1
                 \/ /\ ~Creates(t) /\ old = records[rid[t]] /\ old # Gone
                    /\ rid' = rid /\ born' = born
              /\ new # Gone /\ old # Gone =>
                   \A f \in Fields \ DOMAIN prop[t].ask.data : new[f] = old[f]
<1> USE DEF Goto, Shape
<1>1. CASE Create(t)
  <2>1. PICK r \in [Fields -> Vals] : /\ records' = [records EXCEPT ![born + 1] = r]
                                      /\ Wrote(t, born + 1, Gone, r)
    BY <1>1 DEF Create
  <2>2. born + 1 \in Ids /\ rid' = [rid EXCEPT ![t] = born + 1]
    BY <1>1, NumbersApart DEF Create, TypeOK
  <2>3. rid'[t] = born + 1 /\ rid' \in [Threads -> Ids \cup {NoId}]
        /\ \A u \in Threads \ {t} : rid'[u] = rid[u]
    BY <2>2 DEF TypeOK
  <2>4. /\ Goto(t, "send", "applied") /\ MayWrite(t) /\ Creates(t)
        /\ born < MaxIds /\ born' = born + 1
        /\ UNCHANGED <<edits, shimVars, req, key, prop, before, requests, results>>
    BY <1>1 DEF Create
  <2>5. Wrote(t, rid'[t], Gone, r) /\ records' = [records EXCEPT ![rid'[t]] = r]
    BY <2>1, <2>3 DEF Wrote
  <2> QED
    BY <2>2, <2>3, <2>4, <2>5
<1>2. CASE Write(t)
  <2>1. rid[t] \in Ids /\ records[rid[t]] \in [Fields -> Vals]
    BY <1>2 DEF Write, TypeOK, Serving
  <2>2. PICK S \in SUBSET DOMAIN prop[t].ask.data :
          /\ records' = [records EXCEPT ![rid[t]] =
                            Patch(records[rid[t]], Only(prop[t].ask.data, S))]
          /\ Wrote(t, rid[t], records[rid[t]],
                   Patch(records[rid[t]], Only(prop[t].ask.data, S)))
    BY <1>2 DEF Write
  <2>3. prop[t].ask.data \in Data
    BY <1>2, ServingAt DEF Write
  <2>4. Only(prop[t].ask.data, S) \in Data /\ DOMAIN Only(prop[t].ask.data, S) = S
    BY <2>3, OnlyOf
  <2> DEFINE new == Patch(records[rid[t]], Only(prop[t].ask.data, S))
  <2>5. new \in [Fields -> Vals]
    BY <2>1, <2>4, PatchOf
  <2>6. \A f \in Fields \ DOMAIN prop[t].ask.data : new[f] = records[rid[t]][f]
    BY <2>4 DEF Patch
  <2>7. /\ UNCHANGED <<born, edits, shimVars, jobVars, requests, results>>
        /\ ~Creates(t) /\ records[rid[t]] # Gone /\ MayWrite(t)
        /\ pc[t] = "send" /\ pc' = [pc EXCEPT ![t] = "applied"]
    BY <1>2 DEF Write
  <2>8. rid' = rid /\ rid' \in [Threads -> Ids \cup {NoId}]
    BY <2>7 DEF jobVars, TypeOK
  <2>9. records' = [records EXCEPT ![rid[t]] = new] /\ Wrote(t, rid[t], records[rid[t]], new)
    BY <2>2
  <2> HIDE DEF new
  <2>10. rid'[t] = rid[t] /\ \A u \in Threads \ {t} : rid'[u] = rid[u]
    BY <2>8
  <2>11. \E o, n \in [Fields -> Vals] \cup {Gone} :
           /\ o = records[rid[t]] /\ Wrote(t, rid'[t], o, n)
           /\ records' = [records EXCEPT ![rid'[t]] = n]
           /\ \A f \in Fields \ DOMAIN prop[t].ask.data : n[f] = o[f]
    <3>1. /\ Wrote(t, rid'[t], records[rid[t]], new)
          /\ records' = [records EXCEPT ![rid'[t]] = new]
      BY <2>9, <2>10 DEF Wrote
    <3>2. \A f \in Fields \ DOMAIN prop[t].ask.data : new[f] = records[rid[t]][f]
      BY <2>6
    <3> QED
      BY <2>1, <2>5, <3>1, <3>2
  <2>12. PICK o \in [Fields -> Vals] \cup {Gone}, n \in [Fields -> Vals] \cup {Gone} :
           /\ o = records[rid[t]] /\ Wrote(t, rid'[t], o, n)
           /\ records' = [records EXCEPT ![rid'[t]] = n]
           /\ \A f \in Fields \ DOMAIN prop[t].ask.data : n[f] = o[f]
    BY <2>11
  <2>13. /\ Goto(t, "send", "applied")
         /\ UNCHANGED <<edits, shimVars, req, key, prop, before, requests, results>>
    BY <2>7 DEF jobVars
  <2>14. rid'[t] \in Ids /\ o # Gone
    BY <2>1, <2>7, <2>10, <2>12
  <2> HIDE DEF Goto
  <2> QED
    BY <2>7, <2>8, <2>10, <2>12, <2>13, <2>14
<1>3. CASE Unlink(t)
  <2>1. ~Creates(t)
    BY <1>3 DEF Unlink, Creates
  <2>2. rid[t] \in Ids /\ records[rid[t]] \in [Fields -> Vals]
    BY <1>3, <2>1 DEF Unlink, TypeOK, Serving
  <2>3. PICK new \in {Gone} \cup {records[rid[t]]} :
          /\ records' = [records EXCEPT ![rid[t]] = new]
          /\ Wrote(t, rid[t], records[rid[t]], new)
    BY <1>3 DEF Unlink
  <2>4. new \in [Fields -> Vals] \cup {Gone}
        /\ (new # Gone => \A f \in Fields \ DOMAIN prop[t].ask.data :
                             new[f] = records[rid[t]][f])
    BY <2>2, <2>3
  <2>5. /\ UNCHANGED <<born, edits, shimVars, jobVars, requests, results>>
        /\ records[rid[t]] # Gone /\ MayWrite(t)
        /\ pc[t] = "send" /\ pc' = [pc EXCEPT ![t] = "applied"]
    BY <1>3 DEF Unlink
  <2>6. rid' = rid /\ rid' \in [Threads -> Ids \cup {NoId}]
    BY <2>5 DEF jobVars, TypeOK
  <2> QED
    BY <2>1, <2>2, <2>3, <2>4, <2>5, <2>6 DEF jobVars
<1> QED
  BY <1>1, <1>2, <1>3

LEMMA WriteShape ==
  ASSUME Shape, NEW t \in Threads, Create(t) \/ Write(t) \/ Unlink(t)
  PROVE  Shape'
<1>1. PICK old \in [Fields -> Vals] \cup {Gone}, new \in [Fields -> Vals] \cup {Gone} :
        /\ Wrote(t, rid'[t], old, new)
        /\ rid'[t] \in Ids /\ rid' \in [Threads -> Ids \cup {NoId}]
        /\ records' = [records EXCEPT ![rid'[t]] = new]
        /\ (born < MaxIds /\ born' = born + 1) \/ born' = born
  BY Writes
<1>2. PICK i \in Ids : i = rid'[t]
  BY <1>1
<1>3. /\ pc[t] = "send" /\ pc' = [pc EXCEPT ![t] = "applied"]
      /\ UNCHANGED <<edits, shimVars, req, key, prop, before, requests, results>>
      /\ \A u \in Threads \ {t} : rid'[u] = rid[u]
  BY Writes DEF Goto
<1>4. records' \in [Ids -> [Fields -> Vals] \cup {Gone}] /\ born' \in Ids
  BY <1>1, <1>2, NumbersApart DEF Shape, TypeOK
<1>5. journal' \subseteq Entry
  <2>1. Wrote(t, i, old, new) /\ pc[t] # "idle"
    BY <1>1, <1>2, <1>3 DEF Wrote
  <2> QED
    BY <2>1, WroteShape
<1>6. /\ ReadsBefore(prop[t].ask) => before'[t] # Gone
      /\ before'[t] # Gone =>
           Snapshot(before'[t], DOMAIN prop[t].witness) = prop[t].witness
  BY <1>3 DEF Shape, Serving
<1>7. before' \in [Threads -> [Fields -> Vals] \cup {Gone}]
      /\ \A u \in Threads \ {t} : rid'[u] = rid[u] /\ before'[u] = before[u]
  BY <1>3 DEF Shape, TypeOK
<1>8. "applied" \in Places \ {"idle", "probe"}
  BY DEF Places
<1> QED
  BY <1>1, <1>3, <1>4, <1>5, <1>6, <1>7, <1>8, OnwardShape

(* What reverses a write can be asked of COMMIT.                           *)
LEMMA ReversalsAre ==
  ASSUME Shape, NEW t \in Threads, pc[t] \in Post, rid[t] \in Ids, NEW a \in Reversals(t)
  PROVE  /\ a \in Ask /\ Complete(a)
         /\ a.rid = rid[t] \/ a.op = "create"
         /\ a.op = "delete" => Creates(t)
         /\ a.op = "create" => ~Creates(t) /\ before[t] # Gone /\ a.data = before[t]
                               /\ Family(t) = "generic"
         /\ a.op = "update" => /\ ~Creates(t) /\ before[t] # Gone
                               /\ \E S \in SUBSET Fields :
                                    /\ a.data = Only(before[t], S)
                                    /\ DOMAIN prop[t].ask.data \subseteq S
                                    /\ Family(t) = "curated" =>
                                         S = DOMAIN prop[t].ask.data
         /\ a.op = "method" => ~Creates(t) /\ DOMAIN a.data \subseteq DOMAIN prop[t].ask.data
         /\ a.op \in {"delete", "create", "update", "method"}
<1> USE DEF Shape
<1>1. pc[t] # "idle" /\ prop[t] \in Proposal
  BY ServingAt DEF Post
<1>2. /\ prop[t].ask.op \in {"create", "update", "upsert", "delete", "method"}
      /\ prop[t].ask.family \in {"generic", "curated"} /\ Complete(prop[t].ask)
      /\ DOMAIN prop[t].ask.data \in SUBSET Fields
  BY <1>1, ServingAt
<1>3. ReadsBefore(prop[t].ask) => before[t] # Gone
  BY DEF Serving
<1>4. before[t] # Gone => before[t] \in [Fields -> Vals]
  BY DEF TypeOK
<1>5. rid[t] # NoId /\ rid[t] \in Ids \cup {NoId} /\ NoId \in Ids \cup {NoId}
  BY NumbersApart
<1>6. CASE Creates(t)
  <2>1. a = [family |-> Family(t), op |-> "delete", rid |-> rid[t], data |-> NoData]
    BY <1>6 DEF Reversals, Undo, Creates
  <2> QED
    BY <1>2, <1>5, <1>6, <2>1, NoDataIs DEF Ask, Complete, Family
<1>7. CASE ~Creates(t) /\ Op(t) \in {"update", "upsert"}
  <2>1. before[t] \in [Fields -> Vals] /\ before[t] # Gone
    BY <1>2, <1>3, <1>4, <1>7 DEF ReadsBefore, Op, Creates
  <2>2. \E S \in SUBSET Fields :
          /\ a = [family |-> "generic", op |-> "update", rid |-> rid[t],
                  data |-> Only(before[t], S)]
          /\ DOMAIN prop[t].ask.data \subseteq S
          /\ Family(t) = "curated" => S = DOMAIN prop[t].ask.data
    <3>1. a \in Restore(t)
      BY <1>7 DEF Reversals
    <3>2. CASE Family(t) = "generic"
      <4>1. before[t] = Only(before[t], Fields)
        BY <2>1 DEF Only
      <4>2. a = [family |-> "generic", op |-> "update", rid |-> rid[t],
                 data |-> before[t]]
        BY <3>1, <3>2 DEF Restore, Undo
      <4> QED
        BY <1>2, <3>2, <4>1, <4>2
    <3>3. CASE Family(t) # "generic"
      <4>1. a = [family |-> "generic", op |-> "update", rid |-> rid[t],
                 data |-> Only(before[t], DOMAIN prop[t].ask.data)]
        BY <3>1, <3>3 DEF Restore, Undo
      <4> QED
        BY <1>2, <4>1
    <3> QED
      BY <3>2, <3>3
  <2>3. PICK S \in SUBSET Fields :
          /\ a = [family |-> "generic", op |-> "update", rid |-> rid[t],
                  data |-> Only(before[t], S)]
          /\ DOMAIN prop[t].ask.data \subseteq S
          /\ Family(t) = "curated" => S = DOMAIN prop[t].ask.data
    BY <2>2
  <2>4. Only(before[t], S) \in Data
    BY <2>1, RecordIsData
  <2> QED
    BY <1>5, <1>7, <2>1, <2>3, <2>4 DEF Ask, Complete
<1>8. CASE ~Creates(t) /\ Op(t) = "delete"
  <2>1. Family(t) = "generic" /\
        a = [family |-> "generic", op |-> "create", rid |-> NoId, data |-> before[t]]
    BY <1>8 DEF Reversals, Undo
  <2>2. before[t] \in [Fields -> Vals] /\ before[t] # Gone
    BY <1>3, <1>4, <1>8, <2>1 DEF ReadsBefore, Op, Family
  <2>3. before[t] \in Data
    BY <2>2, RecordIsData
  <2> QED
    BY <1>5, <1>8, <2>1, <2>2, <2>3 DEF Ask, Complete
<1>9. CASE ~Creates(t) /\ Op(t) = "method"
  <2> DEFINE d == [f \in {Stage} |-> Draft]
  <2>1. a = [family |-> "generic", op |-> "method", rid |-> rid[t], data |-> d]
    BY <1>9 DEF Reversals, Undo
  <2>2. d \in [{Stage} -> Vals] /\ {Stage} \in SUBSET Fields /\ DOMAIN d = {Stage}
    BY ValuesAssumption
  <2>3. d \in Data
    BY <2>2, DataOf
  <2>4. Stage \in DOMAIN prop[t].ask.data
    BY <1>2, <1>9 DEF Complete, Op
  <2> HIDE DEF d
  <2> QED
    BY <1>5, <1>9, <2>1, <2>2, <2>3, <2>4 DEF Ask, Complete
<1> QED
  BY <1>2, <1>6, <1>7, <1>8, <1>9 DEF Op, Creates

LEMMA MintShape ==
  ASSUME Shape, NEW t \in Threads, pc[t] \in Post, rid[t] \in Ids, Mint(t)
  PROVE  tokens \subseteq tokens' /\ tokens' \subseteq Token
<1>1. pc[t] # "idle"
  BY DEF Post
<1>2. req[t] \in Requests /\ \A a \in Reversals(t) : a \in Ask
  BY <1>1, ServingAt, ReversalsAre
<1> QED
  BY <1>2 DEF Mint, Token, Shape, TypeOK

LEMMA VerifyFailsShape ==
  ASSUME Shape, NEW t \in Threads, rid[t] \in Ids, VerifyFails(t)
  PROVE  Shape'
<1>1. pc[t] \in Post
  BY DEF VerifyFails, Post
<1>2. tokens \subseteq tokens' /\ tokens' \subseteq Token
  BY <1>1, MintShape DEF VerifyFails, Shape, TypeOK
<1> QED
  BY <1>2, ClearShape DEF VerifyFails, Refuse, Shape, TypeOK

LEMMA ConcludeShape ==
  ASSUME Shape, NEW t \in Threads, rid[t] \in Ids, Conclude(t)
  PROVE  /\ Shape'
         /\ \E body \in Body : /\ body.by = req[t] /\ Store(t, body)
                               /\ body.claim = "success" => pc[t] = "record" \/ Landed(t)
<1> DEFINE body == [by |-> req[t], claim |-> IF pc[t] = "record" \/ Landed(t)
                                             THEN "success" ELSE "partial"]
<1>1. pc[t] \in Post /\ pc[t] # "idle"
  BY DEF Conclude, Post
<1>2. /\ req[t] \in Requests /\ key[t] \in Keys /\ prop[t].id \in Requests
  BY <1>1, ServingAt
<1>3. body \in Body /\ Store(t, body)
  BY <1>2 DEF Conclude, Body
<1>4. body.by = req[t] /\ (body.claim = "success" => pc[t] = "record" \/ Landed(t))
  OBVIOUS
<1> HIDE DEF body
<1>5. tokens \subseteq tokens' /\ tokens' \subseteq Token
  BY <1>1, <1>3, MintShape DEF Store
<1>6. requests \in Nat /\ req[t] \in 1 .. requests /\ requests \in Requests
  <2>1. requests \in Nat /\ requests <= MaxRequests /\ req[t] \in 1 .. requests
    BY <1>1, ServingAt, BoundsAssumption DEF Shape, TypeOK
  <2> QED
    BY <2>1, BoundsAssumption DEF Requests
<1>7. results' \subseteq Result
  BY <1>2, <1>3, <1>6 DEF Store, Result, Shape, TypeOK
<1>8. ledger' \in [Keys \cup {Dedup} -> Body \cup {NoBody}]
  BY <1>2, <1>3 DEF Store, Shape, TypeOK
<1>9. executed' \subseteq Requests
  BY <1>2, <1>3 DEF Store, Shape, TypeOK
<1>10. Clear(t) /\ UNCHANGED <<odooVars, proposals, requests, journal>>
  BY <1>3 DEF Store
<1>11. Shape'
  BY <1>5, <1>7, <1>8, <1>9, <1>10, ClearShape
<1> QED
  BY <1>3, <1>4, <1>11

LEMMA AnsweredShape ==
  ASSUME Shape, NEW t \in Threads, rid[t] \in Ids, Answered(t) \/ Confirm(t)
  PROVE  Shape'
<1>1. pc[t] \in {"applied", "confirm"} /\ pc[t] # "idle"
  BY DEF Answered, Confirm, Goto
<1>2. prop[t].ask.op \in {"create", "update", "upsert", "delete", "method"}
  BY <1>1, ServingAt
<1>3. PICK q \in {"confirm", "verify", "record"} :
        /\ pc' = [pc EXCEPT ![t] = q]
        /\ q = "record" => prop[t].ask.op = "method"
  BY <1>2 DEF Answered, Confirm, Goto, Op
<1>4. UNCHANGED <<odooVars, shimVars, jobVars, requests, results, journal>>
  BY DEF Answered, Confirm
<1>5. /\ ReadsBefore(prop[t].ask) => before'[t] # Gone
      /\ before'[t] # Gone =>
           Snapshot(before'[t], DOMAIN prop[t].witness) = prop[t].witness
  BY <1>1, <1>4 DEF Shape, Serving, Post, jobVars
<1>6. q \in Places \ {"idle", "probe"} /\ q # "before" /\ q # "send"
  BY DEF Places
<1>7. /\ UNCHANGED <<shimVars, req, key, prop, requests, results>>
      /\ rid' \in [Threads -> Ids \cup {NoId}]
      /\ before' \in [Threads -> [Fields -> Vals] \cup {Gone}]
      /\ \A u \in Threads \ {t} : rid'[u] = rid[u] /\ before'[u] = before[u]
      /\ records' \in [Ids -> [Fields -> Vals] \cup {Gone}] /\ born' \in Ids
      /\ edits' = edits /\ journal' \subseteq Entry
  BY <1>4 DEF Shape, TypeOK, jobVars, odooVars
<1> QED
  BY <1>1, <1>3, <1>5, <1>6, <1>7, OnwardShape

LEMMA TouchedIs ==
  ASSUME NEW r \in [Fields -> Vals], NEW new \in Touched(r)
  PROVE  new \in [Fields -> Vals] \cup {Gone}
<1>1. CASE new = Gone
  BY <1>1
<1>2. CASE new # Gone
  <2>1. PICK f \in Fields, v \in Vals : new = Set(r, f, v)
    BY <1>2 DEF Touched
  <2>2. [g \in {f} |-> v] \in Data
    BY DataOf
  <2> QED
    BY <2>1, <2>2, PatchOf DEF Set
<1> QED
  BY <1>1, <1>2

LEMMA EditShape ==
  ASSUME Shape, NEW i \in Ids, Edit(i)
  PROVE  Shape'
<1>1. records[i] \in [Fields -> Vals]
  BY DEF Edit, Shape, TypeOK
<1>2. PICK new \in Touched(records[i]) : records' = [records EXCEPT ![i] = new]
  BY DEF Edit
<1>3. records' \in [Ids -> [Fields -> Vals] \cup {Gone}]
  BY <1>1, <1>2, TouchedIs DEF Shape, TypeOK
<1>4. edits' \in 0 .. MaxEdits
  BY BoundsAssumption DEF Edit, Shape, TypeOK
<1>5. TypeOK'
  BY <1>3, <1>4 DEF Edit, Shape, TypeOK, shimVars, jobVars
<1> QED
  BY <1>5 DEF Edit, Shape, Proposed, Serving, shimVars, jobVars, Creates, Op

-----------------------------------------------------------------------------
(* Requests, writes and tokens.                                            *)
LEMMA InitWrites == Init => WriteInv
<1> SUFFICES ASSUME Init PROVE WriteInv
  OBVIOUS
<1>1. Placed
  BY NumbersApart DEF Init, Placed
<1> QED
  BY <1>1 DEF Init, WriteInv, Distinct, Recorded, Done, Minted, Latest, Pre, Post

(* Who is past its write has one entry of its own.                         *)
LEMMA EntryOf ==
  ASSUME Shape, WriteInv, NEW t \in Threads, pc[t] \in Post
  PROVE  /\ \E w \in journal : Of(w, t)
         /\ rid[t] \in Ids
<1>1. PICK w \in journal : Of(w, t)
  BY DEF WriteInv, Done
<1>2. w.rid \in 1 .. born /\ rid[t] = w.rid /\ born \in Ids
  BY <1>1 DEF WriteInv, Recorded, Of, Shape, TypeOK
<1>3. rid[t] \in Ids
  BY <1>2, BoundsAssumption DEF Ids
<1> QED
  BY <1>1, <1>3

(* Nothing was written, and only t moved.                                  *)
LEMMA UnwrittenInv ==
  ASSUME Shape, WriteInv, NEW t \in Threads,
         UNCHANGED <<records, born, edits, journal, proposals, requests>>,
         \A u \in Threads \ {t} :
           /\ pc'[u] = pc[u] /\ req'[u] = req[u] /\ key'[u] = key[u]
           /\ prop'[u] = prop[u] /\ rid'[u] = rid[u] /\ before'[u] = before[u],
         pc'[t] # "idle" => pc[t] # "idle" /\ req'[t] = req[t],
         pc'[t] \in Pre => pc[t] \in Pre,
         pc'[t] \in Post => /\ pc[t] \in Post /\ key'[t] = key[t]
                            /\ prop'[t] = prop[t] /\ rid'[t] = rid[t]
                            /\ before'[t] = before[t],
         Minted'
  PROVE  WriteInv'
<1>1. Distinct'
  BY DEF WriteInv, Distinct
<1>2. Recorded' /\ Placed' /\ Latest'
  BY DEF WriteInv, Recorded, Spares, Placed, Latest, Only1
<1>3. Done'
  <2>1. ASSUME NEW u \in Threads, pc'[u] \in Pre
        PROVE  \A w \in journal' : w.req # req'[u]
    <3>1. pc[u] \in Pre /\ req'[u] = req[u]
      BY <2>1 DEF Pre
    <3> QED
      BY <3>1 DEF WriteInv, Done
  <2>2. ASSUME NEW u \in Threads, pc'[u] \in Post
        PROVE  \E w \in journal' : Of(w, u)'
    <3>1. /\ pc[u] \in Post /\ req'[u] = req[u] /\ key'[u] = key[u]
          /\ prop'[u] = prop[u] /\ rid'[u] = rid[u] /\ before'[u] = before[u]
      BY <2>2 DEF Post
    <3>2. PICK w \in journal : Of(w, u)
      BY <3>1 DEF WriteInv, Done
    <3>3. w \in journal' /\ Of(w, u)'
      BY <3>1, <3>2 DEF Of, Creates, Op
    <3> QED
      BY <3>3
  <2> QED
    BY <2>1, <2>2 DEF Done
<1> QED
  BY <1>1, <1>2, <1>3 DEF WriteInv

(* A request that changes no thread.                                       *)
LEMMA AsideInv ==
  ASSUME Shape, WriteInv, requests < MaxRequests, requests' = requests + 1,
         proposals \subseteq proposals',
         UNCHANGED <<odooVars, tokens, pc, jobVars, journal>>
  PROVE  WriteInv'
<1>1. requests \in Nat
  BY BoundsAssumption DEF Shape, TypeOK
<1>2. Distinct' /\ Done'
  BY DEF WriteInv, Distinct, Done, jobVars, Of, Creates, Op
<1>3. Recorded'
  <2>1. ASSUME NEW w \in journal
        PROVE  w.req \in 1 .. requests + 1
    <3>1. w.req \in 1 .. requests
      BY DEF WriteInv, Recorded
    <3> QED
      BY <1>1, <3>1
  <2> QED
    BY <2>1 DEF WriteInv, Recorded, Spares, odooVars
<1>4. Minted' /\ Placed' /\ Latest'
  BY DEF WriteInv, Minted, Careful, Placed, Latest, Only1, odooVars
<1> QED
  BY <1>2, <1>3, <1>4 DEF WriteInv

LEMMA CommitInv ==
  ASSUME Shape, WriteInv, NEW t \in Threads, NEW k \in Keys, NEW p \in proposals,
         Commit(t, k, p)
  PROVE  WriteInv'
<1>1. requests \in Nat
  BY BoundsAssumption DEF Shape, TypeOK
<1>2. /\ pc' = [pc EXCEPT ![t] = FirstPlace(p.ask)] /\ pc'[t] \in Pre
      /\ req'[t] = requests + 1
      /\ \A u \in Threads \ {t} :
           /\ pc'[u] = pc[u] /\ req'[u] = req[u] /\ key'[u] = key[u]
           /\ prop'[u] = prop[u] /\ rid'[u] = rid[u] /\ before'[u] = before[u]
      /\ UNCHANGED <<odooVars, shimVars, journal>> /\ requests' = requests + 1
  BY DEF Commit, Goto, Shape, TypeOK, FirstPlace, Pre
<1>3. Distinct'
  <2>1. \A u \in Threads : pc[u] # "idle" => req[u] \in 1 .. requests
    BY DEF Shape, Serving
  <2>2. \A u \in Threads : pc[u] # "idle" => req[u] # requests + 1
    BY <1>1, <2>1
  <2> QED
    BY <1>2, <2>2 DEF WriteInv, Distinct
<1>4. \A w \in journal : w.req \in 1 .. requests + 1 /\ w.req # requests + 1
  <2>1. ASSUME NEW w \in journal
        PROVE  w.req \in 1 .. requests
    BY DEF WriteInv, Recorded
  <2> QED
    BY <1>1, <2>1
<1>5. Recorded' /\ Minted' /\ Placed' /\ Latest'
  BY <1>2, <1>4 DEF WriteInv, Recorded, Spares, Minted, Careful, Placed, Latest, Only1,
                    odooVars, shimVars
<1>6. Done'
  <2>1. ASSUME NEW u \in Threads, pc'[u] \in Pre
        PROVE  \A w \in journal' : w.req # req'[u]
    BY <1>2, <1>4, <2>1 DEF WriteInv, Done
  <2>2. ASSUME NEW u \in Threads, pc'[u] \in Post
        PROVE  \E w \in journal' : Of(w, u)'
    <3>1. u # t /\ pc[u] \in Post
      BY <1>2, <2>2 DEF Pre, Post
    <3> QED
      BY <1>2, <3>1 DEF WriteInv, Done, Of, Creates, Op
  <2> QED
    BY <2>1, <2>2 DEF Done
<1> QED
  BY <1>3, <1>5, <1>6 DEF WriteInv

LEMMA MintInv ==
  ASSUME Shape, WriteInv, NEW t \in Threads, pc[t] \in Post, Mint(t), journal' = journal
  PROVE  Minted'
<1>1. PICK w \in journal : Of(w, t)
  BY EntryOf
<1>2. ASSUME NEW a \in Reversals(t)
      PROVE  Complete(a) /\ Careful([undoes |-> req[t], ask |-> a], w)
  <2>1. Complete(a)
    BY EntryOf, ReversalsAre
  <2>2. /\ a.op \in {"delete", "create", "update", "method"}
        /\ a.op = "delete" => Creates(t)
        /\ a.op = "create" => Family(t) = "generic"
        /\ a.op = "method" => DOMAIN a.data \subseteq DOMAIN prop[t].ask.data
    BY EntryOf, ReversalsAre
  <2>3. ASSUME a.op = "update", Family(t) = "curated"
        PROVE  DOMAIN a.data \subseteq DOMAIN prop[t].ask.data
    <3>1. PICK S \in SUBSET Fields : a.data = Only(before[t], S)
                                     /\ S = DOMAIN prop[t].ask.data
      BY <2>3, EntryOf, ReversalsAre
    <3> QED
      BY <3>1 DEF Only
  <2> QED
    BY <1>1, <2>1, <2>2, <2>3 DEF Careful, Of, Family
<1>3. w.req = req[t]
  BY <1>1 DEF Of
<1> QED
  BY <1>2, <1>3 DEF Mint, WriteInv, Minted

(* A thread that is done, with a token or without.                         *)
LEMMA ClearInv ==
  ASSUME Shape, WriteInv, NEW t \in Threads, Clear(t),
         UNCHANGED <<odooVars, proposals, requests, journal>>, Minted'
  PROVE  WriteInv'
<1>1. /\ pc'[t] = "idle"
      /\ \A u \in Threads \ {t} :
           /\ pc'[u] = pc[u] /\ req'[u] = req[u] /\ key'[u] = key[u]
           /\ prop'[u] = prop[u] /\ rid'[u] = rid[u] /\ before'[u] = before[u]
  BY DEF Clear, Shape, TypeOK
<1>2. "idle" \notin Pre /\ "idle" \notin Post
  BY DEF Pre, Post
<1> QED
  BY <1>1, <1>2, UnwrittenInv DEF odooVars

LEMMA RefuseInv ==
  ASSUME Shape, WriteInv, NEW t \in Threads, Refuse(t),
         UNCHANGED <<odooVars, shimVars, journal>>
  PROVE  WriteInv'
<1>1. Minted'
  BY DEF WriteInv, Minted, Careful, shimVars
<1> QED
  BY <1>1, ClearInv DEF Refuse, shimVars

LEMMA ReadInv ==
  ASSUME Shape, WriteInv, NEW t \in Threads,
         ReadBefore(t) \/ Probe(t) \/ Answered(t) \/ Confirm(t)
  PROVE  WriteInv'
<1>1. Minted' /\ UNCHANGED <<records, born, edits, journal, proposals, requests>>
  BY DEF ReadBefore, Probe, Answered, Confirm, WriteInv, Minted, Careful, odooVars, shimVars
<1>2. \A u \in Threads \ {t} :
        /\ pc'[u] = pc[u] /\ req'[u] = req[u] /\ key'[u] = key[u]
        /\ prop'[u] = prop[u] /\ rid'[u] = rid[u] /\ before'[u] = before[u]
  BY DEF ReadBefore, Probe, Answered, Confirm, Goto, jobVars, Shape, TypeOK
<1>3. CASE ReadBefore(t) \/ Probe(t)
  <2>1. /\ pc[t] \in Pre /\ pc'[t] \in Pre /\ pc[t] # "idle" /\ req'[t] = req[t]
    BY <1>3 DEF ReadBefore, Probe, Goto, Shape, TypeOK, Pre
  <2>2. pc'[t] \notin Post
    BY <2>1 DEF Pre, Post
  <2> QED
    BY <1>1, <1>2, <2>1, <2>2, UnwrittenInv
<1>4. CASE Answered(t) \/ Confirm(t)
  <2>1. pc[t] \in Post /\ pc[t] # "idle"
    BY <1>4 DEF Answered, Confirm, Goto, Post
  <2>2. Op(t) \in {"create", "update", "upsert", "delete", "method"}
    BY <2>1, ServingAt DEF Op
  <2>3. pc'[t] \in Post
    BY <1>4, <2>2 DEF Answered, Confirm, Goto, Post, Shape, TypeOK
  <2>4. pc'[t] \notin Pre
    BY <2>3 DEF Pre, Post
  <2>5. UNCHANGED jobVars
    BY <1>4 DEF Answered, Confirm
  <2> QED
    BY <1>1, <1>2, <2>1, <2>3, <2>4, <2>5, UnwrittenInv DEF jobVars
<1> QED
  BY <1>3, <1>4

LEMMA EditInv ==
  ASSUME Shape, WriteInv, NEW i \in Ids, Edit(i)
  PROVE  WriteInv'
<1>1. Distinct' /\ Recorded' /\ Done' /\ Minted'
  BY DEF Edit, WriteInv, Distinct, Recorded, Spares, Done, Minted, Careful, Of, Creates, Op,
         shimVars, jobVars
<1>2. edits' # 0
  BY BoundsAssumption DEF Edit, Shape, TypeOK
<1>3. Placed'
  BY DEF Edit, WriteInv, Placed, Shape, TypeOK
<1> QED
  BY <1>1, <1>2, <1>3 DEF WriteInv, Latest

(* Odoo accepts t's write: it has its entry, and nobody else that one.     *)
LEMMA WriteWrites ==
  ASSUME Shape, WriteInv, NEW t \in Threads, Create(t) \/ Write(t) \/ Unlink(t)
  PROVE  WriteInv'
<1>1. PICK old \in [Fields -> Vals] \cup {Gone}, new \in [Fields -> Vals] \cup {Gone} :
        /\ Wrote(t, rid'[t], old, new)
        /\ rid'[t] \in Ids
        /\ records' = [records EXCEPT ![rid'[t]] = new]
        /\ \/ /\ Creates(t) /\ old = Gone
              /\ born' = born + 1 /\ rid'[t] = born + 1
           \/ /\ ~Creates(t) /\ old = records[rid[t]] /\ old # Gone
              /\ rid' = rid /\ born' = born
        /\ new # Gone /\ old # Gone =>
             \A f \in Fields \ DOMAIN prop[t].ask.data : new[f] = old[f]
  BY Writes
<1>2. /\ pc[t] = "send" /\ pc' = [pc EXCEPT ![t] = "applied"]
      /\ UNCHANGED <<edits, shimVars, req, key, prop, before, requests, results>>
      /\ \A u \in Threads \ {t} : rid'[u] = rid[u]
  BY Writes DEF Goto
<1>3. PICK i \in Ids : i = rid'[t]
  BY <1>1
<1>e. PICK e \in journal' :
        /\ e = [req |-> req[t], key |-> key[t], prop |-> prop[t], rid |-> i,
                old |-> old, new |-> new]
        /\ journal' = journal \cup {e}
  BY <1>1, <1>3 DEF Wrote
<1>4. journal' = journal \cup {e}
  BY <1>e
<1>5. /\ e.req = req[t] /\ e.key = key[t] /\ e.prop = prop[t] /\ e.rid = i
      /\ e.old = old /\ e.new = new
  BY <1>e
<1>6. /\ pc'[t] = "applied" /\ \A u \in Threads \ {t} : pc'[u] = pc[u]
  BY <1>2 DEF Shape, TypeOK
<1>7. \A w \in journal : w.req # req[t]
  BY <1>2 DEF WriteInv, Done, Pre
<1>8. born \in Nat /\ born' \in Nat /\ born <= born' /\ i \in 1 .. born'
  <2>1. born \in Nat
    BY NumbersApart DEF Shape, TypeOK
  <2>2. CASE born' = born + 1 /\ rid'[t] = born + 1
    BY <1>3, <2>1, <2>2
  <2>3. CASE old = records[rid[t]] /\ old # Gone /\ rid' = rid /\ born' = born
    BY <1>3, <2>1, <2>3, NumbersApart DEF WriteInv, Placed, Ids
  <2> QED
    BY <1>1, <2>2, <2>3, <2>1
<1>9. Distinct'
  BY <1>2, <1>6 DEF WriteInv, Distinct
<1>10. Recorded'
  <2>1. e.req \in 1 .. requests /\ e.prop \in proposals
    BY <1>2, <1>5, ServingAt
  <2>2. Spares(e)
    BY <1>1, <1>5 DEF Spares
  <2>3. \A w \in journal : /\ w.req \in 1 .. requests /\ w.prop \in proposals
                           /\ w.rid \in 1 .. born' /\ Spares(w)
    BY <1>8 DEF WriteInv, Recorded
  <2>4. \A w \in journal' : /\ w.req \in 1 .. requests /\ w.prop \in proposals
                            /\ w.rid \in 1 .. born' /\ Spares(w)
    BY <1>4, <1>5, <1>8, <2>1, <2>2, <2>3
  <2>5. \A v, w \in journal' : v.req = w.req => v = w
    BY <1>4, <1>5, <1>7 DEF WriteInv, Recorded
  <2> QED
    BY <1>2, <2>4, <2>5 DEF Recorded, Spares, shimVars
<1>11. Done'
  <2>1. ASSUME NEW u \in Threads, pc'[u] \in Pre
        PROVE  \A w \in journal' : w.req # req'[u]
    <3>1. u # t /\ pc[u] \in Pre /\ pc[u] # "idle" /\ pc[t] # "idle"
      BY <1>2, <1>6, <2>1 DEF Pre
    <3>2. req[u] # req[t]
      BY <3>1 DEF WriteInv, Distinct
    <3> QED
      BY <1>2, <1>4, <1>5, <3>1, <3>2 DEF WriteInv, Done
  <2>2. ASSUME NEW u \in Threads, pc'[u] \in Post
        PROVE  \E w \in journal' : Of(w, u)'
    <3>1. CASE u = t
      <4>1. Creates(t) <=> old = Gone
        BY <1>1
      <4>2. Of(e, t)'
        BY <1>2, <1>3, <1>5, <4>1 DEF Of, Creates, Op
      <4> QED
        BY <1>4, <3>1, <4>2
    <3>2. CASE u # t
      <4>1. PICK w \in journal : Of(w, u)
        BY <1>6, <2>2, <3>2 DEF WriteInv, Done
      <4>2. Of(w, u)'
        BY <1>2, <3>2, <4>1 DEF Of, Creates, Op
      <4> QED
        BY <1>4, <4>2
    <3> QED
      BY <3>1, <3>2
  <2> QED
    BY <2>1, <2>2 DEF Done
<1>12. Minted'
  BY <1>2, <1>4 DEF WriteInv, Minted, Careful, shimVars
<1>13. Placed'
  <2>1. ASSUME NEW j \in Ids, records'[j] # Gone
        PROVE  j <= born'
    <3>1. CASE j = i
      BY <1>8, <3>1
    <3>2. CASE j # i
      <4>1. records[j] # Gone
        BY <1>1, <1>3, <2>1, <3>2 DEF Shape, TypeOK
      <4>2. j \in Nat /\ j <= born
        BY <4>1, NumbersApart DEF WriteInv, Placed
      <4> QED
        BY <1>8, <4>2
    <3> QED
      BY <3>1, <3>2
  <2> QED
    BY <2>1 DEF Placed
<1>14. Latest'
  <2> SUFFICES ASSUME edits' = 0, NEW w \in journal', \A v \in journal' : v.rid = w.rid => v = w
               PROVE  records'[w.rid] = w.new
    BY DEF Latest, Only1
  <2>1. CASE w.rid = i
    <3>1. w = e /\ records'[i] = new
      BY <1>1, <1>3, <1>4, <1>5, <2>1 DEF Shape, TypeOK
    <3> QED
      BY <1>5, <2>1, <3>1
  <2>2. CASE w.rid # i
    <3>1. w \in journal /\ Only1(w) /\ edits = 0
      BY <1>2, <1>4, <1>5, <2>2 DEF Only1
    <3>2. records[w.rid] = w.new /\ w.rid \in 1 .. born
      BY <3>1 DEF WriteInv, Latest, Recorded
    <3>3. w.rid \in Ids
      BY <3>2, BoundsAssumption DEF Ids, Shape, TypeOK
    <3> QED
      BY <1>1, <1>3, <2>2, <3>2, <3>3 DEF Shape, TypeOK
  <2> QED
    BY <2>1, <2>2
<1> QED
  BY <1>9, <1>10, <1>11, <1>12, <1>13, <1>14 DEF WriteInv

-----------------------------------------------------------------------------
(* Results, and the bodies kept for replay.                                *)

(* A body is of a write for its key, and says of it what was seen.         *)
Honest(b, k) ==
  /\ \E w \in journal : w.req = b.by /\ w.key = k
  /\ \A w \in journal : w.req = b.by =>
       /\ w.prop.ask.op = "delete" /\ w.prop.ask.family = "curated" =>
            records[w.rid] = Gone
       /\ (/\ b.claim = "success" /\ w.prop.ask.op \in {"update", "upsert"}
           /\ edits = 0 /\ Only1(w))
          => Shows(Snapshot(w.new, DOMAIN w.prop.ask.data), w.prop.ask.data)

(* After the result of a write, unless an upsert's, nobody writes for its  *)
(* key who was not at it already.                                          *)
Final(a) ==
  (\E v \in journal : v.req = a.body.by /\ v.prop.ask.op # "upsert") =>
    /\ ledger[a.key] # NoBody
    /\ \A t \in Threads : pc[t] # "idle" /\ key[t] = a.key => req[t] <= a.at
    /\ \A w \in journal : w.key = a.key => w.req <= a.at

ToldInv ==
  /\ \A k \in Keys : ledger[k] # NoBody => Honest(ledger[k], k)
  /\ \A a \in results : Honest(a.body, a.key) /\ Final(a)

(* What every step leaves: who is gone stays gone, what is kept is kept,   *)
(* and a thread begins only with a key that has no body.                   *)
Steady ==
  /\ journal \subseteq journal'
  /\ edits' = 0 => edits = 0
  /\ \A i \in Ids : i <= born /\ records[i] = Gone => records'[i] = Gone
  /\ \A k \in Keys : ledger[k] # NoBody => ledger'[k] # NoBody
  /\ \A u \in Threads : pc'[u] # "idle" =>
       \/ pc[u] # "idle" /\ key'[u] = key[u] /\ req'[u] = req[u]
       \/ ledger[key'[u]] = NoBody
  /\ \A w \in journal' \ journal :
       \E u \in Threads : pc[u] # "idle" /\ w.key = key[u] /\ w.req = req[u]

LEMMA HonestStays ==
  ASSUME Shape, WriteInv, Recorded', Steady,
         NEW b \in Body, NEW k \in Keys, Honest(b, k)
  PROVE  Honest(b, k)'
<1>1. PICK w \in journal : w.req = b.by /\ w.key = k
  BY DEF Honest
<1>2. w \in journal' /\ \A v \in journal' : v.req = b.by => v = w
  BY <1>1 DEF Steady, Recorded
<1>3. w.rid \in Ids /\ w.rid <= born
  BY BoundsAssumption DEF WriteInv, Recorded, Shape, TypeOK, Ids
<1>4. w.prop.ask.op = "delete" /\ w.prop.ask.family = "curated" => records'[w.rid] = Gone
  BY <1>1, <1>3 DEF Honest, Steady
<1>5. Only1(w)' => Only1(w)
  BY DEF Only1, Steady
<1>6. ASSUME b.claim = "success", w.prop.ask.op \in {"update", "upsert"},
             edits' = 0, Only1(w)'
      PROVE  Shows(Snapshot(w.new, DOMAIN w.prop.ask.data), w.prop.ask.data)
  BY <1>1, <1>5, <1>6 DEF Honest, Steady
<1> QED
  BY <1>1, <1>2, <1>4, <1>6 DEF Honest, Shows, Snapshot

LEMMA FinalStays ==
  ASSUME Shape, WriteInv, Recorded', Steady, NEW a \in results,
         Honest(a.body, a.key), Final(a)
  PROVE  Final(a)'
<1>1. a.key \in Keys
  BY DEF Shape, TypeOK, Result
<1>2. PICK w \in journal : w.req = a.body.by
  BY DEF Honest
<1>3. ASSUME \E v \in journal' : v.req = a.body.by /\ v.prop.ask.op # "upsert"
      PROVE  /\ ledger[a.key] # NoBody
             /\ \A t \in Threads : pc[t] # "idle" /\ key[t] = a.key => req[t] <= a.at
             /\ \A v \in journal : v.key = a.key => v.req <= a.at
  <2>1. PICK v \in journal' : v.req = a.body.by /\ v.prop.ask.op # "upsert"
    BY <1>3
  <2>2. v = w
    BY <1>2, <2>1 DEF Steady, Recorded
  <2> QED
    BY <1>2, <2>1, <2>2 DEF Final
<1>4. ASSUME \E v \in journal' : v.req = a.body.by /\ v.prop.ask.op # "upsert"
      PROVE  /\ ledger'[a.key] # NoBody
             /\ \A t \in Threads : pc'[t] # "idle" /\ key'[t] = a.key => req'[t] <= a.at
             /\ \A v \in journal' : v.key = a.key => v.req <= a.at
  <2>1. ledger'[a.key] # NoBody
    BY <1>1, <1>3, <1>4 DEF Steady
  <2>2. ASSUME NEW t \in Threads, pc'[t] # "idle", key'[t] = a.key
        PROVE  req'[t] <= a.at
    BY <1>3, <1>4, <2>2 DEF Steady
  <2>3. ASSUME NEW v \in journal', v.key = a.key
        PROVE  v.req <= a.at
    BY <1>3, <1>4, <2>3 DEF Steady
  <2> QED
    BY <2>1, <2>2, <2>3
<1> QED
  BY <1>4 DEF Final

(* A step that tells nothing new.                                          *)
LEMMA ToldStays ==
  ASSUME Shape, WriteInv, ToldInv, Recorded', Steady
  PROVE  /\ \A a \in results : Honest(a.body, a.key)' /\ Final(a)'
         /\ \A k \in Keys : ledger[k] # NoBody /\ ledger'[k] = ledger[k] =>
                               Honest(ledger[k], k)'
         /\ ledger' = ledger /\ results' = results => ToldInv'
<1>1. ASSUME NEW a \in results
      PROVE  Honest(a.body, a.key)' /\ Final(a)'
  <2>1. a.body \in Body /\ a.key \in Keys
    BY DEF Shape, TypeOK, Result
  <2>2. PICK b \in Body, k \in Keys : b = a.body /\ k = a.key
    BY <2>1
  <2>3. Honest(b, k)'
    BY <2>2, HonestStays DEF ToldInv
  <2> QED
    BY <2>2, <2>3, FinalStays DEF ToldInv
<1>2. ASSUME NEW k \in Keys, ledger[k] # NoBody
      PROVE  \E b \in Body : b = ledger[k] /\ Honest(b, k)'
  <2>1. PICK b \in Body : b = ledger[k]
    BY <1>2 DEF Shape, TypeOK
  <2> QED
    BY <1>2, <2>1, HonestStays DEF ToldInv
<1> QED
  BY <1>1, <1>2 DEF ToldInv

(* Nothing was written, and t was at work already or is idle now.          *)
LEMMA SteadyThread ==
  ASSUME Shape, NEW t \in Threads, UNCHANGED <<odooVars, journal>>,
         \A k \in Keys : ledger[k] # NoBody => ledger'[k] # NoBody,
         \A u \in Threads \ {t} : pc'[u] = pc[u] /\ key'[u] = key[u] /\ req'[u] = req[u],
         pc'[t] # "idle" => pc[t] # "idle" /\ key'[t] = key[t] /\ req'[t] = req[t]
  PROVE  Steady
BY DEF Steady, odooVars

LEMMA ClearSteady ==
  ASSUME Shape, NEW t \in Threads, Clear(t), UNCHANGED <<odooVars, journal>>,
         \A k \in Keys : ledger[k] # NoBody => ledger'[k] # NoBody
  PROVE  Steady
<1>1. /\ pc'[t] = "idle"
      /\ \A u \in Threads \ {t} : pc'[u] = pc[u] /\ key'[u] = key[u] /\ req'[u] = req[u]
  BY DEF Clear, Shape, TypeOK
<1> QED
  BY <1>1, SteadyThread

LEMMA ReadSteady ==
  ASSUME Shape, NEW t \in Threads,
         ReadBefore(t) \/ Probe(t) \/ Answered(t) \/ Confirm(t)
  PROVE  Steady
<1>1. pc[t] # "idle" /\ UNCHANGED <<odooVars, journal, ledger, key, req>>
  BY DEF ReadBefore, Probe, Answered, Confirm, Goto, shimVars, jobVars
<1>2. \A u \in Threads \ {t} : pc'[u] = pc[u]
  BY DEF ReadBefore, Probe, Answered, Confirm, Goto, Shape, TypeOK
<1> QED
  BY <1>1, <1>2, SteadyThread

LEMMA AsideSteady ==
  ASSUME UNCHANGED <<odooVars, ledger, pc, jobVars, journal>>
  PROVE  Steady
BY DEF Steady, odooVars, jobVars

LEMMA CommitSteady ==
  ASSUME Shape, NEW t \in Threads, NEW k \in Keys, NEW p \in proposals, Commit(t, k, p)
  PROVE  Steady
<1>1. /\ key'[t] = k /\ ledger[k] = NoBody
      /\ \A u \in Threads \ {t} : pc'[u] = pc[u] /\ key'[u] = key[u] /\ req'[u] = req[u]
      /\ UNCHANGED <<odooVars, shimVars, journal>>
  BY DEF Commit, Goto, Shape, TypeOK
<1> QED
  BY <1>1 DEF Steady, odooVars, shimVars

LEMMA EditSteady ==
  ASSUME Shape, NEW i \in Ids, Edit(i)
  PROVE  Steady
<1>1. edits' # 0
  BY BoundsAssumption DEF Edit, Shape, TypeOK
<1>2. \A j \in Ids : records[j] = Gone => records'[j] = Gone
  BY DEF Edit, Shape, TypeOK
<1> QED
  BY <1>1, <1>2 DEF Edit, Steady, shimVars, jobVars

LEMMA WriteSteady ==
  ASSUME Shape, NEW t \in Threads, Create(t) \/ Write(t) \/ Unlink(t)
  PROVE  Steady
<1>1. PICK old \in [Fields -> Vals] \cup {Gone}, new \in [Fields -> Vals] \cup {Gone} :
        /\ Wrote(t, rid'[t], old, new)
        /\ rid'[t] \in Ids
        /\ records' = [records EXCEPT ![rid'[t]] = new]
        /\ \/ rid'[t] = born + 1
           \/ old = records[rid[t]] /\ old # Gone /\ rid' = rid
  BY Writes
<1>2. /\ pc[t] = "send" /\ pc' = [pc EXCEPT ![t] = "applied"]
      /\ UNCHANGED <<edits, shimVars, req, key, prop, before, requests, results>>
  BY Writes DEF Goto
<1>3. PICK i \in Ids : i = rid'[t]
  BY <1>1
<1>4. PICK e \in journal' : /\ e.req = req[t] /\ e.key = key[t]
                            /\ journal' = journal \cup {e}
  BY <1>1 DEF Wrote
<1>5. ASSUME NEW j \in Ids, j <= born, records[j] = Gone
      PROVE  records'[j] = Gone
  <2>1. CASE rid'[t] = born + 1
    <3>1. j # i
      BY <1>3, <1>5, <2>1, NumbersApart DEF Shape, TypeOK
    <3> QED
      BY <1>1, <1>3, <1>5, <3>1 DEF Shape, TypeOK
  <2>2. CASE old = records[rid[t]] /\ old # Gone /\ rid' = rid
    <3>1. j # i
      BY <1>3, <1>5, <2>2
    <3> QED
      BY <1>1, <1>3, <1>5, <3>1 DEF Shape, TypeOK
  <2> QED
    BY <1>1, <2>1, <2>2
<1>6. \A u \in Threads : pc'[u] # "idle" => pc[u] # "idle"
  BY <1>2 DEF Shape, TypeOK
<1> QED
  BY <1>2, <1>4, <1>5, <1>6 DEF Steady, shimVars

LEMMA ReplayTold ==
  ASSUME Shape, WriteInv, ToldInv, NEW t \in Threads, NEW k \in Keys, Replay(t, k)
  PROVE  ToldInv'
<1>1. /\ UNCHANGED <<odooVars, ledger, pc, jobVars, journal>>
      /\ ledger[k] # NoBody /\ requests' = requests + 1
      /\ results' = results \cup {[key |-> k, body |-> ledger[k], at |-> requests + 1]}
  BY DEF Replay, shimVars
<1>2. requests \in Nat /\ requests < MaxRequests /\ ledger[k] \in Body
  BY <1>1, BoundsAssumption DEF Replay, Shape, TypeOK
<1>3. Steady
  BY <1>1, AsideSteady
<1>4. Recorded' /\ ledger' = ledger
  BY <1>1, <1>2, AsideInv DEF WriteInv, Replay, shimVars
<1>5. PICK b \in Body : b = ledger[k]
  BY <1>2
<1>6. Honest(b, k)'
  BY <1>1, <1>3, <1>4, <1>5, HonestStays DEF ToldInv
<1>7. PICK a \in results' : a = [key |-> k, body |-> b, at |-> requests + 1]
                            /\ results' = results \cup {a}
  BY <1>1, <1>5
<1>8. a.key = k /\ a.body = b /\ a.at = requests + 1
  BY <1>7
<1>9. Final(a)'
  <2>1. ASSUME NEW u \in Threads, pc[u] # "idle"
        PROVE  req[u] <= requests + 1
    <3>1. req[u] \in 1 .. requests
      BY <2>1 DEF Shape, Serving
    <3> QED
      BY <1>2, <3>1
  <2>2. ASSUME NEW w \in journal
        PROVE  w.req <= requests + 1
    <3>1. w.req \in 1 .. requests
      BY DEF WriteInv, Recorded
    <3> QED
      BY <1>2, <3>1
  <2> QED
    BY <1>1, <1>8, <2>1, <2>2 DEF Final, jobVars
<1>10. \A c \in results : Honest(c.body, c.key)' /\ Final(c)'
  BY <1>3, <1>4, ToldStays
<1>11. \A q \in Keys : ledger'[q] # NoBody => Honest(ledger[q], q)'
  BY <1>3, <1>4, ToldStays
<1> QED
  BY <1>6, <1>7, <1>8, <1>9, <1>10, <1>11 DEF ToldInv

LEMMA ConcludeTold ==
  ASSUME Shape, WriteInv, ToldInv, NEW t \in Threads, Conclude(t), Recorded'
  PROVE  ToldInv'
<1>1. pc[t] \in Post /\ pc[t] # "idle"
  BY DEF Conclude, Post
<1>2. PICK w \in journal : Of(w, t)
  BY <1>1, EntryOf
<1>3. PICK body \in Body :
        /\ body.by = req[t] /\ Store(t, body)
        /\ body.claim = "success" => pc[t] = "record" \/ Landed(t)
  BY <1>1, EntryOf, ConcludeShape
<1>4. PICK k \in Keys : k = key[t]
  BY <1>1, ServingAt
<1>5. /\ ledger' = [ledger EXCEPT ![IF Op(t) = "upsert" THEN Dedup ELSE k] = body]
      /\ Clear(t) /\ UNCHANGED <<odooVars, proposals, requests, journal>>
      /\ \/ results' = results \cup {[key |-> k, body |-> body, at |-> requests]}
         \/ results' = results
  BY <1>3, <1>4 DEF Store
<1>6. body # NoBody /\ Dedup # k
  <2>1. body.by # NoBody.by
    BY <1>1, <1>3, ServingAt, NumbersApart DEF NoBody
  <2> QED
    BY <2>1, ValuesAssumption
<1>7. \A q \in Keys : ledger'[q] = ledger[q]
                      \/ (q = k /\ Op(t) # "upsert" /\ ledger'[q] = body)
  BY <1>5, ValuesAssumption DEF Shape, TypeOK
<1>8. Steady
  BY <1>5, <1>6, <1>7, ClearSteady
<1>9. \A v \in journal : v.req = req[t] => v = w
  BY <1>2 DEF WriteInv, Recorded, Of
<1>10. w.req = req[t] /\ w.key = k /\ w.prop = prop[t] /\ w.rid = rid[t]
  BY <1>2, <1>4 DEF Of
<1>11. Honest(body, k)
  <2>1. ASSUME w.prop.ask.op = "delete", w.prop.ask.family = "curated"
        PROVE  records[w.rid] = Gone
    BY <1>10, <2>1 DEF Conclude, Landed, Op, Family
  <2>2. ASSUME body.claim = "success", w.prop.ask.op \in {"update", "upsert"},
               edits = 0, Only1(w)
        PROVE  Shows(Snapshot(w.new, DOMAIN w.prop.ask.data), w.prop.ask.data)
    <3>1. pc[t] # "record"
      BY <1>10, <2>2 DEF Shape, Serving, Op
    <3>2. Landed(t) /\ Op(t) # "delete"
      BY <1>3, <1>10, <2>2, <3>1 DEF Op
    <3>3. records[w.rid] = w.new
      BY <2>2 DEF WriteInv, Latest
    <3> QED
      BY <1>10, <3>2, <3>3 DEF Landed
  <2> QED
    BY <1>3, <1>9, <1>10, <2>1, <2>2 DEF Honest
<1>12. Honest(body, k)'
  BY <1>8, <1>11, HonestStays
<1>13. \A c \in results : Honest(c.body, c.key)' /\ Final(c)'
  BY <1>8, ToldStays
<1>14. \A q \in Keys : ledger'[q] # NoBody => Honest(ledger[q], q)'
  <2>1. ASSUME NEW q \in Keys, ledger'[q] # NoBody
        PROVE  Honest(ledger[q], q)'
    <3>1. CASE ledger'[q] = ledger[q]
      BY <1>8, <2>1, <3>1, ToldStays
    <3>2. CASE q = k /\ ledger'[q] = body
      BY <1>12, <3>2
    <3> QED
      BY <1>7, <3>1, <3>2
  <2> QED
    BY <2>1
<1>15. ASSUME results' # results
       PROVE  \E a \in results' : /\ results' = results \cup {a}
                                  /\ Honest(a.body, a.key)' /\ Final(a)'
  <2>1. PICK a \in results' : /\ a = [key |-> k, body |-> body, at |-> requests]
                              /\ results' = results \cup {a}
    BY <1>5, <1>15
  <2>2. a.key = k /\ a.body = body /\ a.at = requests
    BY <2>1
  <2>3. \A u \in Threads : pc'[u] # "idle" => req'[u] <= requests
    <3>1. ASSUME NEW u \in Threads, pc'[u] # "idle"
          PROVE  req'[u] <= requests
      <4>1. pc[u] # "idle" /\ req'[u] = req[u]
        BY <1>5, <3>1 DEF Clear, Shape, TypeOK
      <4>2. req[u] \in 1 .. requests /\ requests \in Nat
        BY <4>1, BoundsAssumption DEF Shape, Serving, TypeOK
      <4> QED
        BY <4>1, <4>2
    <3> QED
      BY <3>1
  <2>4. \A v \in journal : v.req <= requests
    <3>1. ASSUME NEW v \in journal
          PROVE  v.req <= requests
      <4>1. v.req \in 1 .. requests /\ requests \in Nat
        BY BoundsAssumption DEF WriteInv, Recorded, Shape, TypeOK
      <4> QED
        BY <4>1
    <3> QED
      BY <3>1
  <2>5. (\E v \in journal : v.req = body.by /\ v.prop.ask.op # "upsert")
        => ledger'[k] # NoBody
    <3>1. ASSUME NEW v \in journal, v.req = body.by, v.prop.ask.op # "upsert"
          PROVE  ledger'[k] # NoBody
      <4>1. Op(t) # "upsert"
        BY <1>3, <1>9, <1>10, <3>1 DEF Op
      <4> QED
        BY <1>5, <1>6, <4>1 DEF Shape, TypeOK
    <3> QED
      BY <3>1
  <2>6. Final(a)'
    BY <1>5, <2>2, <2>3, <2>4, <2>5 DEF Final
  <2> QED
    BY <1>12, <2>1, <2>2, <2>6
<1> QED
  BY <1>13, <1>14, <1>15 DEF ToldInv

-----------------------------------------------------------------------------
Inv == Shape /\ WriteInv /\ ToldInv

LEMMA InitInv == Init => Inv
<1> SUFFICES ASSUME Init PROVE Inv
  OBVIOUS
<1>1. ToldInv
  BY DEF Init, ToldInv
<1> QED
  BY <1>1, InitShape, InitWrites DEF Inv

LEMMA QuietlyTold ==
  ASSUME Inv, Shape', WriteInv', Steady, ledger' = ledger, results' = results
  PROVE  Inv'
<1>1. Recorded'
  BY DEF WriteInv
<1> QED
  BY <1>1, ToldStays DEF Inv

LEMMA ServeInv ==
  ASSUME Inv, NEW t \in Threads, Serve(t)
  PROVE  Inv'
<1> USE DEF Inv
<1>1. ASSUME Refuse(t), UNCHANGED <<odooVars, shimVars, journal>>
      PROVE  Inv'
  <2>1. Shape' /\ WriteInv'
    BY <1>1, RefuseShape, RefuseInv
  <2>2. Steady
    BY <1>1, ClearSteady DEF Refuse, shimVars
  <2> QED
    BY <1>1, <2>1, <2>2, QuietlyTold DEF Refuse, shimVars
<1>2. CASE Drifted(t) \/ ReadFails(t) \/ Reject(t) \/ AnswerLost(t) \/ ConfirmFails(t)
           \/ NotLanded(t)
  BY <1>1, <1>2 DEF Drifted, ReadFails, Reject, AnswerLost, ConfirmFails, NotLanded
<1>3. CASE ReadBefore(t) \/ Probe(t)
  <2>1. Shape' /\ WriteInv' /\ Steady
    BY <1>3, ReadBeforeShape, ProbeShape, ReadInv, ReadSteady
  <2>2. ledger' = ledger /\ results' = results
    BY <1>3 DEF ReadBefore, Probe, shimVars
  <2> QED
    BY <2>1, <2>2, QuietlyTold
<1>4. CASE Answered(t) \/ Confirm(t)
  <2>1. pc[t] \in Post
    BY <1>4 DEF Answered, Confirm, Goto, Post
  <2>2. Shape' /\ WriteInv' /\ Steady
    BY <1>4, <2>1, EntryOf, AnsweredShape, ReadInv, ReadSteady
  <2>3. ledger' = ledger /\ results' = results
    BY <1>4 DEF Answered, Confirm, shimVars
  <2> QED
    BY <2>2, <2>3, QuietlyTold
<1>5. CASE Create(t) \/ Write(t) \/ Unlink(t)
  <2>1. Shape' /\ WriteInv' /\ Steady
    BY <1>5, WriteShape, WriteWrites, WriteSteady
  <2>2. ledger' = ledger /\ results' = results
    BY <1>5 DEF Create, Write, Unlink, shimVars
  <2> QED
    BY <2>1, <2>2, QuietlyTold
<1>6. CASE VerifyFails(t)
  <2>1. pc[t] \in Post
    BY <1>6 DEF VerifyFails, Post
  <2>2. Clear(t) /\ UNCHANGED <<odooVars, proposals, requests, results, ledger, journal>>
    BY <1>6 DEF VerifyFails, Refuse
  <2>3. Minted'
    <3>1. CASE Mint(t)
      BY <2>1, <2>2, <3>1, MintInv
    <3>2. CASE UNCHANGED tokens
      BY <2>2, <3>2 DEF WriteInv, Minted, Careful
    <3> QED
      BY <1>6, <3>1, <3>2 DEF VerifyFails
  <2>4. Shape' /\ WriteInv' /\ Steady
    BY <1>6, <2>1, <2>2, <2>3, EntryOf, VerifyFailsShape, ClearInv, ClearSteady
  <2> QED
    BY <2>2, <2>4, QuietlyTold
<1>7. CASE Conclude(t)
  <2>1. pc[t] \in Post
    BY <1>7 DEF Conclude, Post
  <2>2. Shape' /\ \E body \in Body : Store(t, body)
    BY <1>7, <2>1, EntryOf, ConcludeShape
  <2>3. Clear(t) /\ Mint(t) /\ UNCHANGED <<odooVars, proposals, requests, journal>>
    BY <2>2 DEF Store
  <2>4. WriteInv'
    BY <2>1, <2>3, MintInv, ClearInv
  <2>5. ToldInv'
    BY <1>7, <2>4, ConcludeTold DEF WriteInv
  <2> QED
    BY <2>2, <2>4, <2>5
<1> QED
  BY <1>2, <1>3, <1>4, <1>5, <1>6, <1>7 DEF Serve

LEMMA NextInv == Inv /\ [Next]_vars => Inv'
<1> SUFFICES ASSUME Inv, [Next]_vars PROVE Inv'
  OBVIOUS
<1> USE DEF Inv
<1>1. ASSUME NEW a \in Asks, Propose(a)
      PROVE  Inv'
  <2>1. Shape' /\ UNCHANGED <<odooVars, ledger, tokens, pc, jobVars, journal, results>>
    BY <1>1, ProposeShape DEF Propose
  <2>2. WriteInv' /\ Steady
    BY <1>1, <2>1, AsideInv, AsideSteady DEF Propose
  <2> QED
    BY <2>1, <2>2, QuietlyTold
<1>2. ASSUME NEW c \in Known, Rollback(c)
      PROVE  Inv'
  <2>1. Shape' /\ UNCHANGED <<odooVars, ledger, tokens, pc, jobVars, journal, results>>
    BY <1>2, RollbackShape DEF Rollback, Known, WriteInv
  <2>2. WriteInv' /\ Steady
    BY <1>2, <2>1, AsideInv, AsideSteady DEF Rollback
  <2> QED
    BY <2>1, <2>2, QuietlyTold
<1>3. ASSUME NEW t \in Threads, NEW k \in Keys, Replay(t, k)
      PROVE  Inv'
  <2>1. Shape' /\ ToldInv'
    BY <1>3, ReplayShape, ReplayTold
  <2>2. WriteInv'
    BY <1>3, AsideInv DEF Replay, shimVars
  <2> QED
    BY <2>1, <2>2
<1>4. ASSUME NEW t \in Threads, NEW k \in Keys, NEW p \in proposals, Commit(t, k, p)
      PROVE  Inv'
  <2>1. Shape' /\ WriteInv' /\ Steady
    BY <1>4, CommitShape, CommitInv, CommitSteady
  <2>2. ledger' = ledger /\ results' = results
    BY <1>4 DEF Commit, shimVars
  <2> QED
    BY <2>1, <2>2, QuietlyTold
<1>5. ASSUME NEW i \in Ids, Edit(i)
      PROVE  Inv'
  <2>1. Shape' /\ WriteInv' /\ Steady
    BY <1>5, EditShape, EditInv, EditSteady
  <2>2. ledger' = ledger /\ results' = results
    BY <1>5 DEF Edit, shimVars
  <2> QED
    BY <2>1, <2>2, QuietlyTold
<1>6. CASE UNCHANGED vars
  <2>1. Shape'
    BY <1>6 DEF vars, odooVars, shimVars, jobVars, Shape, TypeOK, Proposed, Serving,
                Creates, Op
  <2>2. WriteInv'
    BY <1>6 DEF vars, odooVars, shimVars, jobVars, WriteInv, Distinct, Recorded, Spares,
                Done, Of, Creates, Op, Minted, Careful, Placed, Latest, Only1
  <2>3. Steady
    BY <1>6, AsideSteady DEF vars, shimVars
  <2> QED
    BY <1>6, <2>1, <2>2, <2>3, QuietlyTold DEF vars, shimVars
<1> QED
  BY <1>1, <1>2, <1>3, <1>4, <1>5, <1>6, ServeInv DEF Next

LEMMA Invariance == Spec => []Inv
BY InitInv, NextInv, PTL DEF Spec

(* Every variable keeps its type, whatever is asked and in every           *)
(* environment.                                                            *)
THEOREM TypeCorrect == Spec => []TypeOK
<1>1. Inv => TypeOK
  BY DEF Inv, Shape
<1> QED
  BY <1>1, Invariance, PTL

(* An executed result, told or replayed, is of a write that Odoo accepted  *)
(* for its key.                                                            *)
THEOREM ResultsAccepted == Spec => []ExecutedWasAccepted
<1>1. Inv => ExecutedWasAccepted
  BY DEF Inv, ToldInv, Honest, ExecutedWasAccepted
<1> QED
  BY <1>1, Invariance, PTL

(* A success that is claimed of an update was seen in the read-back: the   *)
(* values asked for are there until somebody writes again.                 *)
THEOREM SuccessEarned == Spec => []SuccessIsEarned
<1>1. Inv => SuccessIsEarned
  <2> SUFFICES ASSUME Inv, NEW a \in results, NEW w \in journal,
                      a.body.by = w.req, a.body.claim = "success",
                      w.prop.ask.op \in {"update", "upsert"},
                      edits = 0, \A v \in journal : v.rid = w.rid => v = w
               PROVE  Shows(Snapshot(records[w.rid], DOMAIN w.prop.ask.data),
                            w.prop.ask.data)
    BY DEF SuccessIsEarned
  <2>1. Only1(w)
    BY DEF Only1
  <2>2. records[w.rid] = w.new
    BY <2>1 DEF Inv, WriteInv, Latest
  <2>3. Honest(a.body, a.key)
    BY DEF Inv, ToldInv
  <2> QED
    BY <2>1, <2>2, <2>3 DEF Honest
<1> QED
  BY <1>1, Invariance, PTL

(* Once the result of a write was told for a key, no COMMIT received later *)
(* writes under that key, unless the write was an upsert's.                *)
THEOREM ReplaysWriteNothing == Spec => []ReplayWritesNothing
<1>1. Inv => ReplayWritesNothing
  <2> SUFFICES ASSUME Inv, NEW a \in results, NEW v \in journal, NEW w \in journal,
                      v.req = a.body.by,
                      v.prop.ask.op \in {"create", "update", "delete", "method"},
                      w.key = a.key
               PROVE  w.req <= a.at
    BY DEF ReplayWritesNothing, Replayed
  <2>1. Final(a)
    BY DEF Inv, ToldInv
  <2> QED
    BY <2>1 DEF Final
<1> QED
  BY <1>1, Invariance, PTL

(* Undoing what a curated verb changed touches no field that it did not    *)
(* patch.                                                                  *)
THEOREM UndoSpares == Spec => []UndoSparesOthers
<1>1. Inv => UndoSparesOthers
  <2> SUFFICES ASSUME Inv, NEW w \in journal, NEW v \in journal,
                      w.prop.undoes = v.req, v.prop.ask.family = "curated",
                      v.old # Gone, w.old # Gone, w.new # Gone,
                      NEW f \in Fields \ DOMAIN v.prop.ask.data
               PROVE  w.new[f] = w.old[f]
    BY DEF UndoSparesOthers
  <2>1. v.req # NoRequest
    BY NumbersApart DEF Inv, WriteInv, Recorded
  <2>2. PICK c \in tokens : c.undoes = v.req /\ c.ask = w.prop.ask
    BY <2>1 DEF Inv, Shape, Proposed, WriteInv, Recorded
  <2>3. Careful(c, v)
    BY <2>2 DEF Inv, WriteInv, Minted, Recorded
  <2>4. DOMAIN w.prop.ask.data \subseteq DOMAIN v.prop.ask.data
    BY <2>2, <2>3 DEF Careful
  <2>5. Spares(w)
    BY DEF Inv, WriteInv, Recorded
  <2> QED
    BY <2>4, <2>5 DEF Spares
<1> QED
  BY <1>1, Invariance, PTL

(* When the undoing of a create is told to be executed, the record is gone *)
(* and stays so.                                                           *)
THEOREM ReversalsHappened == Spec => []CuratedReversalHappened
<1>1. Inv => CuratedReversalHappened
  BY DEF Inv, ToldInv, Honest, CuratedReversalHappened
<1> QED
  BY <1>1, Invariance, PTL

-----------------------------------------------------------------------------
(* What holds in quiet: nobody writes between a commit's last read and its *)
(* own write.                                                              *)
AsRead ==
  \A t \in Threads : Poised(t) =>
    /\ before[t] # Gone => records[rid[t]] = before[t]
    /\ Op(t) = "upsert" /\ before[t] = Gone =>
         \A i \in Ids : records[i] # Gone =>
                          records[i][Dedup] # prop[t].ask.data[Dedup]

(* The before-image is what the write found.                               *)
Image ==
  \A t \in Threads : pc[t] \in Post /\ ~Creates(t) /\ before[t] # Gone =>
    \A w \in journal : w.req = req[t] => w.old = before[t]

Calm == AsRead /\ Image /\ NoStaleWrite /\ TokensTrue

LEMMA EmptySnapshot ==
  ASSUME NEW r
  PROVE  Snapshot(r, DOMAIN NoData) = NoData
BY DEF Snapshot, NoData

LEMMA SnapshotOfPart ==
  ASSUME NEW r, r # Gone, NEW S
  PROVE  Snapshot(r, DOMAIN Only(r, S)) = Only(r, S)
BY DEF Snapshot, Only

(* Nothing was written, and t is not about to write or has just read.      *)
LEMMA UnwrittenCalm ==
  ASSUME Inv, Calm, NEW t \in Threads, UNCHANGED <<records, journal>>,
         \A u \in Threads \ {t} :
           /\ pc'[u] = pc[u] /\ req'[u] = req[u] /\ key'[u] = key[u]
           /\ prop'[u] = prop[u] /\ rid'[u] = rid[u] /\ before'[u] = before[u],
         pc'[t] \in Post => /\ pc[t] \in Post /\ req'[t] = req[t]
                            /\ prop'[t] = prop[t] /\ before'[t] = before[t],
         Poised(t)' =>
           /\ before'[t] # Gone => records[rid'[t]] = before'[t]
           /\ prop'[t].ask.op = "upsert" /\ before'[t] = Gone =>
                \A i \in Ids : records[i] # Gone =>
                                 records[i][Dedup] # prop'[t].ask.data[Dedup],
         TokensTrue'
  PROVE  Calm'
<1>1. AsRead'
  BY DEF Calm, AsRead, Poised, Op
<1>2. Image'
  BY DEF Calm, Image, Creates, Op
<1>3. NoStaleWrite'
  BY DEF Calm, NoStaleWrite
<1> QED
  BY <1>1, <1>2, <1>3 DEF Calm

LEMMA TokensStay ==
  ASSUME TokensTrue, tokens' = tokens, journal \subseteq journal'
  PROVE  TokensTrue'
<1>1. ASSUME NEW c \in tokens
      PROVE  \E w \in journal' :
               /\ w.req = c.undoes
               /\ CASE c.ask.op = "delete" -> w.old = Gone /\ c.ask.rid = w.rid
                    [] c.ask.op = "create" -> w.old = c.ask.data
                    [] c.ask.op = "update" ->
                         /\ c.ask.rid = w.rid
                         /\ Snapshot(w.old, DOMAIN c.ask.data) = c.ask.data
                         /\ DOMAIN w.prop.ask.data \subseteq DOMAIN c.ask.data
                    [] c.ask.op = "method" -> c.ask.rid = w.rid
  BY DEF TokensTrue
<1> QED
  BY <1>1 DEF TokensTrue, Snapshot

LEMMA ClearCalm ==
  ASSUME Inv, Calm, NEW t \in Threads, Clear(t), UNCHANGED <<records, journal>>, TokensTrue'
  PROVE  Calm'
<1>1. /\ pc'[t] = "idle"
      /\ \A u \in Threads \ {t} :
           /\ pc'[u] = pc[u] /\ req'[u] = req[u] /\ key'[u] = key[u]
           /\ prop'[u] = prop[u] /\ rid'[u] = rid[u] /\ before'[u] = before[u]
  BY DEF Clear, Inv, Shape, TypeOK
<1>2. pc'[t] \notin Post /\ ~Poised(t)'
  BY <1>1 DEF Post, Poised
<1> QED
  BY <1>1, <1>2, UnwrittenCalm

(* A token restores what the write it undoes has found.                    *)
LEMMA MintCalm ==
  ASSUME Inv, Calm, NEW t \in Threads, pc[t] \in Post, Mint(t), journal' = journal
  PROVE  TokensTrue'
<1>1. PICK w \in journal : Of(w, t)
  BY EntryOf DEF Inv
<1>2. /\ w.req = req[t] /\ w.prop = prop[t] /\ w.rid = rid[t]
      /\ Creates(t) => w.old = Gone
  BY <1>1 DEF Of
<1>3. ASSUME NEW a \in Reversals(t)
      PROVE  CASE a.op = "delete" -> w.old = Gone /\ a.rid = w.rid
               [] a.op = "create" -> w.old = a.data
               [] a.op = "update" ->
                    /\ a.rid = w.rid
                    /\ Snapshot(w.old, DOMAIN a.data) = a.data
                    /\ DOMAIN w.prop.ask.data \subseteq DOMAIN a.data
               [] a.op = "method" -> a.rid = w.rid
  <2>1. /\ a.op \in {"delete", "create", "update", "method"}
        /\ a.rid = rid[t] \/ a.op = "create"
        /\ a.op = "delete" => Creates(t)
        /\ a.op = "create" => ~Creates(t) /\ before[t] # Gone /\ a.data = before[t]
    BY EntryOf, ReversalsAre DEF Inv
  <2>2. ~Creates(t) /\ before[t] # Gone => w.old = before[t]
    BY <1>2 DEF Calm, Image
  <2>3. ASSUME a.op = "update"
        PROVE  /\ Snapshot(w.old, DOMAIN a.data) = a.data
               /\ DOMAIN w.prop.ask.data \subseteq DOMAIN a.data
    <3>1. PICK S \in SUBSET Fields : a.data = Only(before[t], S)
                                     /\ DOMAIN prop[t].ask.data \subseteq S
      BY <2>3, EntryOf, ReversalsAre DEF Inv
    <3>2. ~Creates(t) /\ before[t] # Gone
      BY <2>3, EntryOf, ReversalsAre DEF Inv
    <3>3. DOMAIN a.data = S
      BY <3>1 DEF Only
    <3> QED
      BY <1>2, <2>2, <3>1, <3>2, <3>3, SnapshotOfPart
  <2> QED
    BY <1>2, <2>1, <2>2, <2>3
<1>4. ASSUME NEW c \in tokens'
      PROVE  \E v \in journal :
               /\ v.req = c.undoes
               /\ CASE c.ask.op = "delete" -> v.old = Gone /\ c.ask.rid = v.rid
                    [] c.ask.op = "create" -> v.old = c.ask.data
                    [] c.ask.op = "update" ->
                         /\ c.ask.rid = v.rid
                         /\ Snapshot(v.old, DOMAIN c.ask.data) = c.ask.data
                         /\ DOMAIN v.prop.ask.data \subseteq DOMAIN c.ask.data
                    [] c.ask.op = "method" -> c.ask.rid = v.rid
  <2>1. CASE c \in tokens
    BY <2>1 DEF Calm, TokensTrue
  <2>2. CASE c \notin tokens
    <3>1. PICK a \in Reversals(t) : c = [undoes |-> req[t], ask |-> a]
      BY <1>4, <2>2 DEF Mint
    <3>2. c.undoes = req[t] /\ c.ask = a
      BY <3>1
    <3> QED
      BY <1>2, <1>3, <3>2
  <2> QED
    BY <2>1, <2>2
<1> QED
  BY <1>4 DEF TokensTrue, Snapshot

(* Odoo accepts t's write, while no other commit is poised.                *)
LEMMA WriteCalm ==
  ASSUME Inv, Calm, Quiet, NEW t \in Threads, Create(t) \/ Write(t) \/ Unlink(t)
  PROVE  /\ Calm'
         /\ \A w \in journal' \ journal :
              w.prop.ask.op = "upsert" /\ w.old = Gone =>
                \A i \in Ids : records[i] # Gone =>
                                 records[i][Dedup] # w.prop.ask.data[Dedup]
<1> USE DEF Inv
<1>1. PICK old \in [Fields -> Vals] \cup {Gone}, new \in [Fields -> Vals] \cup {Gone} :
        /\ Wrote(t, rid'[t], old, new)
        /\ \/ Creates(t) /\ old = Gone
           \/ ~Creates(t) /\ old = records[rid[t]] /\ old # Gone
  BY Writes
<1>2. /\ pc[t] = "send" /\ pc' = [pc EXCEPT ![t] = "applied"]
      /\ UNCHANGED <<edits, shimVars, req, key, prop, before, requests, results>>
      /\ MayWrite(t)
  BY Writes DEF Goto
<1>3. PICK e \in journal' :
        /\ e.req = req[t] /\ e.prop = prop[t] /\ e.old = old
        /\ journal' = journal \cup {e}
  BY <1>1 DEF Wrote
<1>4. /\ pc'[t] = "applied" /\ \A u \in Threads \ {t} : pc'[u] = pc[u]
  BY <1>2 DEF Shape, TypeOK
<1>5. \A w \in journal : w.req # req[t]
  BY <1>2 DEF WriteInv, Done, Pre
<1>6. \A u \in Threads : ~Poised(u)'
  BY <1>2, <1>4 DEF MayWrite, Poised, Op
<1>7. ~Creates(t) /\ before[t] # Gone => old = before[t]
  BY <1>1, <1>2 DEF Calm, AsRead, Poised
<1>8. AsRead'
  BY <1>6 DEF AsRead
<1>9. Image'
  <2> SUFFICES ASSUME NEW u \in Threads, pc'[u] \in Post, ~Creates(u)', before'[u] # Gone,
                      NEW w \in journal', w.req = req'[u]
               PROVE  w.old = before'[u]
    BY DEF Image
  <2>1. ~Creates(u) /\ before[u] # Gone /\ w.req = req[u] /\ before'[u] = before[u]
    BY <1>2 DEF Creates, Op
  <2>2. CASE u = t
    BY <1>3, <1>5, <1>7, <2>1, <2>2
  <2>3. CASE u # t
    <3>1. pc[u] \in Post /\ pc[u] # "idle" /\ pc[t] # "idle"
      BY <1>2, <1>4, <2>3 DEF Post
    <3>2. req[u] # req[t]
      BY <2>3, <3>1 DEF WriteInv, Distinct
    <3>3. w \in journal
      BY <1>3, <2>1, <3>2
    <3> QED
      BY <2>1, <3>1, <3>3 DEF Calm, Image
  <2> QED
    BY <2>2, <2>3
<1>10. Snapshot(old, DOMAIN prop[t].witness) = prop[t].witness
  <2>1. prop[t] \in proposals
    BY <1>2 DEF Shape, Serving
  <2>2. CASE prop[t].witness = NoData
    BY <2>2, EmptySnapshot
  <2>3. CASE prop[t].witness # NoData
    <3>1. prop[t].ask.family = "generic" /\ prop[t].ask.op = "update"
      BY <2>1, <2>3 DEF Shape, Proposed
    <3>2. before[t] # Gone /\ ~Creates(t)
      BY <1>2, <3>1 DEF Shape, Serving, ReadsBefore, Creates, Op
    <3>3. Snapshot(before[t], DOMAIN prop[t].witness) = prop[t].witness
      BY <1>2, <3>2 DEF Shape, Serving
    <3> QED
      BY <1>7, <3>2, <3>3
  <2> QED
    BY <2>2, <2>3
<1>11. NoStaleWrite'
  <2>1. \A w \in journal' : Snapshot(w.old, DOMAIN w.prop.witness) = w.prop.witness
    BY <1>3, <1>10 DEF Calm, NoStaleWrite
  <2> QED
    BY <2>1 DEF NoStaleWrite, Snapshot
<1>12. TokensTrue'
  BY <1>2, <1>3, TokensStay DEF Calm, shimVars
<1>13. ASSUME e.prop.ask.op = "upsert", e.old = Gone
       PROVE  \A i \in Ids : records[i] # Gone =>
                               records[i][Dedup] # e.prop.ask.data[Dedup]
  <2>1. Op(t) = "upsert" /\ before[t] = Gone
    BY <1>1, <1>3, <1>13 DEF Op, Creates
  <2>2. Poised(t)
    BY <1>2, <2>1 DEF Poised
  <2> QED
    BY <1>3, <2>1, <2>2 DEF Calm, AsRead
<1> QED
  BY <1>3, <1>8, <1>9, <1>11, <1>12, <1>13 DEF Calm

(* Nothing is written by what leaves the threads alone.                    *)
LEMMA AsideCalm ==
  ASSUME Inv, Calm, UNCHANGED <<records, tokens, pc, jobVars, journal>>
  PROVE  Calm'
<1>1. TokensTrue'
  BY TokensStay DEF Calm
<1> QED
  BY <1>1 DEF Calm, AsRead, Image, NoStaleWrite, Poised, Creates, Op, jobVars

LEMMA CommitCalm ==
  ASSUME Inv, Calm, NEW t \in Threads, NEW k \in Keys, NEW p \in proposals, Commit(t, k, p)
  PROVE  Calm'
<1>1. /\ pc[t] = "idle" /\ pc'[t] = FirstPlace(p.ask) /\ prop'[t] = p
      /\ \A u \in Threads \ {t} :
           /\ pc'[u] = pc[u] /\ req'[u] = req[u] /\ key'[u] = key[u]
           /\ prop'[u] = prop[u] /\ rid'[u] = rid[u] /\ before'[u] = before[u]
      /\ UNCHANGED <<odooVars, shimVars, before, journal>>
  BY DEF Commit, Goto, Inv, Shape, TypeOK
<1>2. before'[t] = Gone
  BY <1>1 DEF Inv, Shape, Serving
<1>3. pc'[t] = "send" => prop'[t].ask.op # "upsert"
  BY <1>1 DEF FirstPlace
<1>4. pc'[t] \notin Post /\ ~Poised(t)'
  BY <1>1, <1>2, <1>3 DEF Post, Poised, Op, FirstPlace
<1>5. TokensTrue'
  BY <1>1, TokensStay DEF Calm, shimVars
<1> QED
  BY <1>1, <1>4, <1>5, UnwrittenCalm DEF odooVars

(* What is read is what there is, and a probe that found none saw them all.*)
LEMMA ReadCalm ==
  ASSUME Inv, Calm, NEW t \in Threads,
         ReadBefore(t) \/ Probe(t) \/ Answered(t) \/ Confirm(t)
  PROVE  Calm'
<1> USE DEF Inv
<1>1. /\ UNCHANGED <<records, journal>> /\ TokensTrue'
      /\ UNCHANGED <<req, prop>>
  BY TokensStay DEF ReadBefore, Probe, Answered, Confirm, Calm, odooVars, shimVars, jobVars
<1>2. \A u \in Threads \ {t} :
        /\ pc'[u] = pc[u] /\ req'[u] = req[u] /\ key'[u] = key[u]
        /\ prop'[u] = prop[u] /\ rid'[u] = rid[u] /\ before'[u] = before[u]
  BY DEF ReadBefore, Probe, Answered, Confirm, Goto, jobVars, Shape, TypeOK
<1>3. CASE ReadBefore(t)
  <2>1. pc'[t] = "send" /\ rid'[t] = rid[t] /\ before'[t] = records[rid[t]]
        /\ before'[t] # Gone
    BY <1>3 DEF ReadBefore, Goto, Shape, TypeOK
  <2>2. pc'[t] \notin Post
    BY <2>1 DEF Post
  <2> QED
    BY <1>1, <1>2, <2>1, <2>2, UnwrittenCalm
<1>4. CASE Probe(t)
  <2>1. pc[t] = "probe" /\ before'[t] = Gone
    BY <1>4 DEF Probe, Shape, Serving
  <2>2. \/ /\ pc'[t] = "send"
           /\ \A i \in Ids : records[i] # Gone =>
                               records[i][Dedup] # prop[t].ask.data[Dedup]
        \/ pc'[t] = "before"
    BY <1>4 DEF Probe, Goto, Shape, TypeOK
  <2>3. pc'[t] \notin Post
    BY <2>2 DEF Post
  <2>4. prop'[t] = prop[t]
    BY <1>1
  <2>5. Poised(t)' => pc'[t] = "send"
    BY DEF Poised
  <2> QED
    BY <1>1, <1>2, <2>1, <2>2, <2>3, <2>4, <2>5, UnwrittenCalm
<1>5. CASE Answered(t) \/ Confirm(t)
  <2>1. pc[t] \in Post /\ UNCHANGED jobVars
    BY <1>5 DEF Answered, Confirm, Goto, Post
  <2>2. pc'[t] # "send"
    <3>1. Op(t) \in {"create", "update", "upsert", "delete", "method"}
      BY <2>1, ServingAt DEF Op, Post
    <3> QED
      BY <1>5, <3>1 DEF Answered, Confirm, Goto, Shape, TypeOK
  <2>3. ~Poised(t)'
    BY <2>2 DEF Poised
  <2> QED
    BY <1>1, <1>2, <2>1, <2>3, UnwrittenCalm DEF jobVars
<1> QED
  BY <1>3, <1>4, <1>5

(* In quiet, nobody edits while a commit is poised.                        *)
LEMMA EditCalm ==
  ASSUME Inv, Calm, Quiet, NEW i \in Ids, Edit(i)
  PROVE  Calm'
<1>1. UNCHANGED <<shimVars, pc, jobVars, journal>> /\ \A t \in Threads : ~Poised(t)
  BY DEF Edit
<1>2. AsRead'
  BY <1>1 DEF AsRead, Poised, Op, jobVars
<1>3. TokensTrue'
  BY <1>1, TokensStay DEF Calm, shimVars
<1> QED
  BY <1>1, <1>2, <1>3 DEF Calm, Image, NoStaleWrite, Creates, Op, jobVars

LEMMA ServeCalm ==
  ASSUME Inv, Calm, Quiet, NEW t \in Threads, Serve(t)
  PROVE  Calm'
<1>1. ASSUME Refuse(t), UNCHANGED <<odooVars, shimVars, journal>>
      PROVE  Calm'
  <2>1. TokensTrue'
    BY <1>1, TokensStay DEF Calm, shimVars
  <2> QED
    BY <1>1, <2>1, ClearCalm DEF Refuse, odooVars
<1>2. CASE Drifted(t) \/ ReadFails(t) \/ Reject(t) \/ AnswerLost(t) \/ ConfirmFails(t)
           \/ NotLanded(t)
  BY <1>1, <1>2 DEF Drifted, ReadFails, Reject, AnswerLost, ConfirmFails, NotLanded
<1>3. CASE VerifyFails(t)
  <2>1. pc[t] \in Post
    BY <1>3 DEF VerifyFails, Post
  <2>2. Clear(t) /\ UNCHANGED <<odooVars, journal>> /\ (Mint(t) \/ UNCHANGED tokens)
    BY <1>3 DEF VerifyFails, Refuse
  <2>3. TokensTrue'
    BY <2>1, <2>2, MintCalm, TokensStay DEF Calm
  <2> QED
    BY <2>2, <2>3, ClearCalm DEF odooVars
<1>4. CASE Conclude(t)
  <2>1. pc[t] \in Post
    BY <1>4 DEF Conclude, Post
  <2>2. Clear(t) /\ Mint(t) /\ UNCHANGED <<odooVars, journal>>
    BY <1>4 DEF Conclude, Store
  <2>3. TokensTrue'
    BY <2>1, <2>2, MintCalm
  <2> QED
    BY <2>2, <2>3, ClearCalm DEF odooVars
<1> QED
  BY <1>2, <1>3, <1>4, WriteCalm, ReadCalm DEF Serve

LEMMA Quieted == ASSUME Quiet PROVE Inv /\ Calm /\ [Next]_vars => Calm'
<1> SUFFICES ASSUME Inv, Calm, [Next]_vars PROVE Calm'
  OBVIOUS
<1>1. ASSUME NEW a \in Asks, Propose(a) PROVE Calm'
  BY <1>1, AsideCalm DEF Propose, odooVars
<1>2. ASSUME NEW c \in Known, Rollback(c) PROVE Calm'
  BY <1>2, AsideCalm DEF Rollback, odooVars
<1>3. ASSUME NEW t \in Threads, NEW k \in Keys, Replay(t, k) PROVE Calm'
  BY <1>3, AsideCalm DEF Replay, odooVars, shimVars
<1>4. CASE UNCHANGED vars
  BY <1>4, AsideCalm DEF vars, odooVars, shimVars
<1> QED
  BY <1>1, <1>2, <1>3, <1>4, CommitCalm, ServeCalm, EditCalm DEF Next

LEMMA CalmHolds == ASSUME Quiet PROVE Spec => [](Inv /\ Calm)
<1>1. Init => Calm
  <2> SUFFICES ASSUME Init PROVE Calm
    OBVIOUS
  <2>1. \A t \in Threads : pc[t] = "idle"
    BY DEF Init
  <2>2. AsRead /\ Image
    BY <2>1 DEF AsRead, Image, Poised, Post
  <2>3. NoStaleWrite /\ TokensTrue
    BY DEF Init, NoStaleWrite, TokensTrue
  <2> QED
    BY <2>2, <2>3 DEF Calm
<1> QED
  BY <1>1, Quieted, Invariance, PTL DEF Spec

(* In quiet, no generic update overwrites values its proposal did not      *)
(* preview.                                                                *)
THEOREM NoStaleWrites == ASSUME Quiet PROVE Spec => []NoStaleWrite
<1>1. Calm => NoStaleWrite
  BY DEF Calm
<1> QED
  BY <1>1, CalmHolds, PTL

(* In quiet, every token restores what the write it undoes has found.      *)
THEOREM TokensAreTrue == ASSUME Quiet PROVE Spec => []TokensTrue
<1>1. Calm => TokensTrue
  BY DEF Calm
<1> QED
  BY <1>1, CalmHolds, PTL

(* In quiet, an upsert makes a record only where none has its dedup value. *)
THEOREM UpsertsNeverDouble == ASSUME Quiet PROVE Spec => UpsertNeverDoubles
<1>1. ASSUME Inv, Calm, [Next]_vars
      PROVE  [\A w \in journal' \ journal :
                w.prop.ask.op = "upsert" /\ w.old = Gone =>
                  \A i \in Ids : records[i] # Gone =>
                                   records[i][Dedup] # w.prop.ask.data[Dedup]]_vars
  <2>1. (\E t \in Threads : Create(t) \/ Write(t) \/ Unlink(t)) \/ journal' = journal
    BY <1>1 DEF Next, vars, Propose, Rollback, Replay, Commit, Edit, Serve, Probe, ReadBefore,
                Drifted, ReadFails, Reject, AnswerLost, Answered, Confirm, ConfirmFails,
                VerifyFails, NotLanded, Conclude, Store
  <2> QED
    BY <1>1, <2>1, WriteCalm
<1> QED
  BY <1>1, CalmHolds, PTL DEF Spec, UpsertNeverDoubles
=============================================================================
