# odoo-nil-adapter: specifications, model checks and proofs

The adapter is a small HTTP server between a *kernel* that sends governed
requests (PROPOSE, COMMIT, STATUS, ROLLBACK, QUERY) and an Odoo instance spoken
to by XML-RPC.  Its own logic is about one thing: a write to somebody else's
database, over a network that loses answers, must happen once, must be what was
approved, must be reported truthfully, and must be undoable.  These modules
model that logic, TLC checks it on small instances and TLAPS proves the parts
that do not depend on the instance.

Paths below are relative to `src/src/odoo_nil_adapter/`.

## 1. Inventory

| component | where | state it keeps | operations |
|---|---|---|---|
| System client | `system.py`, `RealSystemClient` | the cached uid, the wire lock, `_fields_cache`, `_last_call` | `_auth`, `_kw` with its retry rule, `create/update/delete/get/search/count/schema/call_method/render_report` |
| Edge: PROPOSE | `edge.py` 613-816 | writes `state.proposals` | admission, choice gate, upsert guard, state witness, preview |
| Edge: COMMIT | `edge.py` 818-1173 | `state.ledger`, `executed`, `compensations` | replay, keyed create with ask-first probe, generic create/update/delete/method, curated update/delete/upsert/method, read-back, token, ledger row, event |
| Edge: STATUS | `edge.py` 456-494, 1204-1233 | none | by key (a search in Odoo), legacy (process memory) |
| Edge: ROLLBACK | `edge.py` 1235-1292, `compensation.py` | writes `state.proposals` | a token becomes a reversal proposal |
| Edge: QUERY, describe | `edge.py` 1175-1202, 1298-1389 | none | curated reads, verb catalogue |
| Process state | `state.py` | all of the above, lost on restart | `next_sequence` |
| Event emitters | `edge.py` 343-377 | none | signed webhook with a sequence header |
| Verb vocabulary | `translate.py`, `packs.py`, `manifest.py` | static | verb records, native payloads, feeds, `nil.*` reads |
| Read plane | `read_plane.py`, and the `nil.*` and `history.*` verbs of `translate.py` | none | projections, keyset paging, scoped counts, aggregates, supplier links by sku, chatter |
| Governance | `governance.py` | policy tables | tiers, escalation, module scope, tenant grants |
| Tenant routing | `tenant_routing.py` | one cached client per workspace | vault look-up, delegation |
| Entry points, generated models, in-memory double | `run*.py`, `models.py`, `FakeSystem` | | |

**How they interact.**  The endpoints are synchronous functions that FastAPI
runs in a threadpool, so every request is a thread.  Threads share `ShimState`
(no lock at all), the client with its field cache (no lock) and the one XML-RPC
connection (a lock).  A COMMIT is a sequence of remote calls, between any two of
which other threads run, other people edit Odoo, or the process dies.  A remote
call has three verdicts: a value, a `SystemError` ("it did not happen"), or
`OutcomeInDoubt` (a write whose answer never came).

**What is hard.**  Check-then-act over the network (ledger check and ledger row;
probe and create; witness and write; before-image and write; two upserts);
answers that are lost while the write is not; writes that land after the search
that looked for them; read-backs that fail after the write; an event that fails
after the ledger row; restarts that empty the ledger; caches that are never
emptied.  `PROJECT.json` lists each hazard at its line.

**What makes each component correct.**  The client: one call applied at most
once by its own doing, a true verdict, every call returns.  Keyed creates: one create per key,
truthful `executed`, `not_found`, `unavailable` and replay, across restarts.
Writes on existing records: no write against a world other than the one
approved; success only when read back; a reversal that restores what the write
found and touches nothing else; retries that replay.  Names: what was previewed
is what is written, and nothing is guessed.  Policy: default-deny, per tenant,
with the approval that the act needs and its reversal too.  Feed: nothing
skipped, nothing for ever, a true `complete`.  Read plane: walks in pages that lose and
repeat nothing, a scope that fails closed, labels of the right product, a history
without holes.  Documents: the ERP's bytes or a
refusal, and a read that writes only when it must.

## 2. Modules

    OdooCall        a governed call as the edge sees it: begun, then one outcome
      ^ implemented by
    XmlRpcCall      _auth and _kw: threads, lock, retries, transport
      XmlRpcCallProofs, MCXmlRpcCall

    OncePerKey      what a keyed COMMIT promises: one create per key, one answer
      ^ implemented by
    KeyedCommit     PROPOSE, COMMIT of a create, STATUS by key, restarts
      KeyedCommitProofs, MCKeyedCommit

    ResourceCrud    writes on existing records, tokens, ROLLBACK
      ResourceCrudProofs, MCResourceCrud

    TenantRouting   requests bound to workspaces, a shared client cache, a vault
      TenantRoutingProofs, MCTenantRouting

    NameResolution  names resolved at PROPOSE and again at COMMIT
      NameResolutionProofs, MCNameResolution

    Governance      tiers, grants, scope, and what PROPOSE to ROLLBACK make of them
      GovernanceProofs, MCGovernance

    MovementsFeed   a cursor over Odoo's stock moves, kept by the consumer
      ReadProofs, MCMovementsFeed

    ReadPlane       reads of several calls: walks, scoped gets, links, histories
      ReadProofs, MCReadPlane

    DocumentRender  the ERP's own PDF by one of three routes
      DocumentRenderProofs, MCDocumentRender

`KeyedCommit` and `ResourceCrud` use the remote call at the level of `OdooCall`:
applied or not, answered or not.  That `XmlRpcCall` gives no more and no less is
the refinement checked in run `call` and proved as `CallIsAtomic`.  `OdooCall`
lets the transport repeat a request; `KeyedCommit` has these repetitions
(`Resend`).  `ResourceCrud` leaves them out: a second application is one more
write after the commit's last read, which `Quiet` excludes, and without `Quiet`
it writes the same values, or deletes the same record, once more.
`ReadProofs` is about two modules, as both rest on what the first rows of an
ordered search are; that is why `MovementsFeed` names its parts `FeedInit`,
`FeedNext` and so on.

### XmlRpcCall (`system.py` 237-343)

| model | code |
|---|---|
| `uid` | `_uid`, cached for ever |
| `lock`, `Take`, `AuthAcquire`, `Acquire` | `_xmlrpc_lock`, around each wire call only |
| `attempt`, `Again` | the `for attempt` loop and its back-off |
| `kind`, `IsRead` | membership in `_READ_METHODS` |
| `Answered`, `Faulted`, `RateLimited`, `NoAnswer`, `HttpError` | the return and the `except` arms of `_kw` |
| `SilentResend` | external: `http.client` repeats a request once on a reset connection |
| `applied` | history: how often Odoo applied the current call |

The throttle's waiting and the length of back-offs are time, which the model
leaves out; a waiting thread simply does not hold the lock.

### KeyedCommit (`edge.py` 392-494, 700-847, 952-1173; `system.py` 350-352, 413-423)

A thread's `pc` is the remote call it is at: `schema`, `gate` (PROPOSE);
`prepare`, `probe`, `sent`, `applied`, `confirm`, `reprobe`, `verify`, `emit`
(COMMIT).  What lies between two calls is one step.  `records` is what Odoo
holds, `orphans` what was sent by somebody who stopped listening (a lost answer,
a restarted process): it may still `Land` or be dropped.  `MarkerOf` is
`_idem_marker`; a constant, so that runs can choose exact markers or a collision
(`_KEY_SAFE` maps different characters to one).  A COMMIT sends one create, but
`xmlrpc.client` repeats a request on a reset without telling the adapter:
`Resend`, at most `Hidden` times, leaves the earlier copy applied or to Odoo.  A
record is therefore identified by the request that made it and by the copy.  The
environment's flags:

* `Overlap`: requests of one key may run at the same time;
* `LateLanding`: a search may overtake a write that was sent before it;
* `SchemaFaults`: `fields_get` may fail.

A *sound* environment has none of them, and any number of repetitions.  In it
all records of a key are made by one create, one record if the transport repeats
nothing; `not_found` is safe to act on; and, if the markers tell the keys apart,
every answer for a key names the same record.  Without one of these conditions
TLC refutes `OneRecordPerKey`, `NotFoundIsTrue` or `IdempotentCommit` in a few
steps, and the adapter's own `describe` states that there is a window (`edge.py`
1338-1340).  That there is *one record* over the transport as it is does not
hold, and nothing claims it (section 5).  What holds in *every* environment is
kept apart: run `wild`, whose two keys share a marker.

### ResourceCrud (`edge.py` 79-193, 623-698, 842-951, 973-1050, 1105-1292)

A record is a function from fields to values.  What PROPOSE was asked is a
record `[family, op, rid, data]`; `family` is `generic` (`resource.*`) or
`curated` (a verb).  The places of a COMMIT are `probe` (an upsert's search),
`before` (before-image and witness recheck), `send`, `applied`, `confirm` (the
client's read-back), `verify` (the edge's), `record`.  `journal` is a history of
every write Odoo accepted, with what it found and left; the properties relate it
to tokens and results.

| model | code |
|---|---|
| `Propose`, `Witness` | `state.proposals[...]`, `_hash_snap` over the patched fields |
| `Commit`, `Replay` | the ledger check at 842 and the dispatch below it |
| `ReadBefore`, `Drifted` | 899-910, PRECONDITION_FAILED |
| `Probe` | 1013-1033, the upsert's search |
| `Create`, `Write`, `Unlink` | external effect of the client's call; values may be dropped, a delete may be ignored |
| `Reject`, `AnswerLost` | `SystemError` and `OutcomeInDoubt` |
| `Reversals`, `Restore`, `Mint` | `rev_verb`/`rev_args`, `_before_image_reversal`, `COMPENSATIONS`, the token |
| `Confirm`, `ConfirmFails`, `VerifyFails`, `NotLanded`, `Conclude`, `Store` | the two read-backs, the claim, the ledger row and the event |
| `Rollback` | 1235-1292 |

The dedup field stands for itself and for the ledger row an upsert leaves under
it: at 1014 the loop variable is called `key`, like the idempotency key.
`_field_landed` accepts a value whose text contains the one asked for, `15` for
`5`: `Within` says which values those are, and `Shows` is what the edge calls
landed.  `Complete` is what PROPOSE does not refuse as INVALID_ARGS.  Event order and sequence numbers are left out, restarts and late
landing are `KeyedCommit`'s subject.  `Quiet` says that nobody writes between a
commit's last read and its own write: the window no client of XML-RPC can close.

### TenantRouting (`tenant_routing.py`; `edge.py` 613-619, 821-825, 1178, 1204-1233)

A request arrives on a thread, is bound (PROPOSE, COMMIT, QUERY) or not
(STATUS), makes up to `MaxCalls` calls of the client and answers.  Each call is
routed afresh: `Unrouted`, `CacheHit`, or `CacheMiss` followed by one
`FetchSecret` per secret and `Build`.  `NoBackend` is a call that reached
nothing: the handler refuses, or makes do without the answer.  `tenant` is the
ContextVar in the request's context; the context ends with the request
(`Leave`).  The vault is external: secrets are stored and rotated one by one
(`Rotate`), and any read may fail.  `CalmVault` says that nobody rotates a
workspace during its look-up, which is what the four separate reads need.
`invalidate` is called by nobody and is left out.

### NameResolution (`edge.py` 60-119, 173-180, 196-340, 538-600, 648-698, 886-911, 963-986; `system.py` 354-376)

One request from PROPOSE to its write.  `pc` is the search the handler is at:
`code`, `name` and `candidates` for the reference, `get`, `listCode` and
`listName` for the record itself, `read` for the witness, `label` for the
preview.  `dir` is Odoo; other people rename, change and delete between any two
calls, and any call may fail (`Fails`), which each place handles in its own way:
skipped, refused, shown without a name, or a terminal failure.

| model | code |
|---|---|
| `Reference`, `ByCode`, `ByName`, `Pool`, `OnlyOne` | `_resolve_reference` |
| `NotResolved`, `Candidates` | `_gate_relation`; at COMMIT `failed_terminal` |
| `GetRecord`, `ListCode`, `ListName`, `Hits` | `_resolve_id`: an id, else the fields of `_ID_FIELDS` |
| `ReadRecord` | the witness at PROPOSE, its recheck at COMMIT |
| `Label` | `_legible`: the preview's "field -> name" |

An identifier is an id, else the code of exactly one record, else the name of
exactly one (`Bearers`); a reference goes by code, else by likeness, the very
name before those that contain it.  `NamedExactly` says just that of a request
none of whose calls failed, and after a failed list no more than that the record
is the only one of that code or of that name.

Words are model values; which word contains which, and which look like codes,
are constants.  Selections (`_resolve_option`) are a look-up in one cached
answer, and left out.

### Governance (`governance.py`; `packs.py` 351-401; `edge.py` 60-100, 613-707, 862-921, 1028-1050, 1235-1332; `compensation.py`)

| model | code |
|---|---|
| `Load`, `Start`, `Restart` | `load_grants_from_env` entry by entry; an incomplete entry raises and no app is made |
| `grants`, `scope` | `_TENANT_WRITE` and `_TENANT_METHOD`, `_ENABLED_MODULES` |
| `WriteTier`, `Escalate`, `MethodTier`, `MethodReverse` | the functions of those names |
| `WritableTargets`, `Advertised` | `writable_targets`, `describe` |
| `ResolveTarget` | `_resolve_target`; `Resembles` is what a name contains or is contained in |
| `ProposeWrite`, `ProposeMethod`, `ProposeVerb` | PROPOSE of the three families |
| `Undos`, `VerbUndos`, `ByTable`, `UndoTier` | the token COMMIT mints, `COMPENSATIONS`, the tier ROLLBACK previews |
| `Rollback` | a token becomes a proposal and no policy is asked |

COMMIT and ROLLBACK look a proposal id or a token up and never compare the
workspace that asks with the one that proposed, so both actions take any tenant;
a method's reversal is what the committing tenant's grants name.
`EffectsPermitted` is therefore about the proposer.  A COMMIT's write succeeds:
failures and replays are `ResourceCrud`'s subject.

### MovementsFeed (`translate.py` 1167-1193, 1296-1470)

`Look` is one page: the search behind the cursor, the next cursor and `complete`.
`Receive` and `Lose` are the consumer's, `Write`, `Commit` and `Tick` Odoo's.  A
behaviour has a *world*: whole-second dates or fractions of which the wire keeps
the second, transactions seen at once or late, seconds that are over when a page
is read or not, and a page size.  The properties say which worlds they need; in
the others the adapter can do nothing.

### ReadPlane (`read_plane.py` 222-228; `translate.py` 1471-1552, 1902-2043, 2153-2178, 2233-2414; `edge.py` 1176-1202)

One request at a time, call by call, beside people who change the ranks of
partners, remove and make them, give products other codes and post messages.
The plane above the adapter, `nilscript.dataplane`, is not in this repository: it
hands on a page's last id as the next cursor, and it may refuse a count.

| model | code |
|---|---|
| `Names`, `InDomain` | `RESOURCES`, `base_filter_for`: Customer and Supplier are one model, told apart by rank |
| `Pages`, `NextPage` | `OdooReadBackend.fetch`, `_run_nil_search`: ids behind the cursor, lowest first |
| `Count`, `CountRefused`, `Get` | `_id_satisfies_domain`, which fails closed, then `get_one`, which takes no filter |
| `Resolve`, `FetchLinks` | `_resolve_sku`, `_translate_product_supplier_filter` |
| `CodesById`, `CodesByTemplate`, `Label` | `_batch_default_codes`, `_project_product_supplier_row` |
| `VariantsOf`, `RowLimit`, `VariantRows` | the search for the variants of a page's templates, its limit `max(n * FanOut, FewestRows)` (20 and 200 in the code), and any rows within it |
| `ResolveTemplate`, `VariantLog`, `TemplateLog`, `Merged` | `_product_changes_domains`, `_run_history_changes` |
| `CallFails` | the refusals, and the HTTP 500 of what is not caught |

`Variants` are those a search shows: an archived product is none of them.
`always`, `ever`, `bore` and `known` are histories of the request under way: what
was in its domain all the time or at some time, which codes there were, which
messages.  A read of several calls has no moment of its own; the properties say
what it answers about the time it took.

### DocumentRender (`system.py` 463-600; `translate.py` 1026-1075)

| model | code |
|---|---|
| `versionMajor`, `Probe` | `_version_major`, 0 for ever once a probe has failed |
| `Order`, `NextRoute` | the tuple `routes` and the loop over it |
| `ByHttp`, `ByXmlRpc` | the two routes that write nothing |
| `ReadToken`, `Mint`, `Page` | the portal route's three calls |
| `mishap`, `minted`, `raced` | histories the properties refer to |
| `MailLink` | external: Odoo gives the record its token and mails a link |

The record exists and has a portal page (`purchase.order` and `account.move`,
the only targets the two verbs name).

## 3. Runs

| run | instance | shows |
|---|---|---|
| `call` | 2 threads, 2 retries, 2 calls, a transport that repeats a request once on a reset | the wire is exclusive, verdicts are true, every call returns, refinement of `OdooCall` (at most one application besides those the transport adds, and what the caller is told of it) |
| `sound` | 2 keys, 2 threads, 4 requests, 2 proposals, 1 restart, a transport that repeats a create once | the records of a key are of one create, true `not_found`, refinement of `OncePerKey` |
| `wild` | 2 keys of one marker, 2 threads, 3 requests, 1 proposal, 1 restart, a transport that repeats a create once, every fault | what stays true in every environment; every request is answered |
| `crud` | 2 threads, 2 keys, 4 requests, 2 records, 1 edit, all operations | no stale write, true tokens, earned claims, replay, careful reversals, in quiet |
| `again` | the same, upsert only | **violated**: a retried upsert is executed again |
| `tenant` | 2 threads, 2 workspaces, 2 secrets, 4 secrets stored, 2 requests of 2 calls, a failing vault | a call reaches its own workspace's backend, with credentials of one moment, and clients are few |
| `unbound` | the same, without rotation, 1 call | **violated**: STATUS by key reaches no backend |
| `names` | 3 records, every directory of 3 words and 2 codes, 1 edit, any call may fail | what was approved is written, PROPOSE and COMMIT pick the same record, nothing is guessed |
| `policy` | 2 tenants, each committing and rolling back also what is the other's, 4 models, 7 verbs, 5 configurations, 3 scopes, 2 proposals, 2 effects, 1 change | what is admitted is the policy, also through ROLLBACK; tiers of deletes and reversals |
| `feed` | 3 moves, 3 transactions, 4 instants, pages of 1, 2 and 4 | nothing skipped or repeated, true `complete`, all delivered |
| `read` | 4 partner ids, pages of 1, 3 variants of 2 templates, searched with room for 2, 3 links, histories of 2, 3 edits | walks lose and repeat nothing, gets stay in scope, skus are true, histories are whole |
| `document` | 2 threads, 3 requests, every set of open routes, an old and a new server | nothing available is refused, a token is written only when needed, mailed links stay good |

**Bounds and why they suffice.**  Each property of `KeyedCommit` and
`ResourceCrud` is violated by an interleaving of at most two requests for one key
or record, plus one that asks afterwards and one that undoes: four requests.  In
`wild` three are enough, as its properties are violated by a PROPOSE and two
requests that overlap, of one key or of two that share a marker.  Two
threads give every pairwise interleaving.  One restart separates two lives of the ledger.  Two retries
give a first, a middle and a last attempt, and a resend of the transport can fall
into any of them.  Two records let an upsert make one
beside the one it misses; two fields are one the write patches and one it must
spare; two values are the old and the new.  Three records let a name be one's
own, another's in other letters, and part of a third's, and a search limited to
two rows be cut.  Two proposals and two effects are an act and its reversal; the
grants include an entry that overrides another, one for the other tenant and one
that is incomplete.  Three moves fill a page, share a date and leave one behind.
A page of one row makes a walk of
every length; a template whose id is another's variant's tells the two spaces of
ids apart; with a fan-out of 1 and at least 2 rows, the variants of one template
fit into the search and those of both do not; a history of two can be filled from either search or from both; three
edits are one that joins, one that leaves and one that changes what was read.
Three document requests are two that race and one that finds what they left.
That the instances are large enough is itself checked: every property has a
mutant of the code (dropped guard, wrong order, missing reset) that the same run
refutes (`PROJECT.json`, `mutants`).

`CHECK_DEADLOCK FALSE` is set because the bounds end every run: when all
requests are spent and answered, nothing is left to do.

**Fairness** is asked for by the three runs with a liveness property, `call`,
`wild` and `feed`, and of steps the process or Odoo takes by itself:
`WF(Step(t))`, a thread inside a call keeps going; `WF(Settle)`, Odoo commits or
drops a transaction.  No caller has to ask, retry or roll back, except in
`feed`, whose property is about a consumer that polls (`WF(Look)`) and does not
lose every page (`SF(Receive)`).  The XML-RPC exchange itself is assumed to end:
`ServerProxy` has no timeout, so this is a promise of the gateway in front of
Odoo and not of the code.

## 4. Proofs

The theorems hold for every value of the constants: any number of threads, keys,
proposals, workspaces, secrets, requests and restarts, any policy, any server.
What the constants must satisfy is stated as named assumptions in the modules
that declare them; TLC evaluates them on every run.

*XmlRpcCall.*  `TypeCorrect`; `WireExclusion` from "who is on the wire holds the
lock"; `VerdictsHonest` for every transport, from a bound per attempt: of a
thread still at work, what was applied so far the transport has repeated.  It
gives `NeverTwice` for a transport that repeats nothing, and `CallIsAtomic`, the
refinement of `OdooCall`, step by step.

*KeyedCommit.*  The induction is layered, each layer using the ones before:

1. `Shape`: types, and for each place of the code which of `op`, `key`, `req`,
   `prop` are set.  Not in `TypeOK`, but no step can be followed without it.
2. `RealInv`: what a thread has `found` and what the ledger holds are records
   with its marker.  Gives `ExecutedReal` and `MemoryAgreed`, with no assumption
   about the environment.
3. `NumberInv`: request numbers are fresh, and a record, an orphan or a pending
   create carries its own request's number.  Gives `RefusalsTrue`.
4. `SchemaInv`, `StampInv` (under `Sound`): a schema once read stays, so every
   create is stamped.  Gives `Stamped`.
5. `AloneInv` (under `Sound`): a thread past its missed probe is alone with its
   marker, and the records and orphans that bear it are copies of its own create;
   so those of a marker are all of one request.  Gives `OneRecord`.
6. `NotFoundInv` (under `Sound`): after `not_found` no earlier commit of the key
   is alive.  Gives `NotFoundTrue`.
7. `NamedInv` (under `Sound`, exact markers): one record is named for a key, by
   the ledger, an answer or a thread about to answer, and none while its create
   is under way.  With it each step is a `Perform`, a `Tell` or a stutter of
   `OncePerKey`: `CommitIsIdempotent`.

None of these layers bounds `Hidden`: they hold whatever the transport repeats.

*ResourceCrud.*  Two inductions.  `Inv` holds in every environment:

1. `Shape`: the types; `Proposed`, a proposal has a witness only where it is
   rechecked, and one that undoes something was made of a token; `Serving`, what
   a thread at each place has read.
2. `WriteInv`: no two threads serve one request (`Distinct`); a request writes at
   most once, and a write leaves the fields it was not asked for (`Recorded`); a
   thread past its write has its entry in the journal and one before it has none
   (`Done`); a token is of a write (`Minted`); ids are given out in order
   (`Placed`); while nobody edits, a record written once is as that write left it
   (`Latest`).
3. `ToldInv`, of the bodies in the ledger and of what was told: `Honest`, the
   claim fits the write; `Final`, who is under way for the key began before.
   `Steady` lists what a step may not do to them, so that each action is shown to
   keep them by one lemma.

They give `TypeCorrect`, `ResultsAccepted`, `SuccessEarned`,
`ReplaysWriteNothing`, `UndoSpares` and `ReversalsHappened`.  `Calm` adds, under
`Quiet`, what a thread about to write knows: its before-image is the record
(`AsRead`, and for an upsert that found none, that there is none), and once it
has written, what its write found (`Image`).  It gives `NoStaleWrites`,
`TokensAreTrue` and, for each step, `UpsertsNeverDouble`.

*TenantRouting.*  `Inv` is the types, `Bound` (a thread that asks the vault or
calls a client has a binding, its own request's, and the client it holds is that
workspace's) and `Owned` (a place of the cache holds its own workspace's client).
It gives `TypeCorrect` and `OwnBackendAlways`.  `ClientsBoundedAlways` counts: a
workspace's clients and the threads asking for it are together at most the
threads, because nobody begins to ask once a client is cached.
`CachedIsServedAlways`: who has seen the client is not asking and will not.
`WholeCredentialsAlways`: what a thread has fetched is still what the vault holds.

*Governance.*  `Inv` is the types with three parts.  `Loaded`: the grants are
those of the entries loaded so far, one for each key, and all of them once the
adapter is up.  `Proposed`: what was asked for was permitted and has its tier;
what comes from ROLLBACK is the act and tier of an effect with a token.
`Committed`: an effect is later than the one its proposal reverses, and its token
fits its proposal.  The parts need each other, as COMMIT reads a proposal and
ROLLBACK an effect.  They give `TypeCorrect`, `PolicyDecides`,
`EffectsArePermitted`, `RiskyDeletes`, `ReversalsKeepTier`, `MintsAsAdvertised`,
`AdvertisedCommits` and, for each step, `ScopeIsKept`.  That verbs can be
reversed as advertised rests on `VerbsAssumption`, which says of the shipped
table (`packs.py`, `compensation.py`) what TLC can check of an excerpt: an upsert
has a reversal, an inverse method belongs to a method, and every reversal named
is a verb or the before-image of an update.

*NameResolution.*  The definitions say what a search *would* find in the present
directory (`RefNow`, `ShownNow`, `WhoNow`), and the invariant relates it to what
the handler has found.  `Course` says which variables are set at each place.
`NameAfterCode`: who searches by name has found no code, as long as nobody edits.
`ValueHolds`, `ShownHolds`: the id the reference was resolved to, and the record
the preview names, are the present ones while all is calm.  `GateHolds`: what
the gate has let pass has a record, if no call failed.  `RecordHolds`,
`RecordFirst` and `RecordById`: the same for the record that is written, which
PROPOSE and COMMIT look up each for itself; the two meet since both find
`WhoNow`.  `OnlyOneAlone` and `FirstWhole` say what a search cut to two or eight
rows still tells: whether there is one record or more; `HitIs`, that a list's
hit is the field's only bearer.  They give `TypeCorrect`,
`PreviewKept` (`ApprovedIsWritten`), `GateKept` (`GateMirrors`), `WitnessKept`
(`SameRecord`) and `NothingGuessed` (`NamedExactly`).  That `None` is none of the
answers is assumed since the proof needs it.

*First rows (`ReadProofs`).*  `FirstOnes`: the elements of a finite set that have
fewer than N before them in a strict total order are at most N, and are N, all
before the rest, if anything is left out.  `FiniteMin` gives it by well-founded
induction on subsets.

*ReadPlane.*  `Since`: `always` is in the domain now and the domain in `ever`.
`Walked`: what was in the domain throughout and is not beyond the cursor is among
the rows, and no row is beyond it.  `Counted`, `Labelled`: what the calls so far
have found was true while the request lasted; what the search for variants did
not show is there only where they do not fit.  They give `WalkComplete`,
`GetScoped` and `SkusTrue`.  For a product's history `LogInv` adds `Numbered`
(ids of messages are those of a finite count, so that newest-first is total) and
`Logged`: the first search's rows are `Whole`, all there was or as many as asked
for and newer than what is missing.  `CutMerge` is the heart: two whole results
put together and cut are whole.  It gives `HistoryWhole`.  `Spans` and `Sorts`
are the types not said so far; they give `TypeCorrect`.

*MovementsFeed.*  `Passed`: what the consumer's cursor, or the next one of the
page on its way, has passed is delivered or on that page.  `Parted`: what is
delivered is not beyond the cursor, where dates are whole.  Both need that a page
is a front of a finite set (`FirstOnes`), and that a new row lies beyond every
cursor of a second that is over (`WrittenBeyond`).  They give `NoneSkipped`,
`NoneRepeated`, `CompletenessTrue` and `FeedTypeCorrect`.

*DocumentRender.*  `Routing`: the routes a request has been through without a
mishap are closed, and all are once it is refused.  It gives `AvailableServed`,
and `ReadsWriteNothing` since both orders try the report controller before the
portal.  `LinksAreKept` adds that, unless a token appeared in between, whoever is
about to write one has found none, so that there are no links yet.

`Sound` is the conjunction of the environment's flags: it appears as an
explicit ASSUME of the theorems that need it and nowhere else.  So does `Quiet`.

Every safety property of a passing run is a theorem.  Only model-checked are
liveness (`EveryCallReturns`, `EveryRequestAnswered`, `EveryMoveDelivered`),
which needs ENABLED and is out of the prover's reach, and the two counterexamples
of section 5.

## 5. Where code and words differ

Two runs that TLC refutes (`PROJECT.json`, `findings`): the upsert's ledger row
under the wrong key (`edge.py:1014`), a STATUS by key that is bound to no
workspace (`edge.py:1218`).

The rest is in the provisos of the properties that hold; each was found as a
counterexample of the property without it.

* `failed_terminal` is answered for a record that exists when the read-back
  inside `create` fails (`system.py:352`; `system.py:59` says the state asserts
  "it did not happen").
* `xmlrpc.client` repeats a request on a reset below the retry rule
  (`system.py:313`), so `AtMostOnce` (theorem `NeverTwice`) needs a transport that
  does not.  For a keyed create it means two records under one key, where
  `_recovery_hint` promises "never a second one": a later probe finds two and
  answers in doubt, and a fault that answers the second copy is told as
  `failed_terminal` with the first applied.
* A proposal id or a token is accepted from any workspace (`edge.py:845`, `1243`):
  the write goes to the backend of the workspace that commits, and a method's
  reversal is looked up in that workspace's grants (`edge.py:867`).
* After a failed search by code (`edge.py:115`) the record *named* "LK" is written
  or deleted, although another is *coded* "LK".
* A failed `fields_get` is cached for ever and drops the marker
  (`system.py:420`), so `AlwaysStamped` (theorem `Stamped`) needs a
  schema that can be read.
* A generic delete that Odoo ignores is told as executed (`edge.py:929`).
* A preview names what a *name* search finds and COMMIT writes what a *code*
  search finds first: "LK" may show one country and write another
  (`edge.py:208`, `317`).
* The movements feed misses a row that comes into the second of a page already
  read (`translate.py:1463`).
* ROLLBACK previews the deletion of a granted financial record as HIGH
  (`edge.py:1267`), PROPOSE as CRITICAL.
* `describe` lists every verb as committable whatever the scope (`edge.py:1303`).
* A scope that names a pack rather than a prefix drops that pack's methods
  (`packs.py:354` asks for the pack's name as if it were a model).
* `load_grants_from_env` "never raises" and does, for an entry without one of its
  keys (`governance.py:135`).
* A real model that is not declared is redirected to the declared one its name
  contains (`edge.py:98`).
* A case variant of a resource name, `supplier`, resolves to `res.partner` but
  gets no base domain (`translate.py:2265`, `RESOURCE_DOMAINS.get`): the read is
  of every partner.
* A page of a product's history is asked for by `before`, which is strict
  (`translate.py:1530`): messages of the last one's date that fell off the page
  are never shown.
* A link without a product of its own is labelled with the code of *any* variant
  of its template (`translate.py:2349`), and a search by sku finds the links of
  the other variants too.  All templates of a page share one limit on the
  variants looked at (`translate.py:2355`): beyond it a coded one may stay
  without its label.
* A failing Odoo is a refusal of `nil.intent` and of the histories
  (`translate.py:2172`, `1538`) and an HTTP 500 of the other `nil.*` verbs, which
  catch only `_READ_REFUSALS` (`translate.py:1837`).
* A token may be rolled back twice: nothing uses it up (`edge.py:1254`).
* The "monotonic per-workspace sequence header" (`edge.py:358`) is counted
  without a lock and begins again at 1 after a restart (`state.py:20`).
* A document "read" writes a token, in two calls that are not atomic
  (`system.py:540`), and the bytes of `render_qweb_pdf` are not checked to be a
  PDF (`system.py:487`).

## 6. Plan

Done: the modules of section 2, and the proofs of section 4.

What is left, in this order:

1. `EventOrder`: `next_sequence`, `emit` and a webhook that sees both.
2. One composition of `KeyedCommit` over `XmlRpcCall`'s outcomes, if the state
   space allows; today the refinement of `OdooCall` stands between them.

Not modelled, and why:

* payload layout per verb (`translate.py`, `manifest.py`), the projections that
  `read_plane.py` derives from a target's fields, generated envelope classes
  (`models.py`), wording of previews: data that no property tells apart;
* aggregates, exports and counts: one call each, and nothing kept.  (An aggregate
  groups the first 100 000 rows, `read_plane.py:243`.)
* selections (`_resolve_option`): a look-up in one cached answer;
* the sequence of events: nothing in the repository reads it again;
* the throttle and the length of back-offs: time;
* entry points and the in-memory double.
