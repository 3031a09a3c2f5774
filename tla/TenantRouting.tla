---------------------------- MODULE TenantRouting ---------------------------
(***************************************************************************)
(* One adapter for many workspaces (tenant_routing.py): each call of a     *)
(* request is routed to the client of the workspace the request is bound   *)
(* to, which is built from the workspace's credentials in a vault and      *)
(* cached.  The threads of the pool share the cache without a lock.        *)
(*                                                                         *)
(* PROPOSE, COMMIT and QUERY bind the workspace of their envelope; STATUS  *)
(* has no envelope and binds none (edge.py).  Every request has a context  *)
(* of its own: what one binds, the next on that thread does not see.       *)
(*                                                                         *)
(* The vault is external: it keeps each secret by itself, and an operator  *)
(* provisions and rotates them at any moment.                              *)
(***************************************************************************)
EXTENDS Naturals, Sequences, FiniteSets

CONSTANTS
  Threads,              \* worker threads of the threadpool
  Workspaces,
  NoWorkspace,          \* an unbound request
  SecretKeys,           \* _SECRET_KEYS, in the order they are fetched
  NoClient,             \* no cached client
  CalmVault,            \* environment: nobody rotates during a look-up
  MaxVersions,          \* bound: versions of a secret
  MaxStores,            \* bound: secrets the operator stores
  MaxRequests,          \* bound: requests received
  MaxCalls              \* bound: calls a request makes of the client

ASSUME ThreadsAssumption == IsFiniteSet(Threads)
ASSUME NamesAssumption == NoWorkspace \notin Workspaces
ASSUME BoundsAssumption ==
  /\ {MaxVersions, MaxStores, MaxRequests, MaxCalls} \subseteq Nat
  /\ SecretKeys \in Seq(STRING)
  /\ \A i, j \in DOMAIN SecretKeys : SecretKeys[i] = SecretKeys[j] => i = j
  /\ CalmVault \in BOOLEAN

Secrets == {SecretKeys[i] : i \in DOMAIN SecretKeys}
Missing == 0                              \* HTTP 404: not provisioned
Versions == Missing .. MaxVersions

(* A client and whose credentials it holds.                                *)
Client == [owner : Workspaces, creds : [Secrets -> Versions]]
ASSUME NoClientAssumption == NoClient \notin Client

Kinds == {"governed", "status"}
Places == {"idle", "handler", "fetch", "call"}

VARIABLES
  vault,                \* vault[w][k]: the version of w's secret k
  past,                 \* past[w]: what vault[w] has ever been (history)
  stores,               \* secrets stored
  cache,                \* _cache
  built,                \* built[w]: clients made for w (history)
  pc,
  kind, about,          \* the request t serves, and its workspace
  tenant,               \* _current_tenant in t's context
  left,                 \* calls t may still make
  fetched,              \* the secrets t has, in the order of SecretKeys
  using,                \* the client t's present call goes to
  warm,                 \* t's request has seen its workspace's client (history)
  requests,             \* requests received
  touched,              \* which request's call reached which client
  replies               \* how requests ended

vaultVars == <<vault, past, stores>>
threadVars == <<pc, kind, about, tenant, left, fetched, using, warm>>
vars == <<vaultVars, cache, built, threadVars, requests, touched, replies>>

NoSecrets == [k \in Secrets |-> Missing]

Init ==
  /\ vault = [w \in Workspaces |-> NoSecrets]
  /\ past = [w \in Workspaces |-> {NoSecrets}]
  /\ stores = 0
  /\ cache = [w \in Workspaces |-> NoClient]
  /\ built = [w \in Workspaces |-> 0]
  /\ pc = [t \in Threads |-> "idle"]
  /\ kind = [t \in Threads |-> "governed"]
  /\ about = [t \in Threads |-> NoWorkspace]
  /\ tenant = [t \in Threads |-> NoWorkspace]
  /\ left = [t \in Threads |-> 0]
  /\ fetched = [t \in Threads |-> << >>]
  /\ using = [t \in Threads |-> NoClient]
  /\ warm = [t \in Threads |-> FALSE]
  /\ requests = 0
  /\ touched = {}
  /\ replies = {}

-----------------------------------------------------------------------------
Goto(t, from, to) ==
  /\ pc[t] = from
  /\ pc' = [pc EXCEPT ![t] = to]

(* Mutant: the binding outlives the request, as in a thread-local.         *)
LeaveBound(t) ==
  /\ pc' = [pc EXCEPT ![t] = "idle"]
  /\ kind' = [kind EXCEPT ![t] = "governed"]
  /\ about' = [about EXCEPT ![t] = NoWorkspace]
  /\ left' = [left EXCEPT ![t] = 0]
  /\ fetched' = [fetched EXCEPT ![t] = << >>]
  /\ using' = [using EXCEPT ![t] = NoClient]
  /\ warm' = [warm EXCEPT ![t] = FALSE]
  /\ UNCHANGED tenant

(* The request is over and its context gone.                               *)
Leave(t) ==
  /\ pc' = [pc EXCEPT ![t] = "idle"]
  /\ kind' = [kind EXCEPT ![t] = "governed"]
  /\ about' = [about EXCEPT ![t] = NoWorkspace]
  /\ tenant' = [tenant EXCEPT ![t] = NoWorkspace]
  /\ left' = [left EXCEPT ![t] = 0]
  /\ fetched' = [fetched EXCEPT ![t] = << >>]
  /\ using' = [using EXCEPT ![t] = NoClient]
  /\ warm' = [warm EXCEPT ![t] = FALSE]

Reply(t, outcome) ==
  /\ Leave(t)
  /\ replies' = replies \cup
       {[kind |-> kind[t], warm |-> warm[t], outcome |-> outcome]}
  /\ UNCHANGED <<vaultVars, built, requests, touched>>

(* A call that reached no backend: the handler refuses, or makes do without *)
(* (a preview without its before-image, a probe that is inconclusive).     *)
NoBackend(t, outcome) ==
  \/ Reply(t, outcome)
  \/ /\ pc' = [pc EXCEPT ![t] = "handler"]
     /\ left' = [left EXCEPT ![t] = @ - 1]
     /\ fetched' = [fetched EXCEPT ![t] = << >>]
     /\ UNCHANGED <<vaultVars, built, kind, about, tenant, using, warm, requests,
                    touched, replies>>

-----------------------------------------------------------------------------
(* A request arrives; only governed ones bind their workspace.             *)
Arrive(t, w, k) ==
  /\ requests < MaxRequests
  /\ requests' = requests + 1
  /\ Goto(t, "idle", "handler")
  /\ kind' = [kind EXCEPT ![t] = k]
  /\ about' = [about EXCEPT ![t] = w]
  /\ tenant' = IF k = "governed" THEN [tenant EXCEPT ![t] = w] ELSE tenant
  /\ left' = [left EXCEPT ![t] = MaxCalls]
  /\ warm' = [warm EXCEPT ![t] = cache[w] # NoClient]
  /\ UNCHANGED <<vaultVars, cache, built, fetched, using, touched, replies>>

(* _real for an unbound request: "cannot route a credential-less call".    *)
Unrouted(t) ==
  /\ pc[t] = "handler" /\ left[t] > 0
  /\ tenant[t] = NoWorkspace
  /\ NoBackend(t, "unrouted")
  /\ UNCHANGED cache

(* Mutant: only the credentials are cached, a client is made for each call. *)
CacheHitAnew(t) ==
  /\ left[t] > 0
  /\ tenant[t] # NoWorkspace
  /\ cache[tenant[t]] # NoClient
  /\ Goto(t, "handler", "call")
  /\ using' = [using EXCEPT ![t] = cache[tenant[t]]]
  /\ built' = [built EXCEPT ![tenant[t]] = @ + 1]
  /\ warm' = [warm EXCEPT ![t] = TRUE]
  /\ UNCHANGED <<vaultVars, cache, kind, about, tenant, left, fetched,
                 requests, touched, replies>>

(* The workspace's client is cached.                                       *)
CacheHit(t) ==
  /\ left[t] > 0
  /\ tenant[t] # NoWorkspace
  /\ cache[tenant[t]] # NoClient
  /\ Goto(t, "handler", "call")
  /\ using' = [using EXCEPT ![t] = cache[tenant[t]]]
  /\ warm' = [warm EXCEPT ![t] = TRUE]
  /\ UNCHANGED <<vaultVars, cache, built, kind, about, tenant, left, fetched,
                 requests, touched, replies>>

(* There is none: the vault is asked for its secrets.                      *)
CacheMiss(t) ==
  /\ left[t] > 0
  /\ tenant[t] # NoWorkspace
  /\ cache[tenant[t]] = NoClient
  /\ Goto(t, "handler", "fetch")
  /\ UNCHANGED <<vaultVars, cache, built, kind, about, tenant, left, fetched,
                 using, warm, requests, touched, replies>>

(* Mutant: a secret once read is remembered.                               *)
FetchRemembered(t) ==
  /\ pc[t] = "fetch"
  /\ Len(fetched[t]) < Len(SecretKeys)
  /\ \E v \in past[tenant[t]] :
       fetched' = [fetched EXCEPT ![t] = Append(@, v[SecretKeys[Len(@) + 1]])]
  /\ UNCHANGED <<vaultVars, cache, built, pc, kind, about, tenant, left, using,
                 warm, requests, touched, replies>>

(* One GET of the vault: the next secret, or nothing for a 404.            *)
FetchSecret(t) ==
  /\ pc[t] = "fetch"
  /\ Len(fetched[t]) < Len(SecretKeys)
  /\ fetched' = [fetched EXCEPT ![t] =
       Append(@, vault[tenant[t]][SecretKeys[Len(@) + 1]])]
  /\ UNCHANGED <<vaultVars, cache, built, pc, kind, about, tenant, left, using,
                 warm, requests, touched, replies>>

(* The vault cannot be reached, or denies the secret.                      *)
VaultFails(t) ==
  /\ pc[t] = "fetch"
  /\ Len(fetched[t]) < Len(SecretKeys)
  /\ NoBackend(t, "refused")
  /\ UNCHANGED cache

HasAll(t) ==
  /\ Len(fetched[t]) = Len(SecretKeys)
  /\ \A i \in DOMAIN fetched[t] : fetched[t][i] # Missing

(* "No Odoo credentials provisioned".                                      *)
Unprovisioned(t) ==
  /\ pc[t] = "fetch"
  /\ Len(fetched[t]) = Len(SecretKeys)
  /\ ~HasAll(t)
  /\ NoBackend(t, "refused")
  /\ UNCHANGED cache

(* The credentials t fetched, by name.                                     *)
Creds(t) ==
  [k \in Secrets |->
     fetched[t][CHOOSE i \in DOMAIN SecretKeys : SecretKeys[i] = k]]

(* The client is made and cached, over another thread's if need be.        *)
Build(t) ==
  /\ HasAll(t)
  /\ Goto(t, "fetch", "call")
  /\ LET c == [owner |-> tenant[t], creds |-> Creds(t)] IN
     /\ cache' = [cache EXCEPT ![tenant[t]] = c]
     /\ using' = [using EXCEPT ![t] = c]
  /\ built' = [built EXCEPT ![tenant[t]] = @ + 1]
  /\ fetched' = [fetched EXCEPT ![t] = << >>]
  /\ warm' = [warm EXCEPT ![t] = TRUE]
  /\ UNCHANGED <<vaultVars, kind, about, tenant, left, requests, touched,
                 replies>>

(* The call itself; the next one of this request is routed afresh.         *)
Delegate(t) ==
  /\ Goto(t, "call", "handler")
  /\ touched' = touched \cup {[ws |-> about[t], client |-> using[t]]}
  /\ left' = [left EXCEPT ![t] = @ - 1]
  /\ using' = [using EXCEPT ![t] = NoClient]
  /\ UNCHANGED <<vaultVars, cache, built, kind, about, tenant, fetched, warm,
                 requests, replies>>

(* The handler answers; it has tried at least one call of the client.      *)
Finish(t) ==
  /\ pc[t] = "handler" /\ left[t] < MaxCalls
  /\ Reply(t, "served")
  /\ UNCHANGED cache

(* The operator stores a secret: a first version, or the next.             *)
Rotate(w, k) ==
  /\ vault[w][k] < MaxVersions /\ stores < MaxStores
  /\ CalmVault => \A t \in Threads : ~(pc[t] = "fetch" /\ tenant[t] = w)
  /\ vault' = [vault EXCEPT ![w][k] = @ + 1]
  /\ past' = [past EXCEPT ![w] = @ \cup {vault'[w]}]
  /\ stores' = stores + 1
  /\ UNCHANGED <<cache, built, threadVars, requests, touched, replies>>

Serve(t) ==
  \/ Unrouted(t) \/ CacheHit(t) \/ CacheMiss(t)
  \/ FetchSecret(t) \/ VaultFails(t) \/ Unprovisioned(t) \/ Build(t)
  \/ Delegate(t) \/ Finish(t)

Next ==
  \/ \E t \in Threads :
       Serve(t) \/ \E w \in Workspaces, k \in Kinds : Arrive(t, w, k)
  \/ \E w \in Workspaces, k \in Secrets : Rotate(w, k)

Spec == Init /\ [][Next]_vars

-----------------------------------------------------------------------------
TypeOK ==
  /\ vault \in [Workspaces -> [Secrets -> Versions]]
  /\ past \in [Workspaces -> SUBSET [Secrets -> Versions]]
  /\ stores \in 0 .. MaxStores
  /\ cache \in [Workspaces -> Client \cup {NoClient}]
  /\ built \in [Workspaces -> Nat]
  /\ pc \in [Threads -> Places]
  /\ kind \in [Threads -> Kinds]
  /\ about \in [Threads -> Workspaces \cup {NoWorkspace}]
  /\ tenant \in [Threads -> Workspaces \cup {NoWorkspace}]
  /\ left \in [Threads -> 0 .. MaxCalls]
  /\ fetched \in [Threads -> Seq(Versions)]
  /\ using \in [Threads -> Client \cup {NoClient}]
  /\ warm \in [Threads -> BOOLEAN]
  /\ requests \in 0 .. MaxRequests
  /\ touched \subseteq [ws : Workspaces, client : Client]
  /\ replies \subseteq [kind : Kinds, warm : BOOLEAN,
                        outcome : {"served", "refused", "unrouted"}]

(* "Fails closed with a clear SystemError - never silently touches another *)
(* tenant's backend": a call made for a workspace goes to that workspace's *)
(* client or nowhere, whatever the thread served before.                   *)
OwnBackend == \A x \in touched : x.client.owner = x.ws

(* A client's four credentials belong together: they were in the vault at  *)
(* one moment, all of them provisioned.  Claimed while nobody rotates      *)
(* during a look-up: the look-up is four separate reads.                   *)
WholeCredentials ==
  CalmVault => \A x \in touched :
    x.client.creds \in past[x.ws] /\ \A k \in Secrets : x.client.creds[k] # Missing

(* "Built once and cached": a workspace's clients are as many as threads   *)
(* that could miss the cache together, however many requests there are.    *)
ClientsBounded == \A w \in Workspaces : built[w] <= Cardinality(Threads)

(* A workspace that has a client does without the vault: a request that has *)
(* seen it is served, though the vault fails and others are looking.       *)
CachedIsServed ==
  \A r \in replies : r.kind = "governed" /\ r.warm => r.outcome = "served"

(* The docstring counts STATUS among the requests that set the workspace:  *)
(* asked about a key, it must reach a backend.                             *)
StatusIsRouted == \A r \in replies : r.kind = "status" => r.outcome # "unrouted"
=============================================================================
