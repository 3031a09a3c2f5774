------------------------- MODULE TenantRoutingProofs ------------------------
(***************************************************************************)
(* Proofs about TenantRouting, for every number of threads, workspaces,    *)
(* secrets, versions, requests and calls.                                  *)
(***************************************************************************)
EXTENDS TenantRouting, FiniteSetTheorems, TLAPS

(* Where a thread is says whom it serves: a thread that asks the vault or  *)
(* calls a client has a binding, its request's own, and a call to make.    *)
Bound ==
  \A t \in Threads :
    /\ pc[t] = "idle" => tenant[t] = NoWorkspace /\ ~warm[t]
    /\ pc[t] # "idle" => about[t] \in Workspaces
    /\ tenant[t] \in {NoWorkspace, about[t]}
    /\ pc[t] # "idle" /\ kind[t] = "governed" => tenant[t] = about[t]
    /\ pc[t] \in {"fetch", "call"} => tenant[t] \in Workspaces /\ left[t] \in 1 .. MaxCalls
    /\ pc[t] = "call" => using[t] \in Client /\ using[t].owner = about[t]

(* A workspace's place in the cache holds a client of that workspace.      *)
Owned == \A w \in Workspaces : cache[w] # NoClient => cache[w].owner = w

Inv == TypeOK /\ Bound /\ Owned

LEMMA CredsType ==
  ASSUME TypeOK, NEW t \in Threads, HasAll(t)
  PROVE  /\ Creds(t) \in [Secrets -> Versions]
         /\ \A k \in Secrets : Creds(t)[k] # Missing
<1>1. fetched[t] \in Seq(Versions) /\ DOMAIN fetched[t] = DOMAIN SecretKeys
  BY BoundsAssumption DEF TypeOK, HasAll
<1> SUFFICES ASSUME NEW k \in Secrets
             PROVE  Creds(t)[k] \in Versions /\ Creds(t)[k] # Missing
  BY DEF Creds
<1> DEFINE n == CHOOSE i \in DOMAIN SecretKeys : SecretKeys[i] = k
<1>2. n \in DOMAIN SecretKeys
  BY DEF Secrets
<1>3. fetched[t][n] \in Versions /\ fetched[t][n] # Missing
  BY <1>1, <1>2 DEF HasAll
<1> QED BY <1>3 DEF Creds

LEMMA InitInv == Init => Inv
BY BoundsAssumption
   DEF Init, Inv, TypeOK, Bound, Owned, NoSecrets, Versions, Missing, Places, Kinds

(* What every reply leaves in order.                                       *)
LEMMA NoBackendInv ==
  ASSUME Inv, NEW t \in Threads, pc[t] # "idle", left[t] \in 1 .. MaxCalls,
         NEW o \in {"unrouted", "refused"},
         NoBackend(t, o), UNCHANGED cache
  PROVE  Inv'
<1>1. CASE Reply(t, o)
  <2>1. TypeOK'
    BY <1>1, BoundsAssumption
       DEF Inv, TypeOK, Reply, Leave, vaultVars, Places, Kinds, Versions
  <2> QED BY <1>1, <2>1 DEF Inv, TypeOK, Bound, Owned, Reply, Leave, vaultVars
<1>2. CASE ~Reply(t, o)
  <2>1. /\ pc' = [pc EXCEPT ![t] = "handler"]
        /\ left' = [left EXCEPT ![t] = @ - 1]
        /\ fetched' = [fetched EXCEPT ![t] = << >>]
        /\ UNCHANGED <<vault, past, stores, built, kind, about, tenant, using,
                       warm, requests, touched, replies, cache>>
    BY <1>2 DEF NoBackend, vaultVars
  <2>2. left[t] - 1 \in 0 .. MaxCalls /\ << >> \in Seq(Versions)
    BY BoundsAssumption
  <2>3. TypeOK'
    BY <2>1, <2>2 DEF Inv, TypeOK, Places
  <2> QED BY <2>1, <2>3 DEF Inv, TypeOK, Bound, Owned
<1> QED BY <1>1, <1>2

LEMMA StepInv == Inv /\ [Next]_vars => Inv'
<1> SUFFICES ASSUME Inv, [Next]_vars PROVE Inv'
  OBVIOUS
<1> USE BoundsAssumption
<1>1. ASSUME NEW t \in Threads, NEW w \in Workspaces, NEW k \in Kinds, Arrive(t, w, k)
      PROVE  Inv'
  BY <1>1, NamesAssumption
     DEF Inv, TypeOK, Bound, Owned, Arrive, Goto, vaultVars, Places, Kinds
<1>2. ASSUME NEW t \in Threads, Unrouted(t) PROVE Inv'
  <2>1. pc[t] # "idle" /\ left[t] \in 1 .. MaxCalls
    BY <1>2 DEF Inv, TypeOK, Unrouted
  <2> QED BY <1>2, <2>1, NoBackendInv DEF Unrouted
<1>3. ASSUME NEW t \in Threads, CacheHit(t) PROVE Inv'
  BY <1>3 DEF Inv, TypeOK, Bound, Owned, CacheHit, Goto, vaultVars, Places
<1>4. ASSUME NEW t \in Threads, CacheMiss(t) PROVE Inv'
  BY <1>4 DEF Inv, TypeOK, Bound, Owned, CacheMiss, Goto, vaultVars, Places
<1>5. ASSUME NEW t \in Threads, FetchSecret(t) PROVE Inv'
  <2> DEFINE n == Len(fetched[t]) + 1
  <2>0. tenant[t] \in Workspaces /\ n \in DOMAIN SecretKeys
    BY <1>5 DEF Inv, TypeOK, Bound, FetchSecret
  <2>1. vault[tenant[t]][SecretKeys[n]] \in Versions
    <3>1. SecretKeys[n] \in Secrets
      BY <2>0 DEF Secrets
    <3>2. vault[tenant[t]] \in [Secrets -> Versions]
      BY <2>0 DEF Inv, TypeOK
    <3> QED BY <3>1, <3>2
  <2>2. fetched' \in [Threads -> Seq(Versions)]
    BY <1>5, <2>1 DEF Inv, TypeOK, FetchSecret
  <2> QED BY <1>5, <2>2 DEF Inv, TypeOK, Bound, Owned, FetchSecret, vaultVars
<1>6. ASSUME NEW t \in Threads, VaultFails(t) PROVE Inv'
  <2>1. pc[t] # "idle" /\ left[t] \in 1 .. MaxCalls
    BY <1>6 DEF Inv, Bound, VaultFails
  <2> QED BY <1>6, <2>1, NoBackendInv DEF VaultFails
<1>7. ASSUME NEW t \in Threads, Unprovisioned(t) PROVE Inv'
  <2>1. pc[t] # "idle" /\ left[t] \in 1 .. MaxCalls
    BY <1>7 DEF Inv, Bound, Unprovisioned
  <2> QED BY <1>7, <2>1, NoBackendInv DEF Unprovisioned
<1>8. ASSUME NEW t \in Threads, Build(t) PROVE Inv'
  <2> DEFINE c == [owner |-> tenant[t], creds |-> Creds(t)]
  <2>1. c \in Client /\ c.owner = tenant[t] /\ c.owner = about[t]
    BY <1>8, CredsType, NamesAssumption DEF Inv, Bound, Build, Goto, Client
  <2>2. /\ cache' = [cache EXCEPT ![tenant[t]] = c]
        /\ using' = [using EXCEPT ![t] = c]
    BY <1>8 DEF Build
  <2> HIDE DEF c
  <2> QED BY <1>8, <2>1, <2>2 DEF Inv, TypeOK, Bound, Owned, Build, Goto, vaultVars, Places
<1>9. ASSUME NEW t \in Threads, Delegate(t) PROVE Inv'
  <2>1. [ws |-> about[t], client |-> using[t]] \in [ws : Workspaces, client : Client]
    BY <1>9 DEF Inv, Bound, Delegate, Goto
  <2> QED BY <1>9, <2>1 DEF Inv, TypeOK, Bound, Owned, Delegate, Goto, vaultVars, Places
<1>10. ASSUME NEW t \in Threads, Finish(t) PROVE Inv'
  <2>1. TypeOK'
    BY <1>10 DEF Inv, TypeOK, Finish, Reply, Leave, vaultVars, Places, Kinds, Versions
  <2> QED BY <1>10, <2>1
          DEF Inv, TypeOK, Bound, Owned, Finish, Reply, Leave, vaultVars
<1>11. ASSUME NEW w \in Workspaces, NEW k \in Secrets, Rotate(w, k) PROVE Inv'
  <2>1. vault' \in [Workspaces -> [Secrets -> Versions]]
    BY <1>11 DEF Inv, TypeOK, Rotate, Versions, Missing
  <2>2. past' \in [Workspaces -> SUBSET [Secrets -> Versions]]
    <3>1. vault'[w] \in [Secrets -> Versions]
      BY <2>1
    <3>2. past' = [past EXCEPT ![w] = @ \cup {vault'[w]}]
      BY <1>11 DEF Rotate
    <3>3. past \in [Workspaces -> SUBSET [Secrets -> Versions]]
      BY DEF Inv, TypeOK
    <3> HIDE <1>11
    <3> QED BY <3>1, <3>2, <3>3
  <2>3. stores' \in 0 .. MaxStores
    BY <1>11 DEF Inv, TypeOK, Rotate
  <2> QED BY <1>11, <2>1, <2>2, <2>3
          DEF Inv, TypeOK, Bound, Owned, Rotate, threadVars
<1>12. CASE UNCHANGED vars
  BY <1>12 DEF Inv, TypeOK, Bound, Owned, vars, vaultVars, threadVars
<1> QED
  BY <1>1, <1>2, <1>3, <1>4, <1>5, <1>6, <1>7, <1>8, <1>9, <1>10, <1>11, <1>12
     DEF Next, Serve

LEMMA Invariance == Spec => []Inv
<1> QED BY InitInv, StepInv, PTL DEF Spec

(* The types, for every number of threads, workspaces and versions.        *)
THEOREM TypeCorrect == Spec => []TypeOK
<1>1. Inv => TypeOK
  BY DEF Inv
<1> QED BY <1>1, Invariance, PTL

-----------------------------------------------------------------------------
(* A call made for a workspace reaches that workspace's client or none: a  *)
(* thread that calls holds a client whose owner its request is about.      *)
THEOREM OwnBackendAlways == Spec => []OwnBackend
<1>1. Init => OwnBackend
  BY DEF Init, OwnBackend
<1>2. Inv /\ OwnBackend /\ [Next]_vars => OwnBackend'
  <2> SUFFICES ASSUME Inv, OwnBackend, [Next]_vars PROVE OwnBackend'
    OBVIOUS
  <2>1. ASSUME NEW t \in Threads, Delegate(t) PROVE OwnBackend'
    BY <2>1 DEF Inv, Bound, OwnBackend, Delegate, Goto
  <2>2. CASE UNCHANGED touched
    BY <2>2 DEF OwnBackend
  <2> QED
    BY <2>1, <2>2
       DEF Next, Serve, vars, Arrive, Unrouted, CacheHit, CacheMiss, FetchSecret,
           VaultFails, Unprovisioned, Build, Finish, Rotate, NoBackend, Reply
<1> QED BY <1>1, <1>2, Invariance, PTL DEF Spec

-----------------------------------------------------------------------------
(* A workspace is built as many clients as threads were asking the vault   *)
(* for it when its first one was cached: no thread begins to ask after.    *)
Asking(w) == {t \in Threads : pc[t] = "fetch" /\ tenant[t] = w}

FewBuilt ==
  \A w \in Workspaces :
    IF cache[w] = NoClient THEN built[w] = 0
    ELSE built[w] + Cardinality(Asking(w)) <= Cardinality(Threads)

LEMMA AskingFinite ==
  ASSUME NEW w
  PROVE  /\ IsFiniteSet(Asking(w))
         /\ Cardinality(Asking(w)) \in Nat
         /\ Cardinality(Asking(w)) <= Cardinality(Threads)
         /\ Cardinality(Threads) \in Nat
BY ThreadsAssumption, FS_Subset, FS_CardinalityType DEF Asking

(* Fewer threads asking and as many clients: the bound is kept.            *)
LEMMA FewerAsking ==
  ASSUME Inv, FewBuilt, UNCHANGED <<cache, built>>,
         \A w \in Workspaces : cache[w] # NoClient => Asking(w)' \subseteq Asking(w)
  PROVE  FewBuilt'
<1> SUFFICES ASSUME NEW w \in Workspaces, cache[w] # NoClient
             PROVE  built[w] + Cardinality(Asking(w)') <= Cardinality(Threads)
  BY DEF FewBuilt
<1>1. Cardinality(Asking(w)') <= Cardinality(Asking(w)) /\ Cardinality(Asking(w)') \in Nat
  BY AskingFinite, FS_Subset, FS_CardinalityType
<1> QED BY <1>1, AskingFinite DEF FewBuilt, Inv, TypeOK

LEMMA BuildFew ==
  ASSUME Inv, FewBuilt, NEW t \in Threads, Build(t)
  PROVE  FewBuilt'
<1>0. PICK w \in Workspaces : w = tenant[t]
  BY DEF Inv, Bound, Build, Goto
<1>1. w \in Workspaces /\ t \in Asking(w)
  BY <1>0 DEF Build, Goto, Asking
<1>2. /\ Asking(w)' = Asking(w) \ {t}
      /\ \A v \in Workspaces \ {w} : Asking(v)' = Asking(v)
  BY <1>0 DEF Inv, TypeOK, Build, Goto, Asking
<1>3. Cardinality(Asking(w)') = Cardinality(Asking(w)) - 1
  BY <1>1, <1>2, AskingFinite, FS_RemoveElement
<1>4. /\ cache'[w] # NoClient /\ built'[w] = built[w] + 1
      /\ \A v \in Workspaces \ {w} : cache'[v] = cache[v] /\ built'[v] = built[v]
  BY <1>0, CredsType, NoClientAssumption DEF Inv, TypeOK, Build, Client
<1>5. built'[w] + Cardinality(Asking(w)') <= Cardinality(Threads)
  <2>1. built[w] \in Nat
    BY <1>1 DEF Inv, TypeOK
  <2>2. built[w] + Cardinality(Asking(w)) <= Cardinality(Threads)
    BY <1>1, <2>1, AskingFinite DEF FewBuilt
  <2> QED BY <1>3, <1>4, <2>1, <2>2, AskingFinite
<1>6. ASSUME NEW v \in Workspaces
      PROVE  IF cache'[v] = NoClient THEN built'[v] = 0
             ELSE built'[v] + Cardinality(Asking(v)') <= Cardinality(Threads)
  <2>1. CASE v = w
    BY <1>4, <1>5, <2>1
  <2>2. CASE v # w
    <3>1. cache'[v] = cache[v] /\ built'[v] = built[v] /\ Asking(v)' = Asking(v)
      BY <1>2, <1>4, <2>2
    <3>2. IF cache[v] = NoClient THEN built[v] = 0
          ELSE built[v] + Cardinality(Asking(v)) <= Cardinality(Threads)
      BY DEF FewBuilt
    <3> QED BY <3>1, <3>2
  <2> QED BY <2>1, <2>2
<1> QED BY <1>6 DEF FewBuilt

(* "Built once and cached": never more clients of a workspace than threads *)
(* that could miss the cache together, for any number of requests.         *)
THEOREM ClientsBoundedAlways == Spec => []ClientsBounded
<1>1. Init => FewBuilt
  BY DEF Init, FewBuilt
<1>2. Inv /\ FewBuilt /\ [Next]_vars => FewBuilt'
  <2> SUFFICES ASSUME Inv, FewBuilt, [Next]_vars PROVE FewBuilt'
    OBVIOUS
  <2>1. ASSUME NEW t \in Threads, Build(t) PROVE FewBuilt'
    BY <2>1, BuildFew
  <2>2. ASSUME NEW t \in Threads, CacheMiss(t) PROVE FewBuilt'
    <3>1. \A w \in Workspaces : cache[w] # NoClient => Asking(w)' \subseteq Asking(w)
      BY <2>2 DEF Inv, TypeOK, CacheMiss, Goto, Asking
    <3> QED BY <2>2, <3>1, FewerAsking DEF CacheMiss
  <2>3. ASSUME NEW t \in Threads,
               \/ Unrouted(t) \/ CacheHit(t) \/ FetchSecret(t) \/ VaultFails(t)
               \/ Unprovisioned(t) \/ Delegate(t) \/ Finish(t)
               \/ \E w \in Workspaces, k \in Kinds : Arrive(t, w, k)
        PROVE  FewBuilt'
    <3>1. UNCHANGED <<cache, built>>
      BY <2>3 DEF Unrouted, CacheHit, FetchSecret, VaultFails, Unprovisioned,
                  Delegate, Finish, Arrive, NoBackend, Reply
    <3>2. /\ \A u \in Threads \ {t} : pc'[u] = pc[u] /\ tenant'[u] = tenant[u]
          /\ pc'[t] = "fetch" => pc[t] = "fetch" /\ tenant'[t] = tenant[t]
      BY <2>3 DEF Inv, TypeOK, Unrouted, CacheHit, FetchSecret, VaultFails,
                  Unprovisioned, Delegate, Finish, Arrive, NoBackend, Reply, Leave, Goto
    <3>3. \A w \in Workspaces : Asking(w)' \subseteq Asking(w)
      BY <3>2 DEF Asking
    <3> QED BY <3>1, <3>3, FewerAsking
  <2>4. ASSUME NEW w \in Workspaces, NEW k \in Secrets, Rotate(w, k) PROVE FewBuilt'
    BY <2>4, FewerAsking DEF Rotate, threadVars, Asking
  <2>5. CASE UNCHANGED vars
    BY <2>5, FewerAsking DEF vars, threadVars, Asking
  <2> QED BY <2>1, <2>2, <2>3, <2>4, <2>5 DEF Next, Serve
<1>3. Inv /\ FewBuilt => ClientsBounded
  <2> SUFFICES ASSUME Inv, FewBuilt, NEW w \in Workspaces
               PROVE  built[w] <= Cardinality(Threads)
    BY DEF ClientsBounded
  <2>1. built[w] \in Nat
    BY DEF Inv, TypeOK
  <2> QED BY <2>1, AskingFinite DEF FewBuilt
<1> QED BY <1>1, <1>2, <1>3, Invariance, PTL DEF Spec

-----------------------------------------------------------------------------
(* A governed request that has seen its workspace's client: the client is  *)
(* still cached, so the request is not, and will not be, asking the vault. *)
WarmInv ==
  \A t \in Threads :
    kind[t] = "governed" /\ warm[t] => pc[t] # "fetch" /\ cache[about[t]] # NoClient

LEMMA WarmStep ==
  ASSUME Inv, WarmInv, [Next]_vars
  PROVE  WarmInv'
<1>1. ASSUME NEW t \in Threads, Build(t) PROVE WarmInv'
  <2>1. cache'[about[t]] # NoClient /\ about[t] \in Workspaces
    BY <1>1, CredsType, NoClientAssumption, NamesAssumption
       DEF Inv, TypeOK, Bound, Build, Goto, Client
  <2>2. \A w \in Workspaces : cache[w] # NoClient => cache'[w] # NoClient
    BY <1>1, CredsType, NoClientAssumption DEF Inv, TypeOK, Bound, Build, Goto, Client
  <2>3. \A u \in Threads : pc[u] = "idle" => ~warm[u]
    BY DEF Inv, Bound
  <2> QED BY <1>1, <2>1, <2>2, <2>3 DEF Inv, TypeOK, Bound, WarmInv, Build, Goto
<1>2. ASSUME NEW t \in Threads, CacheMiss(t) PROVE WarmInv'
  BY <1>2 DEF Inv, TypeOK, Bound, WarmInv, CacheMiss, Goto
<1>3. ASSUME NEW t \in Threads, CacheHit(t) PROVE WarmInv'
  BY <1>3 DEF Inv, TypeOK, Bound, WarmInv, CacheHit, Goto
<1>4. ASSUME NEW t \in Threads, \E w \in Workspaces, k \in Kinds : Arrive(t, w, k)
      PROVE  WarmInv'
  BY <1>4 DEF Inv, TypeOK, Bound, WarmInv, Arrive, Goto
<1>5. ASSUME NEW t \in Threads, Unrouted(t) \/ VaultFails(t) \/ Unprovisioned(t)
      PROVE  WarmInv'
  <2>1. UNCHANGED cache /\ \E o \in {"unrouted", "refused"} : NoBackend(t, o)
    BY <1>5 DEF Unrouted, VaultFails, Unprovisioned
  <2>2. PICK o \in {"unrouted", "refused"} : NoBackend(t, o)
    BY <2>1
  <2>3. CASE Reply(t, o)
    BY <2>1, <2>3 DEF Inv, TypeOK, WarmInv, Reply, Leave
  <2>4. CASE ~Reply(t, o)
    <3>1. pc' = [pc EXCEPT ![t] = "handler"] /\ UNCHANGED <<kind, about, warm>>
      BY <2>2, <2>4 DEF NoBackend, Goto
    <3> QED BY <2>1, <3>1 DEF Inv, TypeOK, WarmInv
  <2> QED BY <2>3, <2>4
<1>6. ASSUME NEW t \in Threads, FetchSecret(t) \/ Delegate(t) \/ Finish(t) PROVE WarmInv'
  BY <1>6 DEF Inv, TypeOK, Bound, WarmInv, FetchSecret, Delegate, Finish, Reply,
              Leave, Goto
<1>7. ASSUME NEW w \in Workspaces, NEW k \in Secrets, Rotate(w, k) PROVE WarmInv'
  BY <1>7 DEF WarmInv, Rotate, threadVars
<1>8. CASE UNCHANGED vars
  BY <1>8 DEF WarmInv, vars, threadVars
<1> QED BY <1>1, <1>2, <1>3, <1>4, <1>5, <1>6, <1>7, <1>8 DEF Next, Serve

(* A request that has seen its workspace's client is served: neither the   *)
(* vault's failures nor other threads' look-ups can turn it away.          *)
THEOREM CachedIsServedAlways == Spec => []CachedIsServed
<1>1. Init => WarmInv /\ CachedIsServed
  BY DEF Init, WarmInv, CachedIsServed
<1>2. Inv /\ WarmInv /\ CachedIsServed /\ [Next]_vars => CachedIsServed'
  <2> SUFFICES ASSUME Inv, WarmInv, CachedIsServed, [Next]_vars PROVE CachedIsServed'
    OBVIOUS
  <2>1. ASSUME NEW t \in Threads, Unrouted(t) PROVE CachedIsServed'
    <3>1. ~(kind[t] = "governed" /\ warm[t])
      BY <2>1, NamesAssumption DEF Inv, Bound, Unrouted
    <3> QED BY <2>1, <3>1 DEF CachedIsServed, Unrouted, NoBackend, Reply
  <2>2. ASSUME NEW t \in Threads, VaultFails(t) \/ Unprovisioned(t)
        PROVE  CachedIsServed'
    <3>1. ~(kind[t] = "governed" /\ warm[t])
      BY <2>2 DEF WarmInv, VaultFails, Unprovisioned
    <3> QED BY <2>2, <3>1
            DEF CachedIsServed, VaultFails, Unprovisioned, NoBackend, Reply
  <2>3. ASSUME NEW t \in Threads, Finish(t) PROVE CachedIsServed'
    BY <2>3 DEF CachedIsServed, Finish, Reply
  <2>4. CASE UNCHANGED replies
    BY <2>4 DEF CachedIsServed
  <2> QED
    BY <2>1, <2>2, <2>3, <2>4
       DEF Next, Serve, vars, Arrive, CacheHit, CacheMiss, FetchSecret, Build,
           Delegate, Rotate
<1>3. Inv /\ WarmInv /\ [Next]_vars => WarmInv'
  BY WarmStep
<1> QED BY <1>1, <1>2, <1>3, Invariance, PTL DEF Spec

-----------------------------------------------------------------------------
(* Credentials that were in the vault together, all of them provisioned.   *)
Good(c, w) == c.creds \in past[w] /\ \A k \in Secrets : c.creds[k] # Missing

(* What a thread has fetched is still what the vault holds, so what it     *)
(* builds from it was there at one moment; and so for every client made.   *)
CredsInv ==
  /\ \A w \in Workspaces : vault[w] \in past[w]
  /\ \A t \in Threads :
       /\ pc[t] # "fetch" => fetched[t] = << >>
       /\ pc[t] = "fetch" =>
            \A i \in DOMAIN fetched[t] :
              i \in DOMAIN SecretKeys => fetched[t][i] = vault[tenant[t]][SecretKeys[i]]
       /\ pc[t] = "call" => Good(using[t], about[t])
  /\ \A w \in Workspaces : cache[w] # NoClient => Good(cache[w], w)
  /\ \A x \in touched : Good(x.client, x.ws)

LEMMA CredsAreTheVaults ==
  ASSUME Inv, CredsInv, NEW t \in Threads, pc[t] = "fetch", HasAll(t)
  PROVE  Creds(t) = vault[tenant[t]]
<1>1. tenant[t] \in Workspaces /\ vault[tenant[t]] \in [Secrets -> Versions]
  BY DEF Inv, Bound, TypeOK
<1>2. DOMAIN fetched[t] = DOMAIN SecretKeys
  BY BoundsAssumption DEF Inv, TypeOK, HasAll
<1>3. ASSUME NEW k \in Secrets PROVE Creds(t)[k] = vault[tenant[t]][k]
  <2> DEFINE n == CHOOSE i \in DOMAIN SecretKeys : SecretKeys[i] = k
  <2>1. n \in DOMAIN SecretKeys /\ SecretKeys[n] = k
    BY DEF Secrets
  <2>2. fetched[t][n] = vault[tenant[t]][k]
    BY <1>2, <2>1 DEF CredsInv
  <2> QED BY <2>2 DEF Creds
<1> QED BY <1>1, <1>3 DEF Creds

LEMMA CredsStep ==
  ASSUME Inv, CredsInv, [Next]_vars, CalmVault
  PROVE  CredsInv'
<1>1. ASSUME NEW t \in Threads, Build(t) PROVE CredsInv'
  <2> DEFINE c == [owner |-> tenant[t], creds |-> Creds(t)]
  <2>1. /\ tenant[t] \in Workspaces /\ tenant[t] = about[t]
        /\ Good(c, tenant[t])
    BY <1>1, CredsAreTheVaults, CredsType, NamesAssumption
       DEF Inv, Bound, CredsInv, Good, Build, Goto
  <2>2. /\ cache' = [cache EXCEPT ![tenant[t]] = c]
        /\ using' = [using EXCEPT ![t] = c]
        /\ pc' = [pc EXCEPT ![t] = "call"]
        /\ fetched' = [fetched EXCEPT ![t] = << >>]
        /\ UNCHANGED <<vault, past, about, tenant, touched>>
    BY <1>1 DEF Build, Goto, vaultVars
  <2> HIDE DEF c
  <2> QED BY <2>1, <2>2 DEF Inv, TypeOK, CredsInv, Good
<1>2. ASSUME NEW t \in Threads, FetchSecret(t) PROVE CredsInv'
  <2> DEFINE n == Len(fetched[t]) + 1
  <2>1. /\ fetched' = [fetched EXCEPT ![t] =
              Append(fetched[t], vault[tenant[t]][SecretKeys[n]])]
        /\ pc[t] = "fetch"
        /\ UNCHANGED <<vault, past, cache, pc, about, tenant, using, touched>>
    BY <1>2 DEF FetchSecret, vaultVars
  <2>2. ASSUME NEW i \in DOMAIN fetched'[t], i \in DOMAIN SecretKeys
        PROVE  fetched'[t][i] = vault[tenant[t]][SecretKeys[i]]
    <3>1. fetched[t] \in Seq(Versions)
      BY DEF Inv, TypeOK
    <3>2. fetched'[t] = Append(fetched[t], vault[tenant[t]][SecretKeys[n]])
      BY <2>1 DEF Inv, TypeOK
    <3>3. i \in DOMAIN fetched[t] => fetched[t][i] = vault[tenant[t]][SecretKeys[i]]
      BY <2>1, <2>2 DEF CredsInv
    <3> QED BY <2>2, <3>1, <3>2, <3>3
  <2> QED BY <2>1, <2>2 DEF Inv, TypeOK, CredsInv, Good
<1>3. ASSUME NEW t \in Threads, CacheHit(t) PROVE CredsInv'
  BY <1>3, NamesAssumption DEF Inv, TypeOK, Bound, CredsInv, Good, CacheHit, Goto, vaultVars
<1>4. ASSUME NEW t \in Threads, CacheMiss(t) PROVE CredsInv'
  BY <1>4 DEF Inv, TypeOK, CredsInv, Good, CacheMiss, Goto, vaultVars
<1>5. ASSUME NEW t \in Threads, NEW w \in Workspaces, NEW k \in Kinds, Arrive(t, w, k)
      PROVE  CredsInv'
  BY <1>5 DEF Inv, TypeOK, CredsInv, Good, Arrive, Goto, vaultVars
<1>6. ASSUME NEW t \in Threads, Unrouted(t) \/ VaultFails(t) \/ Unprovisioned(t)
      PROVE  CredsInv'
  <2>1. /\ UNCHANGED <<vault, past, cache, touched>>
        /\ fetched' = [fetched EXCEPT ![t] = << >>]
        /\ \/ pc' = [pc EXCEPT ![t] = "idle"]
           \/ pc' = [pc EXCEPT ![t] = "handler"]
        /\ \A u \in Threads \ {t} :
             about'[u] = about[u] /\ tenant'[u] = tenant[u] /\ using'[u] = using[u]
    BY <1>6 DEF Inv, TypeOK, Unrouted, VaultFails, Unprovisioned, NoBackend, Reply,
                Leave, vaultVars
  <2> QED BY <2>1 DEF Inv, TypeOK, CredsInv, Good
<1>7. ASSUME NEW t \in Threads, Delegate(t) PROVE CredsInv'
  BY <1>7 DEF Inv, TypeOK, CredsInv, Good, Delegate, Goto, vaultVars
<1>8. ASSUME NEW t \in Threads, Finish(t) PROVE CredsInv'
  BY <1>8 DEF Inv, TypeOK, CredsInv, Good, Finish, Reply, Leave, vaultVars
<1>9. ASSUME NEW w \in Workspaces, NEW k \in Secrets, Rotate(w, k) PROVE CredsInv'
  <2>1. \A t \in Threads : pc[t] = "fetch" => tenant[t] # w
    BY <1>9 DEF Rotate
  <2>2. \A v \in Workspaces : past[v] \subseteq past'[v] /\ vault'[v] \in past'[v]
    BY <1>9 DEF Inv, TypeOK, CredsInv, Rotate
  <2>3. \A v \in Workspaces \ {w} : vault'[v] = vault[v]
    BY <1>9 DEF Inv, TypeOK, Rotate
  <2>4. \A t \in Threads : pc[t] \in {"fetch", "call"} => tenant[t] \in Workspaces
                                                       /\ about[t] \in Workspaces
    BY DEF Inv, Bound
  <2>5. \A x \in touched : x.ws \in Workspaces
    BY DEF Inv, TypeOK
  <2>6. UNCHANGED <<cache, pc, about, tenant, fetched, using, touched>>
    BY <1>9 DEF Rotate, threadVars
  <2> QED BY <2>1, <2>2, <2>3, <2>4, <2>5, <2>6 DEF CredsInv, Good
<1>10. CASE UNCHANGED vars
  BY <1>10 DEF CredsInv, Good, vars, vaultVars, threadVars
<1> QED
  BY <1>1, <1>2, <1>3, <1>4, <1>5, <1>6, <1>7, <1>8, <1>9, <1>10 DEF Next, Serve

(* If nobody rotates during a look-up, a client's credentials were in the  *)
(* vault together and complete, although they are read one at a time.      *)
THEOREM WholeCredentialsAlways == Spec => []WholeCredentials
<1>1. CASE CalmVault
  <2>1. Init => CredsInv
    BY DEF Init, CredsInv
  <2>2. Inv /\ CredsInv /\ [Next]_vars => CredsInv'
    BY <1>1, CredsStep
  <2>3. CredsInv => WholeCredentials
    BY DEF CredsInv, Good, WholeCredentials
  <2> QED BY <2>1, <2>2, <2>3, Invariance, PTL DEF Spec
<1>2. CASE ~CalmVault
  <2>1. WholeCredentials
    BY <1>2 DEF WholeCredentials
  <2> QED BY <2>1, PTL
<1> QED BY <1>1, <1>2
=============================================================================
