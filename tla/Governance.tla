------------------------------ MODULE Governance -----------------------------
(***************************************************************************)
(* What the adapter lets be written: governance.py's tiers, grants and     *)
(* module scope over the packs of packs.py, and what PROPOSE, COMMIT,      *)
(* ROLLBACK and describe (edge.py) make of them.                           *)
(*                                                                         *)
(* A policy is asked at PROPOSE and not again: a proposal keeps its act,   *)
(* an effect keeps its reversal.  Model names are members of a set here;   *)
(* what prefixes and resemblance make of the real names is in constants    *)
(* (Owns, OwnsName, Resembles).  A COMMIT or ROLLBACK may come from any    *)
(* workspace, whichever proposed or committed: ids and tokens are looked   *)
(* up in one table, and the workspace asked about is the envelope's.  The  *)
(* write that a COMMIT asks for succeeds.                                  *)
(***************************************************************************)
EXTENDS Naturals, Sequences, FiniteSets

CONSTANTS
  Tenants,              \* workspaces
  Models,               \* Odoo's models
  Nouns,                \* other names a caller may use for a model
  Groups,               \* module groups
  Packs,                \* groups that come with a pack
  Owns,                 \* group -> models under its prefixes
  OwnsName,             \* pack -> groups under whose prefixes its name falls
  Risky,                \* financial and HR models
  Declared,             \* models the packs declare writable
  PackMethods,          \* pack -> its method grants
  Verbs,                \* curated verbs, with their place in COMPENSATIONS
  Resembles,            \* name -> declared models it is taken for, in order
  Scopes,               \* module scopes an operator may set
  Configs,              \* grants onboarding may configure, entry by entry
  Malformed,            \* an entry without its model, op or method
  MaxProposals,         \* bound
  MaxEffects,           \* bound
  MaxChanges,           \* bound: scope changes and restarts
  None                  \* no scope, no reversal, not granted

Ops == {"create", "update", "delete"}
VerbOps == Ops \cup {"upsert", "method"}
Tiers == {"MEDIUM", "HIGH", "CRITICAL"}
Names == Models \cup Nouns

(* Acts: a generic write, a model's method, a curated verb.                *)
Act(kind, model, op) == [kind |-> kind, model |-> model, op |-> op]
Acts == [kind : {"write"}, model : Models, op : Ops]
        \cup [kind : {"method", "verb"}, model : Models, op : STRING]
MethodsOf(p) == {<<g.model, g.op>> : g \in PackMethods[p]}

ASSUME PolicyAssumption ==
  /\ Packs \subseteq Groups
  /\ DOMAIN Owns = Groups /\ \A g \in Groups : Owns[g] \subseteq Models
  /\ DOMAIN OwnsName = Packs /\ \A p \in Packs : OwnsName[p] \subseteq Groups
  /\ Risky \cup Declared \subseteq Models
  /\ DOMAIN Resembles = Names
  /\ \A n \in Names : Resembles[n] \in Seq(Declared)
  /\ \A p, q \in Packs : p # q => MethodsOf(p) \cap MethodsOf(q) = {}
  /\ None \in Scopes /\ \A s \in Scopes \ {None} : s \subseteq Groups
  /\ {MaxProposals, MaxEffects, MaxChanges} \subseteq Nat

(* An entry of the configuration, once it is complete.                     *)
Entry == [tenant : Tenants, model : Models, op : STRING, tier : Tiers,
          reverse : STRING \cup {None}]

(* What is configured or shipped names models and tiers.                   *)
ASSUME GrantsAssumption ==
  /\ \A c \in Configs : c \in Seq({Malformed} \cup Entry)
  /\ Malformed \notin Entry
  /\ DOMAIN PackMethods = Packs
  /\ \A p \in Packs :
       PackMethods[p] \subseteq [model : Declared, op : STRING, tier : Tiers,
                                reverse : STRING \cup {None}]

(* The verbs: a method alone has an inverse; what the table has for a verb *)
(* is a verb, or for an update a before-image; every upsert is in it.      *)
ASSUME VerbsAssumption ==
  /\ Verbs \subseteq [name : STRING, doctype : Models, tier : Tiers, op : VerbOps,
                     reverse : STRING \cup {None}, table : STRING \cup {None}]
  /\ \A v \in Verbs :
       /\ v.reverse # None => v.op = "method"
       /\ v.op = "upsert" => v.table # None
       /\ \/ v.table = None
          \/ v.table = "before_image" /\ v.op = "update"
          \/ \E u \in Verbs : u.name = v.table

ASSUME NoneAssumption == None \notin Tiers \cup {"before_image"} \cup Acts

VARIABLES
  config,               \* NIL_TENANT_GRANTS
  stage,                \* loading, up, or down (create_app has raised)
  loaded,               \* entries of config applied
  grants,               \* _TENANT_WRITE, _TENANT_METHOD
  scope,                \* _ENABLED_MODULES
  proposals,            \* state.proposals
  effects,              \* what was committed, with its reversal and tier
  changes               \* scope changes and restarts

vars == <<config, stage, loaded, grants, scope, proposals, effects, changes>>
policy == <<config, stage, loaded, grants, scope>>

Init ==
  /\ config \in Configs
  /\ stage = "loading" /\ loaded = 0 /\ grants = {}
  /\ scope = None
  /\ proposals = <<>> /\ effects = <<>>
  /\ changes = 0

-----------------------------------------------------------------------------
(* load_grants_from_env, called by create_app: entry by entry, a later     *)
(* one for the same key in the place of the earlier.                       *)
SameKey(g, h) == g.tenant = h.tenant /\ g.model = h.model /\ g.op = h.op

Granted(gs, g) == {h \in gs : ~SameKey(g, h)} \cup {g}

(* Mutant: a bad entry ends the loading, and the adapter starts.           *)
LoadStops ==
  /\ stage = "loading" /\ loaded < Len(config)
  /\ IF config[loaded + 1] = Malformed
     THEN stage' = "up" /\ UNCHANGED <<grants, loaded>>
     ELSE /\ grants' = Granted(grants, config[loaded + 1])
          /\ loaded' = loaded + 1
          /\ UNCHANGED stage
  /\ UNCHANGED <<config, scope, proposals, effects, changes>>

(* An entry without one of its keys raises, and no app is made.            *)
Load ==
  /\ stage = "loading" /\ loaded < Len(config)
  /\ IF config[loaded + 1] = Malformed
     THEN stage' = "down" /\ UNCHANGED <<grants, loaded>>
     ELSE /\ grants' = Granted(grants, config[loaded + 1])
          /\ loaded' = loaded + 1
          /\ UNCHANGED stage
  /\ UNCHANGED <<config, scope, proposals, effects, changes>>

Start ==
  /\ stage = "loading" /\ loaded = Len(config)
  /\ stage' = "up"
  /\ UNCHANGED <<config, loaded, grants, scope, proposals, effects, changes>>

(* The process is restarted, with what is configured now.                  *)
Restart ==
  /\ changes < MaxChanges
  /\ changes' = changes + 1
  /\ config' \in Configs
  /\ stage' = "loading" /\ loaded' = 0 /\ grants' = {}
  /\ scope' = None
  /\ proposals' = <<>> /\ effects' = <<>>

(* set_enabled_modules.                                                    *)
SetScope(s) ==
  /\ stage = "up" /\ changes < MaxChanges
  /\ changes' = changes + 1
  /\ scope' = s
  /\ UNCHANGED <<config, stage, loaded, grants, proposals, effects>>

-----------------------------------------------------------------------------
(* module_enabled of a model, and of a pack by its name (enabled_packs).   *)
ModuleEnabled(m) == scope = None \/ \E g \in scope : m \in Owns[g]
EnabledPacks == {p \in Packs : scope = None \/ OwnsName[p] \cap scope # {}}

(* Mutant: only what is declared is escalated, not what was granted.       *)
EscalateDeclared(m, op, tier) ==
  IF op = "delete" /\ m \in Risky \cap Declared THEN "CRITICAL" ELSE tier

(* _CRUD_TIERS, and _escalate.                                             *)
CrudTier(op) == IF op = "delete" THEN "HIGH" ELSE "MEDIUM"
Escalate(m, op, tier) == IF op = "delete" /\ m \in Risky THEN "CRITICAL" ELSE tier

GrantsFor(t, m, op) == {g \in grants : g.tenant = t /\ g.model = m /\ g.op = op}
TheGrant(s) == CHOOSE g \in s : TRUE

(* write_tier: the tenant's grant, else the shipped skeleton.              *)
WriteTier(t, m, op) ==
  CASE ~ModuleEnabled(m) -> None
    [] ModuleEnabled(m) /\ GrantsFor(t, m, op) # {} ->
         Escalate(m, op, TheGrant(GrantsFor(t, m, op)).tier)
    [] ModuleEnabled(m) /\ GrantsFor(t, m, op) = {} /\ m \in Declared ->
         Escalate(m, op, CrudTier(op))
    [] OTHER -> None

(* _method_grant: the tenant's, else the enabled packs'.                   *)
MethodGrants(t, m, op) ==
  IF GrantsFor(t, m, op) # {} THEN GrantsFor(t, m, op)
  ELSE UNION {{g \in PackMethods[p] : g.model = m /\ g.op = op} : p \in EnabledPacks}

MethodTier(t, m, op) ==
  IF ModuleEnabled(m) /\ MethodGrants(t, m, op) # {}
  THEN TheGrant(MethodGrants(t, m, op)).tier ELSE None

(* method_reverse: of the same grant, whatever the scope.                  *)
MethodReverse(t, m, op) ==
  IF MethodGrants(t, m, op) = {} \/ TheGrant(MethodGrants(t, m, op)).reverse = None
  THEN None ELSE Act("method", m, TheGrant(MethodGrants(t, m, op)).reverse)

(* writable_targets, which describe() advertises.                          *)
WritableTargets == {m \in Declared : ModuleEnabled(m)}

(* _resolve_target: a writable model as it is; else the first writable one *)
(* that the name resembles; else the name.                                 *)
ResolveTarget(n) ==
  LET alike == SelectSeq(Resembles[n], LAMBDA m : m \in WritableTargets) IN
  IF n \in WritableTargets \/ alike = <<>> THEN n ELSE Head(alike)

-----------------------------------------------------------------------------
(* PROPOSE remembers the resolved target and its tier; a refusal changes   *)
(* nothing.                                                                *)
Remember(t, act, tier, of) ==
  /\ stage = "up" /\ Len(proposals) < MaxProposals
  /\ tier # None
  /\ proposals' = Append(proposals, [tenant |-> t, act |-> act, tier |-> tier, of |-> of])
  /\ UNCHANGED <<policy, effects, changes>>

ProposeWrite(t, n, op) ==
  LET m == ResolveTarget(n) IN
  Remember(t, Act("write", m, op), WriteTier(t, m, op), 0)

ProposeMethod(t, n, op) ==
  LET m == ResolveTarget(n) IN
  Remember(t, Act("method", m, op), MethodTier(t, m, op), 0)

(* A curated verb needs its model in scope, and no grant.                  *)
ProposeVerb(t, v) ==
  Remember(t, Act("verb", v.doctype, v.name),
           IF ModuleEnabled(v.doctype) THEN v.tier ELSE None, 0)

VerbNamed(name) == CHOOSE v \in Verbs : v.name = name

(* A verb's reversal by the table.                                         *)
ByTable(v) == IF v.table = None THEN None
              ELSE Act("verb", VerbNamed(v.table).doctype, v.table)

(* The reversals of a verb: an upsert made a record or changed the one it  *)
(* found, an update may restore its before-image, a method has its inverse.*)
VerbUndos(v) ==
  CASE v.op = "upsert" -> {ByTable(v), Act("write", v.doctype, "update")}
    [] v.op = "update" /\ v.table = "before_image" -> {Act("write", v.doctype, "update")}
    [] v.op = "method" /\ v.reverse # None -> {Act("method", v.doctype, v.reverse)}
    [] OTHER -> {ByTable(v)}

(* What describe() advertises: the writable targets, every verb whatever   *)
(* the scope, and which verbs can be reversed.                             *)
Advertised == [targets |-> WritableTargets, verbs |-> Verbs,
               reversible |-> {v \in Verbs : v.reverse # None \/ v.table # None}]

(* The reversal a COMMIT of workspace t mints a token for, if any: of a    *)
(* generic write the inverse write, of a method the inverse that t's       *)
(* grants name, of a verb its own.                                         *)
Undos(t, p) ==
  CASE p.act.kind = "write" ->
         {Act("write", p.act.model,
              CASE p.act.op = "create" -> "delete"
                [] p.act.op = "update" -> "update"
                [] p.act.op = "delete" -> "create")}
    [] p.act.kind = "method" -> {MethodReverse(t, p.act.model, p.act.op)}
    [] p.act.kind = "verb" -> VerbUndos(VerbNamed(p.act.op))

(* Mutant: the token of a method forgets its tier.                         *)
UndoTierDefault(p, undo) ==
  CASE undo = None -> None
    [] undo # None /\ undo.kind = "write" -> CrudTier(undo.op)
    [] undo # None /\ undo.kind = "method" -> "MEDIUM"
    [] undo # None /\ undo.kind = "verb" -> VerbNamed(undo.op).tier

(* The tier ROLLBACK will preview: of a write by its op, of a method what  *)
(* the act had, of a verb the verb's.                                      *)
UndoTier(p, undo) ==
  CASE undo = None -> None
    [] undo # None /\ undo.kind = "write" -> CrudTier(undo.op)
    [] undo # None /\ undo.kind = "method" -> p.tier
    [] undo # None /\ undo.kind = "verb" -> VerbNamed(undo.op).tier

(* COMMIT, as often as a proposal is committed under a new key, from any   *)
(* workspace t.                                                            *)
Commit(t, i) ==
  /\ stage = "up" /\ Len(effects) < MaxEffects
  /\ \E undo \in Undos(t, proposals[i]) :
     effects' = Append(effects, [prop |-> i, undo |-> undo,
                                 tier |-> UndoTier(proposals[i], undo)])
  /\ UNCHANGED <<policy, proposals, changes>>

(* Mutant: ROLLBACK repeats the act.                                       *)
RollbackAgain(t, i) ==
  /\ effects[i].undo # None
  /\ Remember(t, proposals[effects[i].prop].act, effects[i].tier, i)

(* ROLLBACK: a token becomes a proposal, whatever the policy and whichever *)
(* workspace t presents it.                                                *)
Rollback(t, i) ==
  /\ effects[i].undo # None
  /\ Remember(t, effects[i].undo, effects[i].tier, i)

(* The methods there are grants for, shipped or configured.                *)
ConfiguredIn(c) == {<<c[k].model, c[k].op>> : k \in {k \in DOMAIN c : c[k] # Malformed}}
Methods == (UNION {MethodsOf(p) : p \in Packs}) \cup (UNION {ConfiguredIn(c) : c \in Configs})

Next ==
  \/ Load \/ Start \/ Restart
  \/ \E s \in Scopes : SetScope(s)
  \/ \E t \in Tenants :
       \/ \E n \in Names, op \in Ops : ProposeWrite(t, n, op)
       \/ \E n \in Names : \E op \in {x[2] : x \in Methods} \ Ops : ProposeMethod(t, n, op)
       \/ \E v \in Verbs : ProposeVerb(t, v)
       \/ \E i \in DOMAIN proposals : Commit(t, i)
       \/ \E i \in DOMAIN effects : Rollback(t, i)

Spec == Init /\ [][Next]_vars

-----------------------------------------------------------------------------
TypeOK ==
  /\ config \in Configs
  /\ stage \in {"loading", "up", "down"}
  /\ loaded \in 0 .. Len(config)
  /\ grants \subseteq Entry
  /\ scope \in Scopes
  /\ proposals \in Seq([tenant : Tenants, act : Acts, tier : Tiers, of : Nat])
  /\ effects \in Seq([prop : Nat, undo : Acts \cup {None}, tier : Tiers \cup {None}])
  /\ changes \in 0 .. MaxChanges

(* What onboarding has configured for a tenant: the last entry of a key.   *)
Configured(t, m, op) ==
  \E k \in DOMAIN config :
    config[k] # Malformed /\ config[k].tenant = t /\ config[k].model = m /\ config[k].op = op

(* The methods that a pack grants to every tenant.                         *)
ShippedMethods == UNION {MethodsOf(p) : p \in Packs}

InScope(m) == scope = None \/ \E g \in Groups : m \in Owns[g] /\ g \in scope

(* A generic write is admitted exactly if its model is in scope and either *)
(* declared or configured for this very tenant: default-deny otherwise,    *)
(* no grant leaks to another tenant, and none of a running adapter's       *)
(* configured grants is missing.  A method needs no less, and if it was    *)
(* configured no more.                                                     *)
DecisionIsPolicy ==
  stage = "up" =>
    \A t \in Tenants, m \in Models :
      /\ \A op \in Ops :
           (WriteTier(t, m, op) # None)
             <=> InScope(m) /\ (m \in Declared \/ Configured(t, m, op))
      /\ \A x \in {x \in Methods : x[1] = m /\ x[2] \notin Ops} :
           LET configured == Configured(t, m, x[2]) IN
           /\ InScope(m) /\ configured => MethodTier(t, m, x[2]) # None
           /\ MethodTier(t, m, x[2]) # None =>
                InScope(m) /\ (x \in ShippedMethods \/ configured)

(* Structural unexpressibility, with ROLLBACK: an effect that nobody       *)
(* proposed to write is the reversal of an earlier effect; a write that    *)
(* was proposed is of a declared model or configured for its proposer, a   *)
(* method is granted by a pack or configured for its proposer, and what    *)
(* else there is is a curated verb.  Nothing is said of the workspace that *)
(* commits: it may be another than the proposer, and hold no such grant.   *)
EffectsPermitted ==
  \A i \in DOMAIN effects :
    LET p == proposals[effects[i].prop]
        configured == Configured(p.tenant, p.act.model, p.act.op)
    IN
    \/ p.of > 0 /\ p.of < i /\ p.act = effects[p.of].undo
    \/ /\ p.of = 0
       /\ p.act.kind = "write" => p.act.model \in Declared \/ configured
       /\ p.act.kind = "method" =>
            <<p.act.model, p.act.op>> \in ShippedMethods \/ configured
       /\ p.act.kind = "verb" => p.act.op \in {v.name : v \in Verbs}

(* A scope that has been narrowed holds for everything proposed after it.  *)
ScopeHolds ==
  [][\A i \in DOMAIN proposals' \ DOMAIN proposals :
       proposals'[i].of = 0 => InScope(proposals'[i].act.model)]_vars

(* "The one-way doors never auto-execute": what is proposed to delete a    *)
(* financial or HR record is CRITICAL.  ROLLBACK's proposals are not held  *)
(* to it: the reversal of a granted create is previewed as HIGH.           *)
RiskyDeletesCritical ==
  \A i \in DOMAIN proposals :
    LET p == proposals[i] IN
    p.of = 0 /\ p.act.kind = "write" /\ p.act.op = "delete" /\ p.act.model \in Risky =>
      p.tier = "CRITICAL"

(* "Advertised = committable": every op on an advertised target, for every *)
(* tenant, and nothing else for a tenant without grants.  Verbs are        *)
(* advertised as if no scope were set.                                     *)
AdvertisedIsCommittable ==
  stage = "up" =>
    \A t \in Tenants, m \in Models, op \in Ops :
      /\ m \in Advertised.targets => WriteTier(t, m, op) # None
      /\ WriteTier(t, m, op) # None /\ ~Configured(t, m, op) => m \in Advertised.targets

(* What describe() says of a verb's reversibility COMMIT keeps: a verb     *)
(* advertised as IRREVERSIBLE gets no token, any other does.               *)
MintedAsAdvertised ==
  \A i \in DOMAIN effects :
    LET act == proposals[effects[i].prop].act IN
    act.kind = "verb" =>
      (effects[i].undo # None <=> VerbNamed(act.op) \in Advertised.reversible)

(* The reversal of a method asks for the approval that the method itself   *)
(* was given, whatever scope and grants have become since.                 *)
ReversalTier ==
  \A i \in DOMAIN proposals :
    LET p == proposals[i] IN
    p.of > 0 /\ p.act.kind = "method" => p.tier = proposals[effects[p.of].prop].tier
=============================================================================
