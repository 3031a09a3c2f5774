--------------------------- MODULE GovernanceProofs --------------------------
(***************************************************************************)
(* Proofs about Governance, for every policy its assumptions allow and any *)
(* number of tenants, proposals, effects and changes.                      *)
(***************************************************************************)
EXTENDS Governance, TLAPS

Reversible == {v \in Verbs : v.reverse # None \/ v.table # None}
VerbNames == {v.name : v \in Verbs}

(* An act that COMMIT knows how to carry out and to reverse.               *)
ProperAct(a) ==
  /\ a \in Acts
  /\ a.kind = "verb" => a.op \in VerbNames

(* The grants are those of the entries loaded, each key has one, and a     *)
(* running adapter has loaded them all.                                    *)
Loaded ==
  /\ \A g \in grants : \E k \in 1 .. loaded : config[k] = g
  /\ \A k \in 1 .. loaded :
       config[k] # Malformed /\ \E g \in grants : SameKey(g, config[k])
  /\ stage = "up" => loaded = Len(config)

(* What was asked for was permitted, and at its tier.                      *)
Asked(p) ==
  /\ p.act.kind = "write" =>
       p.act.model \in Declared \/ Configured(p.tenant, p.act.model, p.act.op)
  /\ p.act.kind = "method" =>
       <<p.act.model, p.act.op>> \in ShippedMethods
       \/ Configured(p.tenant, p.act.model, p.act.op)
  /\ p.act.kind = "write" /\ p.act.op = "delete" /\ p.act.model \in Risky =>
       p.tier = "CRITICAL"

(* A reversal is what an effect holds a token for.                         *)
Reversal(p) ==
  /\ p.of \in DOMAIN effects
  /\ p.act = effects[p.of].undo
  /\ p.tier = effects[p.of].tier

ProperProposal(i) ==
  /\ ProperAct(proposals[i].act)
  /\ proposals[i].of = 0 => Asked(proposals[i])
  /\ proposals[i].of # 0 => Reversal(proposals[i])

Proposed == \A i \in DOMAIN proposals : ProperProposal(i)

(* What COMMIT minted a token for fits the proposal.                       *)
Mints(p, e) ==
  /\ e.undo # None => ProperAct(e.undo)
  /\ e.undo # None /\ e.undo.kind = "method" => e.tier = p.tier
  /\ p.act.kind = "verb" => (e.undo # None <=> VerbNamed(p.act.op) \in Reversible)

Committed ==
  \A i \in DOMAIN effects :
    /\ effects[i].prop \in DOMAIN proposals
    /\ proposals[effects[i].prop].of < i
    /\ Mints(proposals[effects[i].prop], effects[i])

Inv == TypeOK /\ Loaded /\ Proposed /\ Committed

-----------------------------------------------------------------------------
LEMMA AppendShape ==
  ASSUME NEW S, NEW s \in Seq(S), NEW e \in S
  PROVE  /\ Append(s, e) \in Seq(S)
         /\ Len(Append(s, e)) = Len(s) + 1
         /\ DOMAIN s = 1 .. Len(s)
         /\ DOMAIN Append(s, e) = 1 .. Len(s) + 1
         /\ \A i \in DOMAIN s : Append(s, e)[i] = s[i]
         /\ Append(s, e)[Len(s) + 1] = e
OBVIOUS

LEMMA ElementShape ==
  ASSUME NEW S, NEW s \in Seq(S), NEW i \in DOMAIN s
  PROVE  s[i] \in S /\ i \in Nat \ {0}
OBVIOUS

(* The configuration's entries are entries.                                *)
LEMMA ConfigEntries ==
  ASSUME TypeOK
  PROVE  /\ config \in Seq({Malformed} \cup Entry)
         /\ \A k \in DOMAIN config : config[k] # Malformed => config[k] \in Entry
BY GrantsAssumption DEF TypeOK

LEMMA VerbNamedIs ==
  ASSUME NEW name \in VerbNames
  PROVE  VerbNamed(name) \in Verbs /\ VerbNamed(name).name = name
BY DEF VerbNames, VerbNamed

(* write_tier has an answer for models only, and which.                    *)
LEMMA WriteTierIs ==
  ASSUME TypeOK, NEW t, NEW m, NEW op \in Ops
  PROVE  /\ WriteTier(t, m, op) \in Tiers \cup {None}
         /\ WriteTier(t, m, op) # None
              <=> ModuleEnabled(m) /\ (GrantsFor(t, m, op) # {} \/ m \in Declared)
         /\ WriteTier(t, m, op) # None => m \in Models
         /\ WriteTier(t, m, op) # None /\ op = "delete" /\ m \in Risky =>
              WriteTier(t, m, op) = "CRITICAL"
<1>1. GrantsFor(t, m, op) # {} =>
        m \in Models /\ TheGrant(GrantsFor(t, m, op)).tier \in Tiers
  BY DEF TypeOK, GrantsFor, TheGrant, Entry
<1>2. None \notin Tiers
  BY NoneAssumption
<1>3. CrudTier(op) \in Tiers /\ \A x \in Tiers : Escalate(m, op, x) \in Tiers
  BY DEF CrudTier, Escalate, Tiers
<1>4. op = "delete" /\ m \in Risky => \A x \in Tiers : Escalate(m, op, x) = "CRITICAL"
  BY DEF Escalate
<1>5. Declared \subseteq Models
  BY PolicyAssumption
<1>6. CASE ~ModuleEnabled(m)
  BY <1>6 DEF WriteTier
<1>7. CASE ModuleEnabled(m) /\ GrantsFor(t, m, op) # {}
  <2>1. WriteTier(t, m, op) = Escalate(m, op, TheGrant(GrantsFor(t, m, op)).tier)
    BY <1>7 DEF WriteTier
  <2> QED BY <1>1, <1>2, <1>3, <1>4, <1>7, <2>1
<1>8. CASE ModuleEnabled(m) /\ GrantsFor(t, m, op) = {} /\ m \in Declared
  <2>1. WriteTier(t, m, op) = Escalate(m, op, CrudTier(op))
    BY <1>8 DEF WriteTier
  <2> QED BY <1>2, <1>3, <1>4, <1>5, <1>8, <2>1
<1>9. CASE ModuleEnabled(m) /\ GrantsFor(t, m, op) = {} /\ m \notin Declared
  <2>1. WriteTier(t, m, op) = None
    BY <1>9 DEF WriteTier
  <2> QED BY <1>9, <2>1
<1> QED BY <1>6, <1>7, <1>8, <1>9

(* So have method_tier and method_reverse.                                 *)
LEMMA MethodGrantsAre ==
  ASSUME TypeOK, NEW t, NEW m, NEW op, NEW g \in MethodGrants(t, m, op)
  PROVE  /\ m \in Models /\ op \in STRING
         /\ g.tier \in Tiers /\ g.reverse \in STRING \cup {None}
         /\ GrantsFor(t, m, op) # {} \/ <<m, op>> \in ShippedMethods
<1>1. CASE GrantsFor(t, m, op) # {}
  BY <1>1 DEF MethodGrants, GrantsFor, TypeOK, Entry
<1>2. CASE GrantsFor(t, m, op) = {}
  <2>1. PICK p \in EnabledPacks : g \in PackMethods[p] /\ g.model = m /\ g.op = op
    BY <1>2 DEF MethodGrants
  <2>2. p \in Packs
    BY DEF EnabledPacks
  <2>3. g \in [model : Declared, op : STRING, tier : Tiers, reverse : STRING \cup {None}]
    BY <2>1, <2>2, GrantsAssumption
  <2>4. <<m, op>> \in MethodsOf(p)
    BY <2>1 DEF MethodsOf
  <2> QED BY <2>1, <2>2, <2>3, <2>4, PolicyAssumption DEF ShippedMethods
<1> QED BY <1>1, <1>2

LEMMA MethodTierIs ==
  ASSUME TypeOK, NEW t, NEW m, NEW op
  PROVE  /\ MethodTier(t, m, op) \in Tiers \cup {None}
         /\ MethodTier(t, m, op) # None
              <=> ModuleEnabled(m) /\ MethodGrants(t, m, op) # {}
         /\ MethodTier(t, m, op) # None => m \in Models /\ op \in STRING
<1>1. None \notin Tiers
  BY NoneAssumption
<1>2. CASE ModuleEnabled(m) /\ MethodGrants(t, m, op) # {}
  <2>1. TheGrant(MethodGrants(t, m, op)) \in MethodGrants(t, m, op)
    BY <1>2 DEF TheGrant
  <2>2. MethodTier(t, m, op) = TheGrant(MethodGrants(t, m, op)).tier
    BY <1>2 DEF MethodTier
  <2>3. m \in Models /\ op \in STRING /\ TheGrant(MethodGrants(t, m, op)).tier \in Tiers
    BY <2>1, MethodGrantsAre
  <2> QED BY <1>1, <1>2, <2>2, <2>3
<1>3. CASE ~(ModuleEnabled(m) /\ MethodGrants(t, m, op) # {})
  BY <1>3 DEF MethodTier
<1> QED BY <1>2, <1>3

LEMMA MethodReverseIs ==
  ASSUME TypeOK, NEW t, NEW m, NEW op, MethodReverse(t, m, op) # None
  PROVE  MethodReverse(t, m, op) \in Acts /\ MethodReverse(t, m, op).kind = "method"
<1>1. MethodGrants(t, m, op) # {}
      /\ TheGrant(MethodGrants(t, m, op)).reverse # None
      /\ MethodReverse(t, m, op) =
           Act("method", m, TheGrant(MethodGrants(t, m, op)).reverse)
  BY DEF MethodReverse
<1>2. TheGrant(MethodGrants(t, m, op)) \in MethodGrants(t, m, op)
  BY <1>1 DEF TheGrant
<1>3. /\ m \in Models
      /\ TheGrant(MethodGrants(t, m, op)).reverse \in STRING \cup {None}
  BY <1>2, MethodGrantsAre
<1> QED BY <1>1, <1>3 DEF Act, Acts

(* What a verb is reversed by, and that it is whenever describe() says so. *)
LEMMA VerbUndosAre ==
  ASSUME NEW v \in Verbs, NEW undo \in VerbUndos(v)
  PROVE  /\ undo # None => ProperAct(undo) /\ undo.kind \in {"write", "method", "verb"}
         /\ undo # None /\ undo.kind = "method" => v.op = "method"
         /\ undo # None <=> v \in Reversible
<1>1. /\ v.doctype \in Models
      /\ v.reverse \in STRING \cup {None} /\ v.table \in STRING \cup {None}
      /\ v.reverse # None => v.op = "method"
      /\ v.op = "upsert" => v.table # None
      /\ \/ v.table = None
         \/ v.table = "before_image" /\ v.op = "update"
         \/ \E u \in Verbs : u.name = v.table
  BY VerbsAssumption
<1>2. \A a \in Acts : a # None
  BY NoneAssumption
<1>3. /\ Act("write", v.doctype, "update") \in Acts
      /\ ProperAct(Act("write", v.doctype, "update"))
      /\ Act("write", v.doctype, "update").kind = "write"
  BY <1>1 DEF Act, Acts, Ops, ProperAct
<1>4. ASSUME v.table # None, ~(v.op = "update" /\ v.table = "before_image")
      PROVE  /\ ByTable(v) \in Acts
             /\ ProperAct(ByTable(v))
             /\ ByTable(v).kind = "verb"
  <2>1. PICK u \in Verbs : u.name = v.table
    BY <1>1, <1>4
  <2>2. v.table \in VerbNames
    BY <2>1 DEF VerbNames
  <2>3. VerbNamed(v.table).doctype \in Models
    BY <2>2, VerbNamedIs, VerbsAssumption
  <2>4. ByTable(v) = Act("verb", VerbNamed(v.table).doctype, v.table)
    BY <1>4 DEF ByTable
  <2> QED BY <1>1, <1>4, <2>2, <2>3, <2>4 DEF Act, Acts, ProperAct
<1>5. CASE v.op = "upsert"
  <2>1. undo \in {ByTable(v), Act("write", v.doctype, "update")}
    BY <1>5 DEF VerbUndos
  <2> QED BY <1>1, <1>2, <1>3, <1>4, <1>5, <2>1 DEF Reversible
<1>6. CASE v.op = "update" /\ v.table = "before_image"
  <2>1. undo = Act("write", v.doctype, "update")
    BY <1>6 DEF VerbUndos
  <2>2. v.table # None
    BY <1>1, <1>6, NoneAssumption
  <2> QED BY <1>2, <1>3, <2>1, <2>2 DEF Reversible
<1>7. CASE v.op = "method" /\ v.reverse # None
  <2>1. undo = Act("method", v.doctype, v.reverse)
    BY <1>7 DEF VerbUndos
  <2>2. undo \in Acts /\ undo.kind = "method"
    BY <1>1, <1>7, <2>1 DEF Act, Acts
  <2> QED BY <1>2, <1>7, <2>2 DEF Reversible, ProperAct
<1>8. CASE /\ v.op # "upsert" /\ ~(v.op = "update" /\ v.table = "before_image")
           /\ ~(v.op = "method" /\ v.reverse # None)
  <2>1. undo = ByTable(v)
    BY <1>8 DEF VerbUndos
  <2>2. v \in Reversible <=> v.table # None
    BY <1>1, <1>8 DEF Reversible
  <2>3. v.table = None => undo = None
    BY <2>1 DEF ByTable
  <2> QED BY <1>2, <1>4, <1>8, <2>1, <2>2, <2>3
<1> QED BY <1>5, <1>6, <1>7, <1>8

(* What COMMIT adds to the effects.                                        *)
LEMMA UndosAre ==
  ASSUME TypeOK, NEW p \in [tenant : Tenants, act : Acts, tier : Tiers, of : Nat],
         ProperAct(p.act), NEW t, NEW undo \in Undos(t, p)
  PROVE  /\ undo \in Acts \cup {None}
         /\ UndoTier(p, undo) \in Tiers \cup {None}
         /\ undo # None => ProperAct(undo)
         /\ undo # None /\ undo.kind = "method" => UndoTier(p, undo) = p.tier
         /\ p.act.kind = "verb" => (undo # None <=> VerbNamed(p.act.op) \in Reversible)
<1>1. undo # None => ProperAct(undo)
  <2>1. CASE p.act.kind = "write"
    <3>1. p.act.model \in Models /\ p.act.op \in Ops
      BY <2>1 DEF Acts
    <3>2. PICK op \in Ops : undo = Act("write", p.act.model, op)
      BY <2>1, <3>1 DEF Undos, Ops
    <3> QED BY <3>1, <3>2 DEF Act, Acts, ProperAct
  <2>2. CASE p.act.kind = "method"
    <3>1. undo = MethodReverse(t, p.act.model, p.act.op)
      BY <2>2 DEF Undos
    <3> QED BY <3>1, MethodReverseIs DEF ProperAct
  <2>3. CASE p.act.kind = "verb"
    <3>1. undo \in VerbUndos(VerbNamed(p.act.op)) /\ VerbNamed(p.act.op) \in Verbs
      BY <2>3, VerbNamedIs DEF Undos, ProperAct
    <3> QED BY <3>1, VerbUndosAre
  <2> QED BY <2>1, <2>2, <2>3 DEF Acts
<1>2. CASE undo = None
  <2>1. UndoTier(p, undo) = None
    BY <1>2 DEF UndoTier
  <2>2. p.act.kind = "verb" => VerbNamed(p.act.op) \notin Reversible
    <3> SUFFICES ASSUME p.act.kind = "verb"
                 PROVE  VerbNamed(p.act.op) \notin Reversible
      OBVIOUS
    <3>1. undo \in VerbUndos(VerbNamed(p.act.op)) /\ VerbNamed(p.act.op) \in Verbs
      BY VerbNamedIs DEF Undos, ProperAct
    <3> QED BY <1>2, <3>1, VerbUndosAre
  <2> QED BY <1>2, <2>1, <2>2
<1>3. CASE undo # None
  <2>1. undo \in Acts
    BY <1>1, <1>3 DEF ProperAct
  <2>2. ASSUME undo.kind = "write"
        PROVE  UndoTier(p, undo) \in Tiers
    <3>1. UndoTier(p, undo) = CrudTier(undo.op)
      BY <1>3, <2>2 DEF UndoTier
    <3> QED BY <2>2, <3>1 DEF CrudTier, Tiers
  <2>3. ASSUME undo.kind = "method"
        PROVE  UndoTier(p, undo) = p.tier
    BY <1>3, <2>3 DEF UndoTier
  <2>4. ASSUME undo.kind = "verb"
        PROVE  UndoTier(p, undo) \in Tiers
    <3>1. UndoTier(p, undo) = VerbNamed(undo.op).tier
      BY <1>3, <2>4 DEF UndoTier
    <3>2. VerbNamed(undo.op) \in Verbs
      BY <1>1, <1>3, <2>4, VerbNamedIs DEF ProperAct
    <3> QED BY <2>4, <3>1, <3>2, VerbsAssumption
  <2>5. p.act.kind = "verb" => VerbNamed(p.act.op) \in Reversible
    <3> SUFFICES ASSUME p.act.kind = "verb"
                 PROVE  VerbNamed(p.act.op) \in Reversible
      OBVIOUS
    <3>1. undo \in VerbUndos(VerbNamed(p.act.op)) /\ VerbNamed(p.act.op) \in Verbs
      BY VerbNamedIs DEF Undos, ProperAct
    <3> QED BY <1>3, <3>1, VerbUndosAre
  <2>6. undo.kind \in {"write", "method", "verb"}
    BY <2>1 DEF Acts
  <2>7. /\ UndoTier(p, undo) \in Tiers
        /\ undo.kind = "method" => UndoTier(p, undo) = p.tier
    BY <2>2, <2>3, <2>4, <2>6
  <2> QED BY <1>1, <1>3, <2>1, <2>5, <2>7
<1> QED BY <1>2, <1>3

-----------------------------------------------------------------------------
LEMMA InitInv == Init => Inv
<1> SUFFICES ASSUME Init PROVE Inv
  OBVIOUS
<1>1. TypeOK
  <2>1. None \in Scopes /\ MaxChanges \in Nat
    BY PolicyAssumption
  <2>2. Len(config) \in Nat
    BY GrantsAssumption DEF Init
  <2> QED BY <2>1, <2>2 DEF Init, TypeOK
<1>2. Loaded /\ Proposed /\ Committed
  BY DEF Init, Loaded, Proposed, Committed
<1> QED BY <1>1, <1>2 DEF Inv

(* A new proposal of a proper act keeps the old ones and the effects.      *)
LEMMA RememberInv ==
  ASSUME Inv, NEW t \in Tenants, NEW act \in Acts, ProperAct(act),
         NEW tier \in Tiers, NEW of \in Nat, Remember(t, act, tier, of),
         of = 0 => Asked([tenant |-> t, act |-> act, tier |-> tier, of |-> of]),
         of # 0 => Reversal([tenant |-> t, act |-> act, tier |-> tier, of |-> of])
  PROVE  Inv'
<1> DEFINE new == [tenant |-> t, act |-> act, tier |-> tier, of |-> of]
<1>1. proposals' = Append(proposals, new)
      /\ UNCHANGED <<config, stage, loaded, grants, scope, effects, changes>>
  BY DEF Remember, policy
<1>2. /\ proposals \in Seq([tenant : Tenants, act : Acts, tier : Tiers, of : Nat])
      /\ new \in [tenant : Tenants, act : Acts, tier : Tiers, of : Nat]
  BY DEF Inv, TypeOK
<1> HIDE DEF new
<1>3. /\ proposals' \in Seq([tenant : Tenants, act : Acts, tier : Tiers, of : Nat])
      /\ DOMAIN proposals = 1 .. Len(proposals)
      /\ DOMAIN proposals' = 1 .. Len(proposals) + 1
      /\ \A i \in DOMAIN proposals : proposals'[i] = proposals[i]
      /\ proposals'[Len(proposals) + 1] = new
  BY <1>1, <1>2, AppendShape
<1>4. TypeOK'
  BY <1>1, <1>3 DEF Inv, TypeOK
<1>5. Loaded'
  BY <1>1 DEF Inv, Loaded
<1>6. \A i \in DOMAIN effects : effects[i].prop \in DOMAIN proposals
  BY DEF Inv, Committed
<1>7. Committed'
  BY <1>1, <1>3, <1>6 DEF Inv, Committed, Mints
<1>8. Proposed'
  <2>1. ASSUME NEW i \in DOMAIN proposals, ProperProposal(i)
        PROVE  ProperProposal(i)'
    <3>1. proposals'[i] = proposals[i]
      BY <1>3
    <3> QED BY <1>1, <1>3, <1>6, <2>1, <3>1
            DEF ProperProposal, Asked, Configured, Reversal
  <2>2. ASSUME NEW n, n = Len(proposals) + 1
        PROVE  ProperProposal(n)'
    <3>1. proposals'[n] = new
      BY <1>3, <2>2
    <3>2. /\ ProperAct(new.act)
          /\ new.of = 0 => Asked(new)
          /\ new.of # 0 => Reversal(new)
      BY DEF new
    <3> QED BY <1>1, <1>3, <1>6, <3>1, <3>2
            DEF ProperProposal, Asked, Configured, Reversal
  <2>3. Len(proposals) \in Nat
    BY <1>2
  <2>4. DOMAIN proposals' = DOMAIN proposals \cup {Len(proposals) + 1}
    BY <1>3, <2>3
  <2> QED BY <1>3, <2>1, <2>2, <2>4 DEF Inv, Proposed
<1> QED BY <1>4, <1>5, <1>7, <1>8 DEF Inv

(* COMMIT's effect fits its proposal, which was there before.              *)
LEMMA CommitInv ==
  ASSUME Inv, NEW t \in Tenants, NEW i \in DOMAIN proposals, Commit(t, i)
  PROVE  Inv'
<1>1. PICK undo \in Undos(t, proposals[i]) :
        effects' = Append(effects, [prop |-> i, undo |-> undo,
                                    tier |-> UndoTier(proposals[i], undo)])
  BY DEF Commit
<1>2. UNCHANGED <<config, stage, loaded, grants, scope, proposals, changes>>
  BY DEF Commit, policy
<1> DEFINE new == [prop |-> i, undo |-> undo, tier |-> UndoTier(proposals[i], undo)]
<1>3. /\ proposals[i] \in [tenant : Tenants, act : Acts, tier : Tiers, of : Nat]
      /\ ProperAct(proposals[i].act)
      /\ i \in Nat
  <2>1. proposals \in Seq([tenant : Tenants, act : Acts, tier : Tiers, of : Nat])
    BY DEF Inv, TypeOK
  <2>2. /\ proposals[i] \in [tenant : Tenants, act : Acts, tier : Tiers, of : Nat]
        /\ i \in Nat
    BY <2>1, ElementShape
  <2>3. ProperAct(proposals[i].act)
    BY DEF Inv, Proposed, ProperProposal
  <2> QED BY <2>2, <2>3
<1>4. /\ new \in [prop : Nat, undo : Acts \cup {None}, tier : Tiers \cup {None}]
      /\ Mints(proposals[i], new)
  <2>1. /\ undo \in Acts \cup {None}
        /\ UndoTier(proposals[i], undo) \in Tiers \cup {None}
        /\ undo # None => ProperAct(undo)
        /\ undo # None /\ undo.kind = "method" =>
             UndoTier(proposals[i], undo) = proposals[i].tier
        /\ proposals[i].act.kind = "verb" =>
             (undo # None <=> VerbNamed(proposals[i].act.op) \in Reversible)
    BY <1>1, <1>3, UndosAre DEF Inv
  <2> QED BY <1>3, <2>1 DEF Mints
<1>5. new.prop = i /\ effects' = Append(effects, new)
  BY <1>1
<1> HIDE DEF new
<1>6. /\ effects' \in Seq([prop : Nat, undo : Acts \cup {None}, tier : Tiers \cup {None}])
      /\ DOMAIN effects = 1 .. Len(effects)
      /\ DOMAIN effects' = 1 .. Len(effects) + 1
      /\ \A k \in DOMAIN effects : effects'[k] = effects[k]
      /\ effects'[Len(effects) + 1] = new
      /\ Len(effects) \in Nat
  <2>1. effects \in Seq([prop : Nat, undo : Acts \cup {None}, tier : Tiers \cup {None}])
    BY DEF Inv, TypeOK
  <2> QED BY <1>4, <1>5, <2>1, AppendShape
<1>7. TypeOK'
  BY <1>2, <1>6 DEF Inv, TypeOK
<1>8. Loaded'
  BY <1>2 DEF Inv, Loaded
<1>9. Proposed'
  <2>1. ASSUME NEW k \in DOMAIN proposals, ProperProposal(k)
        PROVE  ProperProposal(k)'
    BY <1>2, <1>6, <2>1 DEF ProperProposal, Asked, Configured, Reversal
  <2> QED BY <1>2, <2>1 DEF Inv, Proposed
<1>10. Committed'
  <2>1. proposals[i].of < Len(effects) + 1
    <3>1. proposals[i].of # 0 => proposals[i].of \in DOMAIN effects
      BY DEF Inv, Proposed, ProperProposal, Reversal
    <3> QED BY <1>3, <1>6, <3>1
  <2>2. DOMAIN effects' = DOMAIN effects \cup {Len(effects) + 1}
    BY <1>6
  <2>3. \A k \in DOMAIN effects :
          /\ effects'[k].prop \in DOMAIN proposals
          /\ proposals[effects'[k].prop].of < k
          /\ Mints(proposals[effects'[k].prop], effects'[k])
    BY <1>6 DEF Inv, Committed
  <2>4. /\ effects'[Len(effects) + 1].prop \in DOMAIN proposals
        /\ proposals[effects'[Len(effects) + 1].prop].of < Len(effects) + 1
        /\ Mints(proposals[effects'[Len(effects) + 1].prop], effects'[Len(effects) + 1])
    BY <1>4, <1>5, <1>6, <2>1
  <2>5. \A k \in DOMAIN effects' :
          /\ effects'[k].prop \in DOMAIN proposals
          /\ proposals[effects'[k].prop].of < k
          /\ Mints(proposals[effects'[k].prop], effects'[k])
    BY <2>2, <2>3, <2>4
  <2> QED BY <1>2, <2>5 DEF Committed, Mints
<1> QED BY <1>7, <1>8, <1>9, <1>10 DEF Inv

(* Another entry of the configuration.                                     *)
LEMMA LoadInv ==
  ASSUME Inv, Load
  PROVE  Inv'
<1>1. /\ stage = "loading" /\ loaded < Len(config)
      /\ UNCHANGED <<config, scope, proposals, effects, changes>>
  BY DEF Load
<1>2. /\ config \in Seq({Malformed} \cup Entry)
      /\ loaded \in 0 .. Len(config) /\ grants \subseteq Entry
  BY ConfigEntries DEF Inv, TypeOK
<1>3. Proposed' /\ Committed'
  BY <1>1 DEF Inv, Proposed, ProperProposal, Asked, Configured, Reversal,
              Committed, Mints
<1>4. CASE config[loaded + 1] = Malformed
  <2>1. stage' = "down" /\ UNCHANGED <<grants, loaded>>
    BY <1>4 DEF Load
  <2> QED BY <1>1, <1>3, <2>1 DEF Inv, TypeOK, Loaded
<1>5. CASE config[loaded + 1] # Malformed
  <2> DEFINE new == config[loaded + 1]
  <2>1. /\ grants' = Granted(grants, new)
        /\ loaded' = loaded + 1 /\ stage' = stage
    BY <1>5 DEF Load
  <2>2. new \in Entry /\ loaded + 1 \in 1 .. Len(config)
    BY <1>1, <1>2, <1>5
  <2>3. TypeOK'
    BY <1>1, <1>2, <2>1, <2>2 DEF Inv, TypeOK, Granted
  <2>4. \A g \in grants' : \E k \in 1 .. loaded + 1 : config[k] = g
    BY <1>2, <2>1, <2>2 DEF Inv, Loaded, Granted
  <2>5. \A k \in 1 .. loaded + 1 :
          config[k] # Malformed /\ \E g \in grants' : SameKey(g, config[k])
    <3> SUFFICES ASSUME NEW k \in 1 .. loaded + 1
                 PROVE  config[k] # Malformed /\ \E g \in grants' : SameKey(g, config[k])
      OBVIOUS
    <3>1. new \in grants' /\ \A h \in grants : SameKey(h, new) \/ h \in grants'
      BY <2>1 DEF Granted, SameKey
    <3>2. CASE k = loaded + 1
      BY <1>5, <3>1, <3>2 DEF SameKey
    <3>3. CASE k # loaded + 1
      <4>1. k \in 1 .. loaded
        BY <1>2, <3>3
      <4>2. config[k] # Malformed /\ \E g \in grants : SameKey(g, config[k])
        BY <4>1 DEF Inv, Loaded
      <4> QED BY <3>1, <4>2 DEF SameKey
    <3> QED BY <3>2, <3>3
  <2>6. Loaded'
    BY <1>1, <2>1, <2>4, <2>5 DEF Loaded
  <2> QED BY <1>3, <2>3, <2>6 DEF Inv
<1> QED BY <1>4, <1>5

(* A tenant has the grants that were configured for it.                    *)
LEMMA GrantsAreConfigured ==
  ASSUME Inv, NEW t, NEW m, NEW op
  PROVE  /\ GrantsFor(t, m, op) # {} => Configured(t, m, op)
         /\ stage = "up" /\ Configured(t, m, op) => GrantsFor(t, m, op) # {}
<1>1. /\ config \in Seq({Malformed} \cup Entry) /\ loaded \in 0 .. Len(config)
  BY ConfigEntries DEF Inv, TypeOK
<1>2. \A k \in 1 .. loaded : k \in DOMAIN config
  BY <1>1
<1>3. ASSUME GrantsFor(t, m, op) # {}
      PROVE  Configured(t, m, op)
  <2>1. PICK g \in grants : g.tenant = t /\ g.model = m /\ g.op = op
    BY <1>3 DEF GrantsFor
  <2>2. PICK k \in 1 .. loaded : config[k] = g
    BY <2>1 DEF Inv, Loaded
  <2>3. config[k] # Malformed
    BY <2>2 DEF Inv, Loaded
  <2> QED BY <1>2, <2>1, <2>2, <2>3 DEF Configured
<1>4. ASSUME stage = "up", Configured(t, m, op)
      PROVE  GrantsFor(t, m, op) # {}
  <2>1. PICK k \in DOMAIN config :
          config[k].tenant = t /\ config[k].model = m /\ config[k].op = op
    BY <1>4 DEF Configured
  <2>2. k \in 1 .. loaded
    BY <1>1, <1>4 DEF Inv, Loaded
  <2>3. PICK g \in grants : SameKey(g, config[k])
    BY <2>2 DEF Inv, Loaded
  <2> QED BY <2>1, <2>3 DEF SameKey, GrantsFor
<1> QED BY <1>3, <1>4

(* What PROPOSE and ROLLBACK remember is as RememberInv asks.              *)
LEMMA ProposeWriteInv ==
  ASSUME Inv, NEW t \in Tenants, NEW n \in Names, NEW op \in Ops, ProposeWrite(t, n, op)
  PROVE  Inv'
<1> DEFINE m == ResolveTarget(n)
           act == Act("write", m, op)
           tier == WriteTier(t, m, op)
<1>1. Remember(t, act, tier, 0) /\ tier # None
  BY DEF ProposeWrite, Remember
<1>2. /\ tier \in Tiers /\ m \in Models
      /\ GrantsFor(t, m, op) # {} \/ m \in Declared
      /\ op = "delete" /\ m \in Risky => tier = "CRITICAL"
  <2> HIDE DEF m
  <2> QED BY <1>1, WriteTierIs DEF Inv
<1> HIDE DEF m, tier
<1>3. act \in Acts /\ ProperAct(act)
  BY <1>2 DEF Act, Acts, ProperAct
<1>4. GrantsFor(t, m, op) # {} => Configured(t, m, op)
  BY GrantsAreConfigured
<1>5. Asked([tenant |-> t, act |-> act, tier |-> tier, of |-> 0])
  BY <1>2, <1>4 DEF Asked, Act
<1> HIDE DEF act
<1> QED BY <1>1, <1>2, <1>3, <1>5, RememberInv

LEMMA ProposeMethodInv ==
  ASSUME Inv, NEW t \in Tenants, NEW n \in Names, NEW op, ProposeMethod(t, n, op)
  PROVE  Inv'
<1> DEFINE m == ResolveTarget(n)
           act == Act("method", m, op)
           tier == MethodTier(t, m, op)
<1>1. Remember(t, act, tier, 0) /\ tier # None
  BY DEF ProposeMethod, Remember
<1>2. /\ tier \in Tiers /\ m \in Models /\ op \in STRING
      /\ MethodGrants(t, m, op) # {}
  <2> HIDE DEF m
  <2> QED BY <1>1, MethodTierIs DEF Inv
<1>3. GrantsFor(t, m, op) # {} \/ <<m, op>> \in ShippedMethods
  <2> HIDE DEF m
  <2> QED BY <1>2, MethodGrantsAre DEF Inv
<1> HIDE DEF m, tier
<1>4. act \in Acts /\ ProperAct(act)
  BY <1>2 DEF Act, Acts, ProperAct
<1>5. GrantsFor(t, m, op) # {} => Configured(t, m, op)
  BY GrantsAreConfigured
<1>6. Asked([tenant |-> t, act |-> act, tier |-> tier, of |-> 0])
  BY <1>3, <1>5 DEF Asked, Act
<1> HIDE DEF act
<1> QED BY <1>1, <1>2, <1>4, <1>6, RememberInv

LEMMA ProposeVerbInv ==
  ASSUME Inv, NEW t \in Tenants, NEW v \in Verbs, ProposeVerb(t, v)
  PROVE  Inv'
<1> DEFINE act == Act("verb", v.doctype, v.name)
<1>1. Remember(t, act, v.tier, 0)
  BY DEF ProposeVerb, Remember
<1>2. v.tier \in Tiers /\ v.doctype \in Models /\ v.name \in STRING
  BY VerbsAssumption
<1>3. act \in Acts /\ ProperAct(act)
  BY <1>2 DEF Act, Acts, ProperAct, VerbNames
<1>4. Asked([tenant |-> t, act |-> act, tier |-> v.tier, of |-> 0])
  BY DEF Asked, Act
<1> HIDE DEF act
<1> QED BY <1>1, <1>2, <1>3, <1>4, RememberInv

LEMMA RollbackInv ==
  ASSUME Inv, NEW t \in Tenants, NEW i \in DOMAIN effects, Rollback(t, i)
  PROVE  Inv'
<1> DEFINE e == effects[i]
<1>1. /\ e.undo # None /\ e.tier # None
      /\ Remember(t, e.undo, e.tier, i)
  BY DEF Rollback, Remember
<1>2. /\ e \in [prop : Nat, undo : Acts \cup {None}, tier : Tiers \cup {None}]
      /\ i \in Nat \ {0}
  <2>1. effects \in Seq([prop : Nat, undo : Acts \cup {None}, tier : Tiers \cup {None}])
    BY DEF Inv, TypeOK
  <2> QED BY <2>1, ElementShape
<1>3. e.prop \in DOMAIN proposals /\ (e.undo # None => ProperAct(e.undo))
  BY DEF Inv, Committed, Mints
<1>4. Reversal([tenant |-> t, act |-> e.undo, tier |-> e.tier, of |-> i])
  BY DEF Reversal
<1>5. e.undo \in Acts /\ e.tier \in Tiers /\ ProperAct(e.undo) /\ i # 0 /\ i \in Nat
  BY <1>1, <1>2, <1>3
<1> HIDE DEF e
<1> QED BY <1>1, <1>4, <1>5, RememberInv

LEMMA StepInv == Inv /\ [Next]_vars => Inv'
<1> SUFFICES ASSUME Inv, [Next]_vars PROVE Inv'
  OBVIOUS
<1>1. CASE Load
  BY <1>1, LoadInv
<1>2. CASE Start
  BY <1>2 DEF Start, Inv, TypeOK, Loaded, Proposed, ProperProposal, Asked,
              Configured, Reversal, Committed, Mints
<1>3. ASSUME Restart PROVE Inv'
  <2>1. TypeOK'
    <3>1. None \in Scopes /\ MaxChanges \in Nat /\ Len(config') \in Nat
      BY <1>3, PolicyAssumption, GrantsAssumption DEF Restart
    <3> QED BY <1>3, <3>1 DEF Restart, Inv, TypeOK
  <2>2. Loaded' /\ Proposed' /\ Committed'
    BY <1>3 DEF Restart, Loaded, Proposed, Committed
  <2> QED BY <2>1, <2>2 DEF Inv
<1>4. ASSUME NEW s \in Scopes, SetScope(s) PROVE Inv'
  <2>1. TypeOK'
    <3>1. MaxChanges \in Nat
      BY PolicyAssumption
    <3> QED BY <1>4, <3>1 DEF SetScope, Inv, TypeOK
  <2>2. Loaded' /\ Proposed' /\ Committed'
    BY <1>4 DEF SetScope, Inv, Loaded, Proposed, ProperProposal, Asked,
                Configured, Reversal, Committed, Mints
  <2> QED BY <2>1, <2>2 DEF Inv
<1>5. ASSUME NEW t \in Tenants, NEW n \in Names, NEW op \in Ops, ProposeWrite(t, n, op)
      PROVE  Inv'
  BY <1>5, ProposeWriteInv
<1>6. ASSUME NEW t \in Tenants, NEW n \in Names, NEW op, ProposeMethod(t, n, op)
      PROVE  Inv'
  BY <1>6, ProposeMethodInv
<1>7. ASSUME NEW t \in Tenants, NEW v \in Verbs, ProposeVerb(t, v) PROVE Inv'
  BY <1>7, ProposeVerbInv
<1>8. ASSUME NEW t \in Tenants, NEW i \in DOMAIN proposals, Commit(t, i)
      PROVE  Inv'
  BY <1>8, CommitInv
<1>9. ASSUME NEW t \in Tenants, NEW i \in DOMAIN effects, Rollback(t, i)
      PROVE  Inv'
  BY <1>9, RollbackInv
<1>10. CASE UNCHANGED vars
  BY <1>10 DEF vars, Inv, TypeOK, Loaded, Proposed, ProperProposal, Asked,
               Configured, Reversal, Committed, Mints
<1> QED BY <1>1, <1>2, <1>3, <1>4, <1>5, <1>6, <1>7, <1>8, <1>9, <1>10 DEF Next

LEMMA Invariance == Spec => []Inv
BY InitInv, StepInv, PTL DEF Spec

-----------------------------------------------------------------------------
(* The policy's state, the proposals and the effects have their types: no  *)
(* tier is remembered that is none, and no target that is no model.        *)
THEOREM TypeCorrect == Spec => []TypeOK
<1>1. Inv => TypeOK
  BY DEF Inv
<1> QED BY <1>1, Invariance, PTL

(* For any policy: a generic write is admitted exactly if its model is in  *)
(* scope and declared or configured for the tenant itself, a method only   *)
(* so, and none that was configured is missing.                            *)
THEOREM PolicyDecides == Spec => []DecisionIsPolicy
<1>1. Inv => DecisionIsPolicy
  <2> SUFFICES ASSUME Inv, stage = "up", NEW t \in Tenants, NEW m \in Models
               PROVE  /\ \A op \in Ops :
                           (WriteTier(t, m, op) # None)
                             <=> InScope(m) /\ (m \in Declared \/ Configured(t, m, op))
                      /\ \A x \in {x \in Methods : x[1] = m /\ x[2] \notin Ops} :
                           LET configured == Configured(t, m, x[2]) IN
                           /\ InScope(m) /\ configured => MethodTier(t, m, x[2]) # None
                           /\ MethodTier(t, m, x[2]) # None =>
                                InScope(m)
                                /\ (x \in ShippedMethods \/ configured)
    BY DEF DecisionIsPolicy
  <2>1. ModuleEnabled(m) <=> InScope(m)
    BY PolicyAssumption DEF Inv, TypeOK, ModuleEnabled, InScope
  <2>2. \A op \in Ops :
          (WriteTier(t, m, op) # None)
            <=> InScope(m) /\ (m \in Declared \/ Configured(t, m, op))
    BY <2>1, WriteTierIs, GrantsAreConfigured DEF Inv
  <2>3. ASSUME NEW x \in Methods, x[1] = m
        PROVE  /\ InScope(m) /\ Configured(t, m, x[2]) => MethodTier(t, m, x[2]) # None
               /\ MethodTier(t, m, x[2]) # None =>
                    InScope(m) /\ (x \in ShippedMethods
                                   \/ Configured(t, m, x[2]))
    <3>1. MethodTier(t, m, x[2]) # None
            <=> ModuleEnabled(m) /\ MethodGrants(t, m, x[2]) # {}
      BY MethodTierIs DEF Inv
    <3>2. Configured(t, m, x[2]) => MethodGrants(t, m, x[2]) # {}
      BY GrantsAreConfigured DEF MethodGrants
    <3>3. x = <<m, x[2]>>
      <4>1. CASE \E c \in Configs : x \in ConfiguredIn(c)
        BY <2>3, <4>1 DEF ConfiguredIn
      <4>2. CASE \E p \in Packs : x \in MethodsOf(p)
        <5>1. PICK p \in Packs : x \in MethodsOf(p)
          BY <4>2
        <5>2. PICK g \in PackMethods[p] : x = <<g.model, g.op>>
          BY <5>1 DEF MethodsOf
        <5>3. x[1] = g.model /\ x[2] = g.op
          BY <5>2
        <5>4. g.model = m
          BY <2>3, <5>3
        <5> QED BY <5>2, <5>3, <5>4
      <4> QED BY <4>1, <4>2 DEF Methods
    <3>4. MethodGrants(t, m, x[2]) # {} =>
            \/ x \in ShippedMethods
            \/ Configured(t, m, x[2])
      <4> SUFFICES ASSUME NEW g \in MethodGrants(t, m, x[2])
                   PROVE  \/ x \in ShippedMethods
                          \/ Configured(t, m, x[2])
        OBVIOUS
      <4>1. \/ GrantsFor(t, m, x[2]) # {}
            \/ <<m, x[2]>> \in ShippedMethods
        BY MethodGrantsAre DEF Inv
      <4> QED BY <3>3, <4>1, GrantsAreConfigured
    <3> QED BY <2>1, <3>1, <3>2, <3>4
  <2> QED BY <2>2, <2>3
<1> QED BY <1>1, Invariance, PTL

(* An effect that nobody proposed to write is the reversal of an earlier  *)
(* one; a generic write was permitted to its proposer, a method is granted *)
(* by a pack or configured for its proposer, what else there is is a       *)
(* curated verb.  It holds whichever workspaces commit and roll back.      *)
THEOREM EffectsArePermitted == Spec => []EffectsPermitted
<1>1. Inv => EffectsPermitted
  <2> SUFFICES ASSUME Inv, NEW i \in DOMAIN effects
               PROVE  LET p == proposals[effects[i].prop] IN
                      \/ p.of > 0 /\ p.of < i /\ p.act = effects[p.of].undo
                      \/ p.of = 0 /\ Asked(p) /\ ProperAct(p.act)
    BY DEF EffectsPermitted, Asked, ProperAct, VerbNames
  <2> DEFINE p == proposals[effects[i].prop]
  <2>1. effects[i].prop \in DOMAIN proposals /\ p.of < i
    BY DEF Inv, Committed
  <2>2. /\ ProperAct(p.act)
        /\ p.of = 0 => Asked(p)
        /\ p.of # 0 => Reversal(p)
    BY <2>1 DEF Inv, Proposed, ProperProposal
  <2>3. p.of \in Nat
    <3>1. proposals \in Seq([tenant : Tenants, act : Acts, tier : Tiers, of : Nat])
      BY DEF Inv, TypeOK
    <3>2. p \in [tenant : Tenants, act : Acts, tier : Tiers, of : Nat]
      BY <2>1, <3>1, ElementShape
    <3> QED BY <3>2
  <2>4. CASE p.of = 0
    BY <2>2, <2>4
  <2>5. CASE p.of > 0
    BY <2>1, <2>2, <2>5 DEF Reversal
  <2> QED BY <2>3, <2>4, <2>5
<1> QED BY <1>1, Invariance, PTL

(* What is proposed to delete a financial or HR record is CRITICAL,        *)
(* whatever tier onboarding granted.                                       *)
THEOREM RiskyDeletes == Spec => []RiskyDeletesCritical
<1>1. Inv => RiskyDeletesCritical
  BY DEF Inv, Proposed, ProperProposal, Asked, RiskyDeletesCritical
<1> QED BY <1>1, Invariance, PTL

(* A method's reversal asks for the approval that the method was given.    *)
THEOREM ReversalsKeepTier == Spec => []ReversalTier
<1>1. Inv => ReversalTier
  <2> SUFFICES ASSUME Inv, NEW i \in DOMAIN proposals,
                      proposals[i].of > 0, proposals[i].act.kind = "method"
               PROVE  proposals[i].tier
                        = proposals[effects[proposals[i].of].prop].tier
    BY DEF ReversalTier
  <2>1. Reversal(proposals[i]) /\ ProperAct(proposals[i].act)
    BY DEF Inv, Proposed, ProperProposal
  <2>2. proposals[i].act # None
    BY <2>1, NoneAssumption DEF ProperAct
  <2> QED BY <2>1, <2>2 DEF Reversal, Inv, Committed, Mints
<1> QED BY <1>1, Invariance, PTL

(* A verb that describe() calls reversible gets a token at every COMMIT,   *)
(* an irreversible one never.                                              *)
THEOREM MintsAsAdvertised == Spec => []MintedAsAdvertised
<1>1. Inv => MintedAsAdvertised
  BY DEF Inv, Committed, Mints, MintedAsAdvertised, Advertised, Reversible
<1> QED BY <1>1, Invariance, PTL

(* What describe() advertises can be committed by every tenant, and a      *)
(* tenant without grants can commit no other generic write.                *)
THEOREM AdvertisedCommits == Spec => []AdvertisedIsCommittable
<1>1. Inv => AdvertisedIsCommittable
  <2> SUFFICES ASSUME Inv, stage = "up",
                      NEW t \in Tenants, NEW m \in Models, NEW op \in Ops
               PROVE  /\ m \in Advertised.targets => WriteTier(t, m, op) # None
                      /\ WriteTier(t, m, op) # None /\ ~Configured(t, m, op) =>
                           m \in Advertised.targets
    BY DEF AdvertisedIsCommittable
  <2>1. m \in Advertised.targets <=> m \in Declared /\ ModuleEnabled(m)
    BY DEF Advertised, WritableTargets
  <2> QED BY <2>1, WriteTierIs, GrantsAreConfigured DEF Inv
<1> QED BY <1>1, Invariance, PTL

(* A scope holds for every act proposed while it is set, whatever its kind *)
(* and whatever was admitted before.                                       *)
THEOREM ScopeIsKept == Spec => ScopeHolds
<1> DEFINE Step == \A i \in DOMAIN proposals' \ DOMAIN proposals :
                     proposals'[i].of = 0 => InScope(proposals'[i].act.model)
<1>1. ASSUME Inv, NEW t, NEW act, NEW tier, NEW of, Remember(t, act, tier, of),
             of = 0 => InScope(act.model)
      PROVE  Step
  <2>1. proposals \in Seq([tenant : Tenants, act : Acts, tier : Tiers, of : Nat])
    BY <1>1 DEF Inv, TypeOK
  <2>2. proposals' = Append(proposals, [tenant |-> t, act |-> act, tier |-> tier, of |-> of])
    BY <1>1 DEF Remember
  <2>3. \A i \in DOMAIN proposals' \ DOMAIN proposals :
          proposals'[i].of = of /\ proposals'[i].act = act
    BY <2>1, <2>2
  <2> QED BY <1>1, <2>3
<1>2. ASSUME Inv, NEW m PROVE ModuleEnabled(m) => InScope(m)
  BY <1>2, PolicyAssumption DEF Inv, TypeOK, ModuleEnabled, InScope
<1>3. Inv /\ [Next]_vars => [Step]_vars
  <2> SUFFICES ASSUME Inv, Next PROVE Step
    OBVIOUS
  <2>1. CASE UNCHANGED proposals
    BY <2>1
  <2>2. ASSUME Restart PROVE Step
    BY <2>2 DEF Restart
  <2>3. ASSUME NEW t \in Tenants, NEW n \in Names, NEW op \in Ops, ProposeWrite(t, n, op)
        PROVE  Step
    <3>1. PICK m : Remember(t, Act("write", m, op), WriteTier(t, m, op), 0)
      BY <2>3 DEF ProposeWrite
    <3>2. ModuleEnabled(m)
      BY <3>1, WriteTierIs DEF Inv, Remember
    <3> QED BY <1>1, <1>2, <3>1, <3>2 DEF Act
  <2>4. ASSUME NEW t \in Tenants, NEW n \in Names, NEW op, ProposeMethod(t, n, op)
        PROVE  Step
    <3>1. PICK m : Remember(t, Act("method", m, op), MethodTier(t, m, op), 0)
      BY <2>4 DEF ProposeMethod
    <3>2. ModuleEnabled(m)
      BY <3>1, MethodTierIs DEF Inv, Remember
    <3> QED BY <1>1, <1>2, <3>1, <3>2 DEF Act
  <2>5. ASSUME NEW t \in Tenants, NEW v \in Verbs, ProposeVerb(t, v) PROVE Step
    <3>1. ModuleEnabled(v.doctype)
      BY <2>5 DEF ProposeVerb, Remember
    <3>2. Remember(t, Act("verb", v.doctype, v.name), v.tier, 0)
      BY <2>5, <3>1 DEF ProposeVerb
    <3> QED BY <1>1, <1>2, <3>1, <3>2 DEF Act
  <2>6. ASSUME NEW t \in Tenants, NEW i \in DOMAIN effects, Rollback(t, i)
        PROVE  Step
    <3>1. i # 0
      <4>1. effects \in Seq([prop : Nat, undo : Acts \cup {None}, tier : Tiers \cup {None}])
        BY DEF Inv, TypeOK
      <4> QED BY <2>6, <4>1, ElementShape
    <3> QED BY <1>1, <2>6, <3>1 DEF Rollback
  <2> QED BY <2>1, <2>2, <2>3, <2>4, <2>5, <2>6 DEF Next, Load, Start, SetScope, Commit
<1> QED BY <1>3, Invariance, PTL DEF Spec, ScopeHolds

=============================================================================
