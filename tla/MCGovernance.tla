---------------------------- MODULE MCGovernance ----------------------------
(***************************************************************************)
(* Governance for TLC: two packs and a group without one, a declared model *)
(* of each pack, a model that only resembles a declared one, a financial   *)
(* model that is granted or not, and verbs of every reversibility.         *)
(***************************************************************************)
EXTENDS Governance

CONSTANTS acme, other, partner, bank, order, move, client

SomeModels == {partner, bank, order, move}
SomeGroups == {"crm", "purchasing", "finance"}
SomePacks == {"crm", "purchasing"}
OwnsSome == [g \in SomeGroups |->
  CASE g = "crm" -> {partner, bank} [] g = "purchasing" -> {order} [] g = "finance" -> {move}]
OwnsNameSome == [p \in SomePacks |-> IF p = "crm" THEN {"crm"} ELSE {}]
DeclaredSome == {partner, order}
PackMethodsSome == [p \in SomePacks |->
  IF p = "crm" THEN {[model |-> partner, op |-> "message_post", tier |-> "MEDIUM", reverse |-> None]}
  ELSE {[model |-> order, op |-> "button_confirm", tier |-> "HIGH", reverse |-> "button_cancel"]}]

Verb(name, doctype, tier, op, reverse, table) ==
  [name |-> name, doctype |-> doctype, tier |-> tier, op |-> op, reverse |-> reverse,
   table |-> table]
SomeVerbs ==
  {Verb("delete_contact", partner, "HIGH", "delete", None, None),
   Verb("create_contact", partner, "MEDIUM", "upsert", None, "delete_contact"),
   Verb("update_contact", partner, "MEDIUM", "update", None, "before_image"),
   Verb("create_order", order, "MEDIUM", "create", None, "delete_order"),
   Verb("delete_order", order, "HIGH", "delete", None, None),
   Verb("validate_picking", order, "HIGH", "method", None, None),
   Verb("post_invoice", move, "HIGH", "method", "button_draft", None)}

ResemblesSome == [n \in SomeModels \cup {client} |->
  CASE n \in {client, bank, partner} -> <<partner>> [] n = order -> <<order>> [] OTHER -> <<>>]

SomeScopes == {None, {"crm"}, {"purchasing", "finance"}}

Grant(t, m, op, tier, reverse) ==
  [tenant |-> t, model |-> m, op |-> op, tier |-> tier, reverse |-> reverse]
SomeConfigs ==
  {<<>>,
   <<Grant(acme, move, "create", "HIGH", None), Grant(acme, move, "delete", "HIGH", None)>>,
   <<Grant(acme, bank, "create", "MEDIUM", None), Malformed,
     Grant(other, move, "action_post", "HIGH", "button_draft")>>,
   <<Grant(other, move, "action_post", "HIGH", "button_draft"),
     Grant(other, move, "action_post", "CRITICAL", "button_draft")>>,
   <<Grant(acme, bank, "update", "MEDIUM", None)>>}
=============================================================================
