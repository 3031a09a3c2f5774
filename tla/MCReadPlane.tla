----------------------------- MODULE MCReadPlane ----------------------------
(***************************************************************************)
(* ReadPlane for TLC: two templates whose ids are those of each other's    *)
(* variants, and chatter on a product, its template and its namesake.      *)
(***************************************************************************)
EXTENDS ReadPlane

SomePartners == <<{"Customer", "Supplier"}, {"Supplier"}, {"Customer"}>>
TemplateSome == [v \in Variants |-> IF v = 1 THEN 2 ELSE 1]
CodesSome == [v \in Variants |-> IF v = 3 THEN "P-2" ELSE None]
SomeLinks ==
  {[id |-> 1, tmpl |-> 2, product |-> 1], [id |-> 2, tmpl |-> 1, product |-> None],
   [id |-> 3, tmpl |-> 1, product |-> 2]}
SomePosts == {<<"variant", 1>>, <<"template", 2>>, <<"template", 1>>}
=============================================================================
