------------------------------ MODULE ReadPlane -----------------------------
(***************************************************************************)
(* Reads that take more than one call to Odoo (read_plane.py, and the nil  *)
(* and history verbs of translate.py), beside people who edit what is read:*)
(*   walk     a caller pages through nil.search or nil.intent, by keyset;  *)
(*   get      nil.get: a scoped count, then the record;                    *)
(*   links    nil.search of ProductSupplier, by a sku or whole, and the    *)
(*            codes its rows are labelled with;                            *)
(*   changes  history.changes of a Product: the chatter of the variant and *)
(*            of its template, newest first.                               *)
(*                                                                         *)
(* Customer and Supplier are one model, res.partner: a name is scoped by   *)
(* the rank it stands for, a native name by nothing.  The plane itself,    *)
(* nilscript.dataplane, is external: it hands on the last id of a page as  *)
(* the cursor of the next, and may refuse a count.                         *)
(***************************************************************************)
EXTENDS Naturals, Sequences, FiniteSets

CONSTANTS
  MaxIds,               \* bound: partners ever made
  Ranks,                \* the ranks a partner may have: names with a domain
  Natives,              \* other names of the partner model
  PageLimit,            \* rows of a page
  Variants,             \* product.product, those not archived
  Template,             \* variant -> the id of its product.template
  Links,                \* product.supplierinfo
  Codes,                \* values of default_code
  FanOut,               \* variants asked for by template: so many for each (20),
  FewestRows,           \* and so many in any case (200)
  Posts,                \* where others post: <<model, id>>
  Dates,                \* of messages
  ChangesLimit,         \* rows of history.changes
  FirstPartners,        \* partners at the start, one after the other
  FirstCodes,           \* codes at the start
  None,                 \* no code, no product, no sku, no bound
  MaxEdits              \* bound: edits and posts by others

Ids == 1 .. MaxIds
Names == Ranks \cup Natives
Models == {"variant", "template"}
Bearing == Variants \X (Codes \cup {None})

ASSUME PartnersAssumption ==
  /\ MaxIds \in Nat
  /\ Ranks \cap Natives = {} /\ {"Product", "ProductSupplier"} \cap Names = {}
  /\ FirstPartners \in Seq(SUBSET Ranks) /\ Len(FirstPartners) <= MaxIds
ASSUME ProductsAssumption ==
  /\ Variants \subseteq Nat /\ Template \in [Variants -> Nat]
  /\ None \notin Nat \cup Codes
  /\ FirstCodes \in [Variants -> Codes \cup {None}]
  /\ Posts \subseteq Models \X Nat
ASSUME LinksAssumption ==
  /\ Links \subseteq [id : Nat, tmpl : Nat, product : Variants \cup {None}]
  /\ \A l \in Links : l.product # None => Template[l.product] = l.tmpl
ASSUME BoundsAssumption ==
  /\ Dates \cup {MaxEdits} \subseteq Nat
  /\ {PageLimit, ChangesLimit, FanOut, FewestRows} \subseteq Nat \ {0}

VARIABLES
  \* Odoo
  there, born,          \* partners there are, ids given out
  ranks,                \* ranks[i]: what partner i is
  codes,                \* codes[v]: the default_code of a variant, or None
  messages,             \* mail.message
  edits,
  \* the reader
  pc,                   \* the call it makes next
  job,                  \* what was asked: a name, a key and a bound
  last,                 \* a walk's last id
  tmpl,                 \* the template resolved
  had,                  \* rows had so far
  labels,               \* codes had so far, by the space of the id they are for
  again,                \* a row came again (history)
  answer,               \* what was answered
  \* while the request lasts (history)
  always, ever,         \* partners in its domain all the time, or at some time
  bore,                 \* codes of variants, or their want, at some time
  known                 \* messages there were when it was asked

odooVars == <<there, born, ranks, codes, messages, edits>>
partVars == <<last, tmpl, had, labels, again>>
sinceVars == <<always, ever, bore, known>>
vars == <<odooVars, pc, job, partVars, answer, sinceVars>>

Message == [id : Nat, on : Models \X Nat, date : Dates]
NoJob == [name |-> None, key |-> None, before |-> None]
NoAnswer == [is |-> "none", rows |-> {}]
Answered(is, s) == [is |-> is, rows |-> s]

(* base_filter_for: a name with a rank sees the partners of that rank.     *)
InDomain == {i \in there : job.name \in Ranks => job.name \in ranks[i]}

Init ==
  /\ there = 1 .. Len(FirstPartners) /\ born = Len(FirstPartners)
  /\ ranks = [i \in Ids |-> IF i \in there THEN FirstPartners[i] ELSE {}]
  /\ codes = FirstCodes
  /\ messages = {}
  /\ edits = 0
  /\ pc = "idle" /\ job = NoJob
  /\ last = 0 /\ tmpl = None /\ had = {} /\ labels = {} /\ again = FALSE
  /\ answer = NoAnswer
  /\ always = {} /\ ever = {} /\ bore = {} /\ known = {}

-----------------------------------------------------------------------------
Borne(c) == {<<v, c[v]>> : v \in Variants}

(* A request comes in, and rests on the partners of its name, or the codes.*)
Begin(to, name, key, before) ==
  /\ pc = "idle"
  /\ pc' = to
  /\ job' = [name |-> name, key |-> key, before |-> before]
  /\ again' = FALSE /\ answer' = NoAnswer
  /\ UNCHANGED <<odooVars, last, tmpl, had, labels>>
  /\ always' = IF name \in Names THEN InDomain' ELSE {}
  /\ ever' = always'
  /\ bore' = IF name = "ProductSupplier" THEN Borne(codes) ELSE {}
  /\ known' = IF name = "Product" THEN messages ELSE {}

(* A sku is resolved first; a walk has no key.                             *)
Ask ==
  \/ \E n \in Names : Begin("walk", n, None, None)
  \/ \E n \in Names, i \in Ids : Begin(IF n \in Ranks THEN "count" ELSE "get", n, i, None)
  \/ \E s \in Codes : Begin("resolve", "ProductSupplier", s, None)
  \/ Begin("links", "ProductSupplier", None, None)
  \/ \E v \in Variants, b \in Dates \cup {None} : Begin("template", "Product", v, b)

(* The request is answered.                                                *)
Finish(is, s) ==
  /\ pc' = "idle"
  /\ answer' = Answered(is, s)
  /\ last' = 0 /\ tmpl' = None /\ had' = {} /\ labels' = {}
  /\ UNCHANGED <<odooVars, job, again, sinceVars>>

(* A call fails: a refusal or an HTTP 500, never an empty answer.  (A page *)
(* that fails is asked for again.)                                         *)
CallFails ==
  /\ pc \notin {"idle", "walk"}
  /\ Finish("refused", {})

-----------------------------------------------------------------------------
(* fetch: the ids behind the cursor, lowest first.                         *)

(* Mutant: a page without an order.                                        *)
PagesUnordered(s) ==
  {p \in SUBSET s : /\ Cardinality(p) <= PageLimit
                    /\ Cardinality(p) = PageLimit \/ p = s}

Pages(s) == {p \in PagesUnordered(s) : \A i \in p, j \in s \ p : i < j}

NextPage ==
  /\ pc = "walk"
  /\ \E p \in Pages({i \in InDomain : i > last}) :
       /\ again' = (again \/ had \cap p # {})
       /\ IF Cardinality(p) < PageLimit
          THEN pc' = "idle" /\ answer' = Answered("rows", had \cup p) /\ had' = {}
               /\ last' = 0
          ELSE had' = had \cup p /\ last' \in p /\ (\A i \in p : i <= last')
               /\ UNCHANGED <<pc, answer>>
  /\ UNCHANGED <<odooVars, job, tmpl, labels, sinceVars>>

-----------------------------------------------------------------------------
(* _id_satisfies_domain, by a scoped count.                                *)
Count ==
  /\ pc = "count"
  /\ IF job.key \in InDomain
     THEN pc' = "get" /\ UNCHANGED <<odooVars, job, partVars, answer, sinceVars>>
     ELSE Finish("missing", {})

(* Mutant: a count that is refused counts as one.                          *)
CountRefusedOpen ==
  /\ pc = "count"
  /\ pc' = "get"
  /\ UNCHANGED <<odooVars, job, partVars, answer, sinceVars>>

(* The plane refuses the count: the domain is not known to hold.           *)
CountRefused ==
  /\ pc = "count"
  /\ Finish("refused", {})

(* get_one, which takes no filter.                                         *)
Get ==
  /\ pc = "get"
  /\ IF job.key \in there THEN Finish("rows", {job.key}) ELSE Finish("missing", {})

-----------------------------------------------------------------------------
(* _resolve_sku: one of the products with that code; a sku nobody has      *)
(* matches no link.                                                        *)
Resolve ==
  /\ pc = "resolve"
  /\ LET hits == {v \in Variants : codes[v] = job.key} IN
     \/ /\ hits # {}
        /\ \E v \in hits : tmpl' = Template[v]
        /\ pc' = "links"
        /\ UNCHANGED <<odooVars, job, last, had, labels, again, answer, sinceVars>>
     \/ hits = {} /\ Finish("rows", {})

(* The page of links, with their own names for what they link.             *)
FetchLinks ==
  /\ pc = "links"
  /\ had' = {l \in Links : tmpl = None \/ l.tmpl = tmpl}
  /\ pc' = "by_id"
  /\ UNCHANGED <<odooVars, job, last, tmpl, labels, again, answer, sinceVars>>

(* _batch_default_codes: the codes of the products the page names, then of *)
(* its templates, each by any one of its variants.                         *)
CodesById ==
  /\ pc = "by_id"
  /\ labels' = {<<"id", v, codes[v]>> :
                  v \in {v \in Variants : codes[v] # None /\ \E l \in had : l.product = v}}
  /\ pc' = "by_template"
  /\ UNCHANGED <<odooVars, job, last, tmpl, had, again, answer, sinceVars>>

(* The sku of a row: its product's code, else its template's.  Mutant: one *)
(* space for the ids of products and of templates.                         *)
LabelUntagged(c, l) ==
  IF \E x \in c : x[2] = l.product THEN {x[3] : x \in {x \in c : x[2] = l.product}}
  ELSE {x[3] : x \in {x \in c : x[2] = l.tmpl}}

Label(c, l) ==
  LET own == {x \in c : x[1] = "id" /\ x[2] = l.product}
      alike == {x \in c : x[1] = "tmpl" /\ x[2] = l.tmpl}
  IN {x[3] : x \in IF own # {} THEN own ELSE alike}

(* The search for the variants of the page's templates: one limit for all  *)
(* of them together, coded or not, and no order of its own.                *)
VariantsOf(ls) == {v \in Variants : \E l \in ls : l.tmpl = Template[v]}

RowLimit(ls) ==
  LET n == Cardinality({l.tmpl : l \in ls}) IN
  IF n * FanOut > FewestRows THEN n * FanOut ELSE FewestRows

Fits(ls) == Cardinality(VariantsOf(ls)) <= RowLimit(ls)

VariantRows(ls) ==
  {s \in SUBSET VariantsOf(ls) :
     IF Fits(ls) THEN s = VariantsOf(ls) ELSE Cardinality(s) = RowLimit(ls)}

CodesByTemplate ==
  /\ pc = "by_template"
  /\ \E found \in VariantRows(had) :
     LET bearers(t) == {v \in found : Template[v] = t /\ codes[v] # None}
         asked == {t \in {l.tmpl : l \in had} : bearers(t) # {}}
     IN \E f \in [asked -> Variants] :
          /\ \A t \in asked : f[t] \in bearers(t)
          /\ LET c == labels \cup {<<"tmpl", t, codes[f[t]]>> : t \in asked} IN
             Finish("rows", {<<l, Label(c, l)>> : l \in had})

-----------------------------------------------------------------------------
(* history.changes of a product: its template is resolved (Odoo's chatter  *)
(* on a product is the template's), then two searches, each newest first.  *)
ResolveTemplate ==
  /\ pc = "template"
  /\ tmpl' = Template[job.key]
  /\ pc' = "variant_log"
  /\ UNCHANGED <<odooVars, job, last, had, labels, again, answer, sinceVars>>

Newer(m, n) == m.date > n.date \/ (m.date = n.date /\ m.id > n.id)

(* What chatter there is on a record, older than the bound.                *)
Chatter(ms, on) ==
  {m \in ms : m.on = on /\ (job.before # None => m.date < job.before)}

Newest(s) == {m \in s : Cardinality({n \in s : Newer(n, m)}) < ChangesLimit}

VariantLog ==
  /\ pc = "variant_log"
  /\ had' = Newest(Chatter(messages, <<"variant", job.key>>))
  /\ pc' = "template_log"
  /\ UNCHANGED <<odooVars, job, last, tmpl, labels, again, answer, sinceVars>>

(* The two results as one.  Mutant: they are cut before they are sorted.   *)
MergedUnsorted(a, b) ==
  a \cup {m \in b : Cardinality({n \in b : Newer(n, m)}) + Cardinality(a) < ChangesLimit}

Merged(a, b) == Newest(a \cup b)

TemplateLog ==
  /\ pc = "template_log"
  /\ Finish("rows", Merged(had, Newest(Chatter(messages, <<"template", tmpl>>))))

Reader ==
  \/ Ask \/ CallFails
  \/ NextPage \/ Count \/ CountRefused \/ Get
  \/ Resolve \/ FetchLinks \/ CodesById \/ CodesByTemplate
  \/ ResolveTemplate \/ VariantLog \/ TemplateLog

-----------------------------------------------------------------------------
(* What others do in Odoo meanwhile.                                       *)
Edited ==
  /\ edits < MaxEdits
  /\ edits' = edits + 1
  /\ UNCHANGED <<pc, job, partVars, answer, known>>

(* A partner's ranks change, it is removed, or a new one is made.          *)
EditPartner ==
  /\ Edited
  /\ \/ /\ \E i \in there, r \in SUBSET Ranks : ranks' = [ranks EXCEPT ![i] = r]
        /\ UNCHANGED <<there, born>>
     \/ /\ \E i \in there : there' = there \ {i}
        /\ UNCHANGED <<born, ranks>>
     \/ /\ born < MaxIds /\ born' = born + 1
        /\ there' = there \cup {born + 1}
        /\ \E r \in SUBSET Ranks : ranks' = [ranks EXCEPT ![born + 1] = r]
  /\ IF pc # "idle" /\ job.name \in Names
     THEN /\ always' = always \cap InDomain'
          /\ ever' = ever \cup InDomain'
     ELSE UNCHANGED <<always, ever>>
  /\ UNCHANGED <<codes, messages, bore>>

Recode(v, c) ==
  /\ Edited
  /\ codes' = [codes EXCEPT ![v] = c]
  /\ bore' = IF pc # "idle" /\ job.name = "ProductSupplier"
              THEN bore \cup Borne(codes') ELSE bore
  /\ UNCHANGED <<there, born, ranks, messages, always, ever>>

(* A message is posted, dated as its sender likes.                         *)
Post(on, d) ==
  /\ Edited
  /\ messages' = messages \cup {[id |-> Cardinality(messages) + 1, on |-> on, date |-> d]}
  /\ UNCHANGED <<there, born, ranks, codes, always, ever, bore>>

Others ==
  \/ EditPartner
  \/ \E v \in Variants, c \in Codes \cup {None} : Recode(v, c)
  \/ \E on \in Posts, d \in Dates : Post(on, d)

Next == Reader \/ Others

Spec == Init /\ [][Next]_vars

-----------------------------------------------------------------------------
Told(is) == pc = "idle" /\ answer.is = is

TypeOK ==
  /\ born \in 0 .. MaxIds /\ there \subseteq 1 .. born
  /\ ranks \in [Ids -> SUBSET Ranks]
  /\ codes \in [Variants -> Codes \cup {None}]
  /\ messages \subseteq Message /\ known \subseteq Message
  /\ edits \in 0 .. MaxEdits
  /\ last \in 0 .. MaxIds
  /\ always \subseteq Ids /\ ever \subseteq Ids
  /\ bore \subseteq Bearing
  /\ again \in BOOLEAN

(* "Keyset paging: stable for 1M+, no offset drift".  A walk to its end    *)
(* has every record that was in its domain all the while, none that never  *)
(* was, and none twice, whoever joins, leaves or is removed between pages. *)
PagesComplete ==
  Told("rows") /\ job.name \in Names /\ job.key = None =>
    always \subseteq answer.rows /\ answer.rows \subseteq ever /\ ~again

(* "A record outside the resource's base domain answers the SAME shape a   *)
(* missing id answers - never the record itself", and fails closed: what   *)
(* nil.get answers was in its domain while it was read, and what it denies *)
(* was not in it throughout.                                               *)
GetInScope ==
  job.name \in Names /\ job.key # None =>
    /\ Told("rows") => answer.rows \subseteq ever
    /\ Told("missing") => job.key \notin always

(* The sku of a link is a code of its own product, or where that has none  *)
(* of another variant of its template.  A link without a sku has an uncoded*)
(* product, and no coded variant at all, if the search for the variants of *)
(* its page's templates has room for all of them: beyond that limit a      *)
(* coded template may go without its label.  All as it was at some time of *)
(* the request, which makes three calls for it.  A link found by a sku is  *)
(* of a template that bears it.                                            *)
SkuTrue ==
  Told("rows") /\ job.name = "ProductSupplier" =>
    \A r \in answer.rows :
      LET l == r[1]
          alike == {v \in Variants : Template[v] = l.tmpl}
      IN /\ \A s \in r[2] : \E v \in alike :
              /\ <<v, s>> \in bore
              /\ v = l.product \/ l.product = None \/ <<l.product, None>> \in bore
         /\ r[2] = {} /\ l.product # None => <<l.product, None>> \in bore
         /\ r[2] = {} /\ Fits({q[1] : q \in answer.rows}) => alike \X {None} \subseteq bore
         /\ job.key # None => \E v \in alike : <<v, job.key>> \in bore

(* "Nothing happened" and "I looked in the wrong place" are told apart: of *)
(* the messages there were on a product or its template when its history   *)
(* was asked for, none is missing but older ones than all those shown, and *)
(* only when as many were shown as were asked for.                         *)
ChangesWhole ==
  Told("rows") /\ job.name = "Product" =>
    LET ours == {<<"variant", job.key>>, <<"template", Template[job.key]>>} IN
    /\ \A m \in answer.rows : m.on \in ours
    /\ Cardinality(answer.rows) <= ChangesLimit
    /\ \A m \in (UNION {Chatter(known, on) : on \in ours}) \ answer.rows :
         /\ Cardinality(answer.rows) = ChangesLimit
         /\ \A n \in answer.rows : Newer(n, m)
=============================================================================
