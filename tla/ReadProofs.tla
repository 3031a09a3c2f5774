------------------------------ MODULE ReadProofs ----------------------------
(***************************************************************************)
(* Proofs about the reads: ReadPlane, for every number of partners, pages, *)
(* products, links, messages and edits, and MovementsFeed, for every       *)
(* number of moves, rows of a page, instants of a second and transactions. *)
(* Both rest on what the first rows of an ordered search are.  Neither     *)
(* specification speaks of the other's variables.                          *)
(***************************************************************************)
EXTENDS ReadPlane, MovementsFeed, FiniteSetTheorems, WellFoundedInduction, TLAPS

-----------------------------------------------------------------------------
(* The first elements of a finite set in a strict order R.                 *)

Strict(R, S) ==
  /\ \A x \in S : <<x, x>> \notin R
  /\ \A x, y, z \in S : <<x, y>> \in R /\ <<y, z>> \in R => <<x, z>> \in R

Total(R, S) == \A x, y \in S : x = y \/ <<x, y>> \in R \/ <<y, x>> \in R

Smaller(R, S, x) == {y \in S : <<y, x>> \in R}

Leading(R, S, N) == {x \in S : Cardinality(Smaller(R, S, x)) < N}

LEMMA FiniteMin ==
  ASSUME NEW S, IsFiniteSet(S), NEW R, Strict(R, S), NEW T, T \subseteq S, T # {}
  PROVE  \E x \in T : \A y \in T : <<y, x>> \notin R
<1> DEFINE Sets == {Smaller(R, S, x) : x \in T}
<1>1. IsWellFoundedOn(StrictSubsetOrdering(S), FiniteSubsetsOf(S))
  BY FS_StrictSubsetOrderingWellFounded
<1>2. Sets \subseteq FiniteSubsetsOf(S) /\ Sets # {}
  <2>1. \A x \in T : Smaller(R, S, x) \subseteq S
    BY DEF Smaller
  <2>2. \A x \in T : Smaller(R, S, x) \in FiniteSubsetsOf(S)
    BY <2>1, FS_Subset DEF FiniteSubsetsOf
  <2> QED BY <2>2
<1>3. PICK B \in Sets : \A C \in Sets : <<C, B>> \notin StrictSubsetOrdering(S)
  <2> HIDE DEF Sets
  <2> QED BY <1>1, <1>2, WFMin
<1>4. PICK x \in T : B = Smaller(R, S, x)
  OBVIOUS
<1>5. ASSUME NEW y \in T, <<y, x>> \in R PROVE FALSE
  <2>1. Smaller(R, S, y) \subseteq Smaller(R, S, x) /\ Smaller(R, S, y) # Smaller(R, S, x)
    BY <1>5 DEF Smaller, Strict
  <2>2. Smaller(R, S, y) \in SUBSET S /\ Smaller(R, S, x) \in SUBSET S
    BY DEF Smaller
  <2>3. <<Smaller(R, S, y), B>> \in StrictSubsetOrdering(S)
    BY <2>1, <2>2, <1>4 DEF StrictSubsetOrdering
  <2> QED BY <2>3, <1>3
<1> QED BY <1>5

LEMMA FirstOnes ==
  ASSUME NEW S, IsFiniteSet(S), NEW R, Strict(R, S), Total(R, S), NEW N \in Nat \ {0}
  PROVE  /\ Leading(R, S, N) \subseteq S /\ IsFiniteSet(Leading(R, S, N))
         /\ Cardinality(Leading(R, S, N)) \in Nat
         /\ Cardinality(Leading(R, S, N)) <= N
         /\ \A x \in S \ Leading(R, S, N) :
              /\ Cardinality(Leading(R, S, N)) = N
              /\ \A y \in Leading(R, S, N) : <<y, x>> \in R
<1> DEFINE F == Leading(R, S, N)
           Below(x) == Smaller(R, S, x)
<1>0. F \subseteq S /\ \A x \in S : x \in F <=> Cardinality(Below(x)) < N
  BY DEF Leading
<1>1. IsFiniteSet(F) /\ Cardinality(F) \in Nat
  BY <1>0, FS_Subset, FS_CardinalityType
<1>2. ASSUME NEW x \in S
      PROVE  Below(x) \subseteq S /\ IsFiniteSet(Below(x)) /\ Cardinality(Below(x)) \in Nat
  <2>1. Below(x) \subseteq S
    BY DEF Smaller
  <2> QED BY <2>1, FS_Subset, FS_CardinalityType
<1> HIDE DEF F
<1>3. ASSUME NEW x \in S \ F, NEW y \in F PROVE <<y, x>> \in R
  <2>1. x \in S /\ y \in S /\ x # y
    BY <1>0
  <2> SUFFICES ASSUME <<x, y>> \in R PROVE FALSE
    BY <2>1 DEF Total
  <2>2. Below(x) \subseteq Below(y)
    BY <2>1 DEF Smaller, Strict
  <2>3. Cardinality(Below(x)) <= Cardinality(Below(y))
    BY <1>2, <2>1, <2>2, FS_Subset
  <2>4. Cardinality(Below(y)) < N /\ ~(Cardinality(Below(x)) < N)
    BY <1>0, <2>1
  <2> QED BY <1>2, <2>1, <2>3, <2>4
<1>4. Cardinality(F) <= N
  <2>1. CASE F = {}
    <3>1. Cardinality(F) = 0
      BY <2>1, FS_EmptySet
    <3> QED BY <3>1
  <2>2. CASE F # {}
    <3> DEFINE Q == {p \in S \X S : <<p[2], p[1]>> \in R}
    <3>1. Strict(Q, S)
      BY DEF Strict
    <3>2. \A x, y \in S : <<y, x>> \in Q <=> <<x, y>> \in R
      OBVIOUS
    <3> HIDE DEF Q
    <3>3. PICK x \in F : \A y \in F : <<y, x>> \notin Q
      BY <3>1, <1>0, <2>2, FiniteMin
    <3>4. x \in S /\ x \notin Below(x)
      BY <1>0, <3>3 DEF Smaller, Strict
    <3>5. F \subseteq Below(x) \cup {x}
      BY <3>2, <3>3, <3>4, <1>0 DEF Smaller, Total
    <3>6. /\ IsFiniteSet(Below(x) \cup {x})
          /\ Cardinality(Below(x) \cup {x}) = Cardinality(Below(x)) + 1
      BY <1>2, <3>4, FS_AddElement
    <3>7. Cardinality(F) <= Cardinality(Below(x) \cup {x})
      BY <3>5, <3>6, FS_Subset
    <3>8. Cardinality(Below(x)) < N
      BY <1>0, <3>3
    <3> QED BY <3>4, <3>6, <3>7, <3>8, <1>1, <1>2
  <2> QED BY <2>1, <2>2
<1>5. ASSUME NEW w \in S \ F PROVE Cardinality(F) = N
  <2>1. S \ F \subseteq S /\ S \ F # {}
    OBVIOUS
  <2>2. PICK x \in S \ F : \A y \in S \ F : <<y, x>> \notin R
    BY <2>1, FiniteMin
  <2>3. Below(x) \subseteq F
    BY <2>2 DEF Smaller
  <2>4. ~(Cardinality(Below(x)) < N)
    BY <1>0
  <2>5. Cardinality(Below(x)) <= Cardinality(F)
    BY <1>1, <2>3, FS_Subset
  <2> QED BY <2>4, <2>5, <1>1, <1>2, <1>4
<1> QED BY <1>0, <1>1, <1>3, <1>4, <1>5 DEF F

-----------------------------------------------------------------------------
(* ReadPlane.                                                              *)

Linking == {"links", "by_id", "by_template"}

(* Partners are numbered, and what is asked fits the call that is next.    *)
Asked ==
  /\ born \in 0 .. MaxIds /\ there \subseteq 1 .. born
  /\ codes \in [Variants -> Codes \cup {None}]
  /\ pc = "walk" => job.name \in Names /\ job.key = None
  /\ pc \in {"count", "get"} => job.name \in Names /\ job.key \in Ids
  /\ pc = "resolve" => job.name = "ProductSupplier" /\ job.key \in Codes
  /\ pc \in Linking => job.name = "ProductSupplier"
  /\ pc \in {"template", "variant_log", "template_log"} => job.name = "Product"

(* While a request lasts, what it may rest on brackets what there is.      *)
Since ==
  pc # "idle" =>
    /\ job.name \in Names => always \subseteq InDomain /\ InDomain \subseteq ever
    /\ job.name = "ProductSupplier" => Borne(codes) \subseteq bore

(* Up to its cursor a walk has what was there throughout; it has nothing   *)
(* beyond.                                                                 *)
Walked ==
  pc = "walk" =>
    /\ last \in Nat /\ ~again
    /\ had \subseteq ever \cap {i \in Nat : i <= last}
    /\ \A i \in always : i <= last => i \in had

(* A get by a name with a domain has counted first.                        *)
Counted == pc = "get" /\ job.name \in Ranks => job.key \in ever

(* The page of links is that of the sku's template, and its labels were    *)
(* codes of their products, of each that had one.                          *)
Labelled ==
  /\ pc \in Linking =>
       IF tmpl = None THEN job.key = None
       ELSE \E v \in Variants : Template[v] = tmpl /\ <<v, job.key>> \in bore
  /\ pc \in {"by_id", "by_template"} =>
       had \subseteq Links /\ \A l \in had : tmpl # None => l.tmpl = tmpl
  /\ pc = "by_template" =>
       /\ \A x \in labels : \E v \in Variants, c \in Codes \cup {None} :
                               x = <<"id", v, c>> /\ <<v, c>> \in bore
       /\ \A l \in had : l.product # None =>
            <<l.product, None>> \in bore \/ \E x \in labels : x[1] = "id" /\ x[2] = l.product

(* A request that is over has left nothing behind.                         *)
Clean ==
  /\ pc = "idle" => last = 0 /\ had = {}
  /\ pc \in {"idle", "walk"} => tmpl = None

AllTold == PagesComplete /\ GetInScope /\ SkuTrue

Inv == Asked /\ Since /\ Walked /\ Counted /\ Labelled /\ Clean /\ AllTold

LEMMA NoneApart == None \notin Ids /\ None \notin Nat /\ None \notin Codes
BY ProductsAssumption DEF Ids

LEMMA NamesApart == "Product" \notin Names /\ "ProductSupplier" \notin Names
BY PartnersAssumption DEF Names

LEMMA InitInv == Init => Inv
<1> SUFFICES ASSUME Init PROVE Inv
  OBVIOUS
<1>1. born \in 0 .. MaxIds /\ there \subseteq 1 .. born
  BY PartnersAssumption DEF Init
<1>2. Asked
  BY <1>1, ProductsAssumption DEF Init, Asked, Linking
<1>3. Since /\ Walked /\ Counted /\ Labelled /\ Clean
  BY DEF Init, Since, Walked, Counted, Labelled, Clean, Linking
<1>4. AllTold
  BY DEF Init, AllTold, PagesComplete, GetInScope, SkuTrue, Told, NoAnswer
<1> QED BY <1>2, <1>3, <1>4 DEF Inv

-----------------------------------------------------------------------------
(* The edits of others.                                                    *)

(* While a request is under way it has told nothing.                       *)
LEMMA Untold == pc # "idle" => AllTold
BY DEF AllTold, PagesComplete, GetInScope, SkuTrue, Told

LEMMA EditInv == Inv /\ EditPartner => Inv'
<1> SUFFICES ASSUME Inv, EditPartner PROVE Inv'
  OBVIOUS
<1>1. UNCHANGED <<pc, job, last, tmpl, had, labels, again, answer, codes, bore>>
  BY DEF EditPartner, Edited, partVars
<1>2. born' \in 0 .. MaxIds /\ there' \subseteq 1 .. born'
  <2>1. MaxIds \in Nat /\ born \in 0 .. MaxIds /\ there \subseteq 1 .. born
    BY PartnersAssumption DEF Inv, Asked
  <2>2. CASE UNCHANGED <<there, born>>
    BY <2>1, <2>2
  <2>3. CASE born' = born /\ \E i \in there : there' = there \ {i}
    BY <2>1, <2>3
  <2>4. CASE born < MaxIds /\ born' = born + 1 /\ there' = there \cup {born + 1}
    BY <2>1, <2>4
  <2> QED BY <2>2, <2>3, <2>4 DEF EditPartner
<1>3. Asked'
  BY <1>1, <1>2 DEF Inv, Asked
<1>4. always' \subseteq always /\ ever \subseteq ever'
  BY DEF EditPartner
<1>5. Since'
  BY <1>1 DEF Inv, Since, EditPartner, Borne
<1>6. Walked' /\ Counted'
  BY <1>1, <1>4 DEF Inv, Walked, Counted
<1>7. Labelled' /\ Clean'
  BY <1>1 DEF Inv, Labelled, Clean
<1>8. AllTold'
  <2>1. CASE pc # "idle"
    BY <2>1, <1>1 DEF AllTold, PagesComplete, GetInScope, SkuTrue, Told
  <2>2. CASE pc = "idle"
    BY <2>2, <1>1 DEF Inv, EditPartner, AllTold, PagesComplete, GetInScope, SkuTrue, Told
  <2> QED BY <2>1, <2>2
<1> QED BY <1>3, <1>5, <1>6, <1>7, <1>8 DEF Inv

LEMMA RecodeInv ==
  ASSUME Inv, NEW v \in Variants, NEW c \in Codes \cup {None}, Recode(v, c)
  PROVE  Inv'
<1>1. /\ UNCHANGED <<pc, job, last, tmpl, had, labels, again, answer,
                     there, born, ranks, always, ever>>
      /\ codes' = [codes EXCEPT ![v] = c]
      /\ bore \subseteq bore' /\ (pc = "idle" => bore' = bore)
  BY DEF Recode, Edited, partVars
<1>2. Asked'
  BY <1>1 DEF Inv, Asked
<1>3. Since'
  BY <1>1 DEF Inv, Since, Recode, Borne, InDomain
<1>4. Walked' /\ Counted' /\ Clean'
  BY <1>1 DEF Inv, Walked, Counted, Clean
<1>5. Labelled'
  BY <1>1 DEF Inv, Labelled
<1>6. AllTold'
  <2>1. CASE pc # "idle"
    BY <2>1, <1>1 DEF AllTold, PagesComplete, GetInScope, SkuTrue, Told
  <2>2. CASE pc = "idle"
    BY <2>2, <1>1 DEF Inv, AllTold, PagesComplete, GetInScope, SkuTrue, Told
  <2> QED BY <2>1, <2>2
<1> QED BY <1>2, <1>3, <1>4, <1>5, <1>6 DEF Inv

(* A step that changes nothing the invariant speaks of.                    *)
LEMMA AsideInv ==
  ASSUME Inv,
         UNCHANGED <<pc, job, partVars, answer, always, ever, bore,
                     there, born, ranks, codes>>
  PROVE  Inv'
<1> USE DEF Inv, partVars
<1>1. Asked' /\ Walked' /\ Counted' /\ Clean'
  BY DEF Asked, Walked, Counted, Clean
<1>2. Since'
  BY DEF Since, InDomain, Borne
<1>3. Labelled'
  BY DEF Labelled
<1>4. AllTold'
  BY DEF AllTold, PagesComplete, GetInScope, SkuTrue, Told
<1> QED BY <1>1, <1>2, <1>3, <1>4

-----------------------------------------------------------------------------
(* The reader.                                                             *)

LEMMA BeginInv ==
  ASSUME Inv, NEW to, NEW name, NEW key, NEW before, Begin(to, name, key, before),
         \/ to = "walk" /\ name \in Names /\ key = None
         \/ to \in {"count", "get"} /\ name \in Names /\ key \in Ids
              /\ (to = "get" => name \notin Ranks)
         \/ to = "resolve" /\ name = "ProductSupplier" /\ key \in Codes
         \/ to = "links" /\ name = "ProductSupplier" /\ key = None
         \/ to = "template" /\ name = "Product"
  PROVE  Inv'
<1>1. /\ pc = "idle" /\ pc' = to /\ pc' # "idle"
      /\ job' = [name |-> name, key |-> key, before |-> before]
      /\ ~again'
      /\ UNCHANGED <<there, born, ranks, codes, last, tmpl, had, labels>>
  BY DEF Begin, odooVars
<1>2. Asked'
  BY <1>1 DEF Inv, Asked, Linking
<1>3. Since'
  BY <1>1 DEF Begin, Since
<1>4. Walked' /\ Clean'
  BY <1>1 DEF Inv, Walked, Clean, Begin, InDomain, Asked
<1>5. Counted' /\ Labelled'
  BY <1>1 DEF Inv, Counted, Labelled, Clean, Linking
<1>6. AllTold'
  BY <1>1 DEF AllTold, PagesComplete, GetInScope, SkuTrue, Told
<1> QED BY <1>2, <1>3, <1>4, <1>5, <1>6 DEF Inv

(* An answer is in order when what it tells is.                            *)
LEMMA FinishInv ==
  ASSUME Inv, pc \notin {"idle", "walk"}, NEW is, NEW s, Finish(is, s), AllTold'
  PROVE  Inv'
BY DEF Inv, Asked, Since, Walked, Counted, Labelled, Clean, Finish, odooVars,
       sinceVars, Linking

(* What a step between two calls leaves in order.                          *)
LEMMA OnwardInv ==
  ASSUME Inv, pc \notin {"idle", "walk"}, pc' \notin {"idle", "walk"},
         UNCHANGED <<odooVars, job, answer, sinceVars>>,
         Asked', Counted', Labelled'
  PROVE  Inv'
BY DEF Inv, Since, Walked, Clean, AllTold, PagesComplete, GetInScope, SkuTrue, Told,
       odooVars, sinceVars, InDomain, Borne

LEMMA NextPageInv == Inv /\ NextPage => Inv'
<1> SUFFICES ASSUME Inv, NextPage PROVE Inv'
  OBVIOUS
<1> DEFINE s == {i \in InDomain : i > last}
<1>1. PICK p \in Pages(s) :
        /\ again' = (again \/ had \cap p # {})
        /\ IF Cardinality(p) < PageLimit
           THEN pc' = "idle" /\ answer' = Answered("rows", had \cup p) /\ had' = {}
                /\ last' = 0
           ELSE had' = had \cup p /\ last' \in p /\ (\A i \in p : i <= last')
                /\ UNCHANGED <<pc, answer>>
  BY DEF NextPage
<1>2. /\ pc = "walk" /\ job.name \in Names /\ job.key = None
      /\ UNCHANGED <<odooVars, job, tmpl, labels, sinceVars>>
  BY DEF NextPage, Inv, Asked
<1>3. /\ last \in Nat /\ ~again
      /\ had \subseteq ever /\ \A i \in had : i \in Nat /\ i <= last
      /\ \A i \in always : i <= last => i \in had
      /\ always \subseteq InDomain /\ InDomain \subseteq ever
  BY <1>2 DEF Inv, Walked, Since
<1>4. InDomain \subseteq Nat
  <2>1. there \subseteq 1 .. born /\ born \in Nat
    BY PartnersAssumption DEF Inv, Asked
  <2>2. there \subseteq Nat
    BY <2>1
  <2>3. InDomain \subseteq there
    BY DEF InDomain
  <2> QED BY <2>2, <2>3
<1>5. p \subseteq s /\ (Cardinality(p) = PageLimit \/ p = s) /\ \A i \in p, j \in s \ p : i < j
  BY DEF Pages, PagesUnordered
<1>6. had \cap p = {} /\ ~again'
  <2>1. \A i \in p : i \in Nat /\ i > last
    BY <1>4, <1>5
  <2>2. had \cap p = {}
    BY <2>1, <1>3
  <2> QED BY <2>2, <1>1, <1>3
<1>7. Asked' /\ Counted' /\ Labelled' /\ Clean'
  BY <1>1, <1>2 DEF Inv, Asked, Counted, Labelled, Clean, odooVars, Linking
<1>8. Since'
  BY <1>1, <1>2 DEF Inv, Since, odooVars, sinceVars, InDomain, Borne
<1>9. CASE Cardinality(p) < PageLimit
  <2>1. p = s
    BY <1>5, <1>9, BoundsAssumption
  <2>2. always \subseteq had \cup p
    BY <2>1, <1>3, <1>4
  <2>3. had \cup p \subseteq ever
    BY <1>3, <1>5
  <2>4. AllTold'
    BY <1>1, <1>2, <1>6, <1>9, <2>2, <2>3, NamesApart
       DEF AllTold, PagesComplete, GetInScope, SkuTrue, Told, Answered, sinceVars
  <2> QED BY <1>1, <1>7, <1>8, <1>9, <2>4 DEF Inv, Walked
<1>10. CASE ~(Cardinality(p) < PageLimit)
  <2>1. had' = had \cup p /\ last' \in p /\ (\A i \in p : i <= last') /\ pc' = pc
    BY <1>1, <1>10
  <2>2. last' \in Nat /\ last < last'
    BY <2>1, <1>3, <1>4, <1>5
  <2>3. \A i \in had' : i \in ever /\ i \in Nat /\ i <= last'
    BY <2>1, <2>2, <1>3, <1>4, <1>5
  <2>4. \A i \in always : i <= last' => i \in had'
    <3> SUFFICES ASSUME NEW i \in always, i <= last', i \notin had' PROVE FALSE
      OBVIOUS
    <3>1. i \in Nat /\ i \in s \ p
      BY <2>1, <1>3, <1>4
    <3>2. last' < i
      BY <3>1, <2>1, <1>5
    <3> QED BY <3>1, <3>2, <2>2
  <2>5. Walked'
    BY <1>2, <1>6, <2>2, <2>3, <2>4 DEF Walked, sinceVars
  <2>6. AllTold'
    BY <1>2, <2>1 DEF AllTold, PagesComplete, GetInScope, SkuTrue, Told
  <2> QED BY <1>7, <1>8, <2>5, <2>6 DEF Inv
<1> QED BY <1>9, <1>10

(* Scoped count and get.                                                   *)
LEMMA CountInv == Inv /\ Count => Inv'
<1> SUFFICES ASSUME Inv, Count PROVE Inv'
  OBVIOUS
<1>1. pc = "count" /\ job.name \in Names /\ job.key \in Ids
  BY DEF Inv, Asked, Count
<1>2. always \subseteq InDomain /\ InDomain \subseteq ever
  BY <1>1 DEF Inv, Since
<1>3. CASE job.key \in InDomain
  <2>1. pc' = "get" /\ UNCHANGED <<odooVars, job, partVars, answer, sinceVars>>
    BY <1>3 DEF Count
  <2>2. Asked' /\ Counted' /\ Labelled'
    BY <2>1, <1>1, <1>2, <1>3 DEF Inv, Asked, Counted, Labelled, Linking, odooVars, sinceVars
  <2> QED BY <1>1, <2>1, <2>2, OnwardInv
<1>4. CASE job.key \notin InDomain
  <2>1. Finish("missing", {})
    BY <1>4 DEF Count
  <2>2. AllTold'
    BY <2>1, <1>1, <1>2, <1>4, NamesApart
       DEF Finish, Answered, AllTold, PagesComplete, GetInScope, SkuTrue, Told, sinceVars
  <2> QED BY <1>1, <2>1, <2>2, FinishInv
<1> QED BY <1>3, <1>4

LEMMA GetInv == Inv /\ Get => Inv'
<1> SUFFICES ASSUME Inv, Get PROVE Inv'
  OBVIOUS
<1>1. pc = "get" /\ job.name \in Names /\ job.key \in Ids
  BY DEF Inv, Asked, Get
<1>2. always \subseteq InDomain /\ InDomain \subseteq ever
  BY <1>1 DEF Inv, Since
<1>3. CASE job.key \in there
  <2>1. Finish("rows", {job.key})
    BY <1>3 DEF Get
  <2>2. job.key \in ever
    BY <1>1, <1>2, <1>3 DEF Inv, Counted, InDomain
  <2>3. AllTold'
    BY <2>1, <2>2, <1>1, NamesApart, NoneApart
       DEF Finish, Answered, AllTold, PagesComplete, GetInScope, SkuTrue, Told, sinceVars
  <2> QED BY <1>1, <2>1, <2>3, FinishInv
<1>4. CASE job.key \notin there
  <2>1. Finish("missing", {})
    BY <1>4 DEF Get
  <2>2. job.key \notin always
    BY <1>2, <1>4 DEF InDomain
  <2>3. AllTold'
    BY <2>1, <2>2, <1>1, NamesApart
       DEF Finish, Answered, AllTold, PagesComplete, GetInScope, SkuTrue, Told, sinceVars
  <2> QED BY <1>1, <2>1, <2>3, FinishInv
<1> QED BY <1>3, <1>4

(* A refusal tells nothing.                                                *)
LEMMA RefusedInv ==
  ASSUME Inv, pc \notin {"idle", "walk"}, Finish("refused", {})
  PROVE  Inv'
<1>1. AllTold'
  BY DEF Finish, Answered, AllTold, PagesComplete, GetInScope, SkuTrue, Told
<1> QED BY <1>1, FinishInv

(* The links and their codes.                                              *)
LEMMA ResolveInv == Inv /\ Resolve => Inv'
<1> SUFFICES ASSUME Inv, Resolve PROVE Inv'
  OBVIOUS
<1>1. pc = "resolve" /\ job.name = "ProductSupplier" /\ job.key \in Codes
  BY DEF Inv, Asked, Resolve
<1>2. Borne(codes) \subseteq bore
  BY <1>1 DEF Inv, Since
<1>3. ASSUME NEW v \in Variants, codes[v] = job.key, tmpl' = Template[v], pc' = "links",
             UNCHANGED <<odooVars, job, last, had, labels, again, answer, sinceVars>>
      PROVE  Inv'
  <2>1. <<v, job.key>> \in bore
    BY <1>2, <1>3 DEF Borne
  <2>2. Template[v] # None
    BY ProductsAssumption
  <2>3. Asked' /\ Counted' /\ Labelled'
    BY <1>1, <1>3, <2>1, <2>2
       DEF Inv, Asked, Counted, Labelled, Linking, odooVars, sinceVars
  <2> QED BY <1>1, <1>3, <2>3, OnwardInv
<1>4. ASSUME Finish("rows", {}) PROVE Inv'
  <2>1. AllTold'
    BY <1>1, <1>4, NamesApart
       DEF Finish, Answered, AllTold, PagesComplete, GetInScope, SkuTrue, Told
  <2> QED BY <1>1, <1>4, <2>1, FinishInv
<1> QED BY <1>3, <1>4 DEF Resolve

LEMMA FetchLinksInv == Inv /\ FetchLinks => Inv'
<1> SUFFICES ASSUME Inv, FetchLinks PROVE Inv'
  OBVIOUS
<1>1. /\ pc = "links" /\ pc' = "by_id"
      /\ had' = {l \in Links : tmpl = None \/ l.tmpl = tmpl}
      /\ UNCHANGED <<odooVars, job, last, tmpl, labels, again, answer, sinceVars>>
  BY DEF FetchLinks
<1>2. Asked' /\ Counted'
  BY <1>1 DEF Inv, Asked, Counted, Linking, odooVars
<1>3. Labelled'
  BY <1>1 DEF Inv, Labelled, Linking, sinceVars
<1> QED BY <1>1, <1>2, <1>3, OnwardInv

LEMMA CodesByIdInv == Inv /\ CodesById => Inv'
<1> SUFFICES ASSUME Inv, CodesById PROVE Inv'
  OBVIOUS
<1>1. /\ pc = "by_id" /\ pc' = "by_template"
      /\ labels' = {<<"id", v, codes[v]>> :
              v \in {v \in Variants : codes[v] # None /\ \E l \in had : l.product = v}}
      /\ UNCHANGED <<odooVars, job, last, tmpl, had, again, answer, sinceVars>>
  BY DEF CodesById
<1>2. /\ job.name = "ProductSupplier" /\ Borne(codes) \subseteq bore
      /\ codes \in [Variants -> Codes \cup {None}] /\ had \subseteq Links
  BY <1>1 DEF Inv, Asked, Since, Labelled, Linking
<1>3. Asked' /\ Counted'
  BY <1>1 DEF Inv, Asked, Counted, Linking, odooVars
<1>4. \A x \in labels' : \E v \in Variants, c \in Codes \cup {None} :
         x = <<"id", v, c>> /\ <<v, c>> \in bore
  BY <1>1, <1>2 DEF Borne
<1>5. \A l \in had : l.product # None =>
         <<l.product, None>> \in bore \/ \E x \in labels' : x[1] = "id" /\ x[2] = l.product
  <2> SUFFICES ASSUME NEW l \in had, l.product # None
               PROVE  \/ <<l.product, None>> \in bore
                      \/ \E x \in labels' : x[1] = "id" /\ x[2] = l.product
    OBVIOUS
  <2>1. l.product \in Variants
    BY <1>2, LinksAssumption
  <2>2. CASE codes[l.product] = None
    BY <1>2, <2>1, <2>2 DEF Borne
  <2>3. CASE codes[l.product] # None
    <3>1. <<"id", l.product, codes[l.product]>> \in labels'
      BY <1>1, <2>1, <2>3
    <3> QED BY <3>1
  <2> QED BY <2>2, <2>3
<1>6. Labelled'
  BY <1>1, <1>4, <1>5 DEF Inv, Labelled, Linking, sinceVars
<1> QED BY <1>1, <1>3, <1>6, OnwardInv

LEMMA CodesByTemplateInv == Inv /\ CodesByTemplate => Inv'
<1> SUFFICES ASSUME Inv, CodesByTemplate PROVE Inv'
  OBVIOUS
<1>0. PICK found \in VariantRows(had) :
        LET bearers(t) == {v \in found : Template[v] = t /\ codes[v] # None}
            wanted == {t \in {l.tmpl : l \in had} : bearers(t) # {}}
        IN \E f \in [wanted -> Variants] :
             /\ \A t \in wanted : f[t] \in bearers(t)
             /\ LET c == labels \cup {<<"tmpl", t, codes[f[t]]>> : t \in wanted} IN
                Finish("rows", {<<l, Label(c, l)>> : l \in had})
  BY DEF CodesByTemplate
<1> DEFINE bearers(t) == {v \in found : Template[v] = t /\ codes[v] # None}
           wanted == {t \in {l.tmpl : l \in had} : bearers(t) # {}}
<1>1. PICK f \in [wanted -> Variants] :
        /\ \A t \in wanted : f[t] \in bearers(t)
        /\ Finish("rows", {<<l, Label(labels \cup {<<"tmpl", t, codes[f[t]]>> : t \in wanted}, l)>> : l \in had})
  BY <1>0
<1> DEFINE c == labels \cup {<<"tmpl", t, codes[f[t]]>> : t \in wanted}
<1>2. /\ pc = "by_template" /\ job.name = "ProductSupplier" /\ Borne(codes) \subseteq bore
      /\ had \subseteq Links /\ \A l \in had : tmpl # None => l.tmpl = tmpl
  BY DEF Inv, Asked, Since, Labelled, Linking, CodesByTemplate
<1>3. ASSUME NEW x \in c, x[1] = "id"
      PROVE  x[2] \in Variants /\ <<x[2], x[3]>> \in bore /\ x \in labels
  <2>1. x \in labels
    BY <1>3
  <2>2. PICK v \in Variants, d \in Codes \cup {None} : x = <<"id", v, d>> /\ <<v, d>> \in bore
    BY <1>2, <2>1 DEF Inv, Labelled
  <2> QED BY <2>1, <2>2
<1>4. ASSUME NEW x \in c, x[1] = "tmpl"
      PROVE  \E v \in Variants : Template[v] = x[2] /\ <<v, x[3]>> \in bore
  <2>1. x \notin labels
    <3> SUFFICES ASSUME x \in labels PROVE FALSE
      OBVIOUS
    <3>1. PICK v, d : x = <<"id", v, d>>
      BY <1>2 DEF Inv, Labelled
    <3> QED BY <3>1, <1>4
  <2>2. PICK t \in wanted : x = <<"tmpl", t, codes[f[t]]>>
    BY <2>1
  <2>3. f[t] \in Variants /\ Template[f[t]] = t
    BY <1>1, <2>2
  <2> QED BY <1>2, <2>2, <2>3 DEF Borne
<1>5. ASSUME NEW l \in had
      PROVE  LET alike == {v \in Variants : Template[v] = l.tmpl} IN
             /\ \A s \in Label(c, l) : \E v \in alike :
                   /\ <<v, s>> \in bore
                   /\ v = l.product \/ l.product = None \/ <<l.product, None>> \in bore
             /\ Label(c, l) = {} /\ l.product # None => <<l.product, None>> \in bore
             /\ Label(c, l) = {} /\ Fits(had) => alike \X {None} \subseteq bore
             /\ job.key # None => \E v \in alike : <<v, job.key>> \in bore
  <2> DEFINE own == {x \in c : x[1] = "id" /\ x[2] = l.product}
             same == {x \in c : x[1] = "tmpl" /\ x[2] = l.tmpl}
             alike == {v \in Variants : Template[v] = l.tmpl}
  <2>1. Label(c, l) = {x[3] : x \in IF own # {} THEN own ELSE same}
    BY DEF Label
  <2>2. l \in Links
    BY <1>2
  <2>3. own = {} => l.product = None \/ <<l.product, None>> \in bore
    BY <1>2 DEF Inv, Labelled
  <2>4. ASSUME NEW s \in Label(c, l)
        PROVE  \E v \in alike :
                   /\ <<v, s>> \in bore
                   /\ v = l.product \/ l.product = None \/ <<l.product, None>> \in bore
    <3>1. CASE own # {}
      <4>1. PICK x \in own : s = x[3]
        BY <2>1, <2>4, <3>1
      <4>2. l.product \in Variants /\ <<l.product, s>> \in bore
        BY <1>3, <4>1
      <4>3. Template[l.product] = l.tmpl
        BY <2>2, <4>2, LinksAssumption, ProductsAssumption
      <4> QED BY <4>2, <4>3
    <3>2. CASE own = {}
      <4>1. PICK x \in same : s = x[3]
        BY <2>1, <2>4, <3>2
      <4>2. PICK v \in Variants : Template[v] = l.tmpl /\ <<v, s>> \in bore
        BY <1>4, <4>1
      <4> QED BY <2>3, <3>2, <4>2
    <3> QED BY <3>1, <3>2
  <2>5. ASSUME Label(c, l) = {}
        PROVE  own = {} /\ same = {}
    <3>1. own = {} /\ same = {}
      <4>1. (IF own # {} THEN own ELSE same) = {}
        <5> DEFINE chosen == IF own # {} THEN own ELSE same
        <5>1. Label(c, l) = {x[3] : x \in chosen}
          BY <2>1
        <5> HIDE DEF chosen
        <5>2. ASSUME NEW x \in chosen PROVE FALSE
          <6>1. x[3] \in {y[3] : y \in chosen}
            OBVIOUS
          <6> QED BY <6>1, <5>1, <2>5
        <5> QED BY <5>2 DEF chosen
      <4> QED BY <4>1
    <3> QED BY <3>1
  <2>8. ASSUME Label(c, l) = {}, Fits(had), NEW v \in alike
        PROVE  <<v, None>> \in bore
    <3>1. found = VariantsOf(had)
      BY <2>8 DEF VariantRows
    <3>2. l.tmpl \notin wanted
      <4> SUFFICES ASSUME l.tmpl \in wanted PROVE FALSE
        OBVIOUS
      <4>1. <<"tmpl", l.tmpl, codes[f[l.tmpl]]>> \in same
        OBVIOUS
      <4> QED BY <2>5, <2>8, <4>1
    <3>3. v \in found
      BY <3>1 DEF VariantsOf
    <3>4. codes[v] = None
      BY <3>2, <3>3
    <3> QED BY <1>2, <3>4 DEF Borne
  <2>6. ASSUME job.key # None PROVE \E v \in alike : <<v, job.key>> \in bore
    <3>1. PICK v \in Variants : Template[v] = tmpl /\ <<v, job.key>> \in bore
      BY <1>2, <2>6 DEF Inv, Labelled, Linking
    <3>2. tmpl # None
      BY <3>1, ProductsAssumption
    <3>3. l.tmpl = tmpl
      BY <1>2, <3>2
    <3> QED BY <3>1, <3>3
  <2>7. Label(c, l) = {} /\ Fits(had) => alike \X {None} \subseteq bore
    BY <2>8
  <2>9. Label(c, l) = {} /\ l.product # None => <<l.product, None>> \in bore
    BY <2>3, <2>5
  <2> HIDE DEF bearers, wanted, c, own, same
  <2> QED BY <2>4, <2>6, <2>7, <2>9
<1>6. /\ answer' = Answered("rows", {<<l, Label(c, l)>> : l \in had})
      /\ job' = job /\ bore' = bore
  BY <1>1 DEF Finish, sinceVars
<1> HIDE DEF c
<1>7. SkuTrue'
  <2>0. {q[1] : q \in answer'.rows} = had
    <3>1. answer'.rows = {<<l, Label(c, l)>> : l \in had}
      BY <1>6 DEF Answered
    <3>2. ASSUME NEW q \in answer'.rows PROVE q[1] \in had
      BY <3>1
    <3>3. ASSUME NEW l \in had PROVE \E q \in answer'.rows : q[1] = l
      <4>1. <<l, Label(c, l)>> \in answer'.rows
        BY <3>1
      <4> QED BY <4>1
    <3> QED BY <3>2, <3>3
  <2> SUFFICES ASSUME NEW r \in answer'.rows
               PROVE  LET l == r[1]
                          alike == {v \in Variants : Template[v] = l.tmpl}
                      IN /\ \A s \in r[2] : \E v \in alike :
                              /\ <<v, s>> \in bore
                              /\ v = l.product \/ l.product = None \/ <<l.product, None>> \in bore
                         /\ r[2] = {} /\ l.product # None =>
                              <<l.product, None>> \in bore
                         /\ r[2] = {} /\ Fits(had) => alike \X {None} \subseteq bore
                         /\ job.key # None => \E v \in alike : <<v, job.key>> \in bore
    BY <1>6, <2>0 DEF SkuTrue
  <2>1. PICK l \in had : r = <<l, Label(c, l)>>
    BY <1>6 DEF Answered
  <2>2. r[1] = l /\ r[2] = Label(c, l)
    BY <2>1
  <2> DEFINE alike == {v \in Variants : Template[v] = l.tmpl}
  <2>3. \A s \in r[2] : \E v \in alike :
          /\ <<v, s>> \in bore
          /\ v = l.product \/ l.product = None \/ <<l.product, None>> \in bore
    BY <1>5, <2>2
  <2>4. r[2] = {} /\ l.product # None => <<l.product, None>> \in bore
    BY <1>5, <2>2
  <2>5. r[2] = {} /\ Fits(had) => alike \X {None} \subseteq bore
    BY <1>5, <2>2
  <2>6. job.key # None => \E v \in alike : <<v, job.key>> \in bore
    BY <1>5
  <2> QED BY <2>2, <2>3, <2>4, <2>5, <2>6
<1>8. AllTold'
  BY <1>2, <1>6, <1>7, NamesApart DEF AllTold, PagesComplete, GetInScope
<1> QED BY <1>1, <1>2, <1>8, FinishInv

(* The history of a product.                                               *)
LEMMA HistoryInv == Inv /\ (ResolveTemplate \/ VariantLog) => Inv'
<1> SUFFICES ASSUME Inv, ResolveTemplate \/ VariantLog PROVE Inv'
  OBVIOUS
<1>1. /\ pc \in {"template", "variant_log"} /\ pc' \in {"variant_log", "template_log"}
      /\ UNCHANGED <<odooVars, job, answer, sinceVars>>
  BY DEF ResolveTemplate, VariantLog
<1>2. Asked' /\ Counted' /\ Labelled'
  BY <1>1 DEF Inv, Asked, Counted, Labelled, Linking, odooVars
<1> QED BY <1>1, <1>2, OnwardInv

LEMMA TemplateLogInv == Inv /\ TemplateLog => Inv'
<1> SUFFICES ASSUME Inv, TemplateLog PROVE Inv'
  OBVIOUS
<1>1. PICK s : Finish("rows", s)
  BY DEF TemplateLog
<1>2. pc = "template_log" /\ job.name = "Product"
  BY DEF Inv, Asked, TemplateLog
<1>3. AllTold'
  BY <1>1, <1>2, NamesApart DEF Finish, AllTold, PagesComplete, GetInScope, SkuTrue
<1> QED BY <1>1, <1>2, <1>3, FinishInv

-----------------------------------------------------------------------------
LEMMA StepInv == Inv /\ [Next]_vars => Inv'
<1> SUFFICES ASSUME Inv, [Next]_vars PROVE Inv'
  OBVIOUS
<1>1. CASE Ask
  <2>1. ASSUME NEW n \in Names, Begin("walk", n, None, None) PROVE Inv'
    BY <2>1, BeginInv
  <2>2. ASSUME NEW n \in Names, NEW i \in Ids,
               Begin(IF n \in Ranks THEN "count" ELSE "get", n, i, None)
        PROVE  Inv'
    BY <2>2, BeginInv
  <2>3. ASSUME NEW s \in Codes, Begin("resolve", "ProductSupplier", s, None) PROVE Inv'
    BY <2>3, BeginInv
  <2>4. ASSUME Begin("links", "ProductSupplier", None, None) PROVE Inv'
    BY <2>4, BeginInv
  <2>5. ASSUME NEW v \in Variants, NEW b \in Dates \cup {None},
               Begin("template", "Product", v, b)
        PROVE  Inv'
    BY <2>5, BeginInv
  <2> QED BY <1>1, <2>1, <2>2, <2>3, <2>4, <2>5 DEF Ask
<1>2. CASE CallFails \/ CountRefused
  BY <1>2, RefusedInv DEF CallFails, CountRefused
<1>3. CASE NextPage
  BY <1>3, NextPageInv
<1>4. CASE Count
  BY <1>4, CountInv
<1>5. CASE Get
  BY <1>5, GetInv
<1>6. CASE Resolve
  BY <1>6, ResolveInv
<1>7. CASE FetchLinks
  BY <1>7, FetchLinksInv
<1>8. CASE CodesById
  BY <1>8, CodesByIdInv
<1>9. CASE CodesByTemplate
  BY <1>9, CodesByTemplateInv
<1>10. CASE ResolveTemplate \/ VariantLog
  BY <1>10, HistoryInv
<1>11. CASE TemplateLog
  BY <1>11, TemplateLogInv
<1>12. CASE EditPartner
  BY <1>12, EditInv
<1>13. ASSUME NEW v \in Variants, NEW c \in Codes \cup {None}, Recode(v, c) PROVE Inv'
  BY <1>13, RecodeInv
<1>14. ASSUME NEW on \in Posts, NEW d \in Dates, Post(on, d) PROVE Inv'
  BY <1>14, AsideInv DEF Post, Edited
<1>15. CASE UNCHANGED vars
  BY <1>15, AsideInv DEF vars, odooVars, partVars, sinceVars
<1> QED BY <1>1, <1>2, <1>3, <1>4, <1>5, <1>6, <1>7, <1>8, <1>9, <1>10, <1>11,
           <1>12, <1>13, <1>14, <1>15 DEF Next, Reader, Others

THEOREM Invariance == Spec => []Inv
<1>1. Init => Inv
  BY InitInv
<1>2. Inv /\ [Next]_vars => Inv'
  BY StepInv
<1> QED BY <1>1, <1>2, PTL DEF Spec

(* A walk by keyset has every record that was in its domain throughout,    *)
(* none that never was, none twice, however many pages and edits.          *)
THEOREM WalkComplete == Spec => []PagesComplete
<1>1. Inv => PagesComplete
  BY DEF Inv, AllTold
<1> QED BY <1>1, Invariance, PTL

(* nil.get never answers a record that was outside its domain all along.   *)
THEOREM GetScoped == Spec => []GetInScope
<1>1. Inv => GetInScope
  BY DEF Inv, AllTold
<1> QED BY <1>1, Invariance, PTL

(* A link's sku is a code of its product, or of a variant of its template; *)
(* a link without one has no coded variant, if the search has room for all *)
(* the variants of its page.                                               *)
THEOREM SkusTrue == Spec => []SkuTrue
<1>1. Inv => SkuTrue
  BY DEF Inv, AllTold
<1> QED BY <1>1, Invariance, PTL

-----------------------------------------------------------------------------
(* The history of a product.                                               *)

(* Messages are numbered in the order in which they were posted.           *)
Numbered ==
  /\ messages \subseteq Message /\ IsFiniteSet(messages)
  /\ \A m \in messages : m.id <= Cardinality(messages)
  /\ \A m, n \in messages : m.id = n.id => m = n

(* s holds of the chatter on a record all that was known, or as many as    *)
(* asked for and all of them newer than what is missing.                   *)
Whole(s, on) ==
  /\ s \subseteq Chatter(messages, on) /\ Cardinality(s) <= ChangesLimit
  /\ \A m \in Chatter(known, on) \ s :
       Cardinality(s) = ChangesLimit /\ \A n \in s : Newer(n, m)

(* What the calls of a product's history have had so far.                  *)
Logged ==
  /\ pc \in {"template", "variant_log", "template_log"} => job.key \in Variants
  /\ pc \in {"variant_log", "template_log"} => tmpl = Template[job.key]
  /\ pc = "template_log" => Whole(had, <<"variant", job.key>>)

LogInv == Numbered /\ known \subseteq messages /\ Logged /\ ChangesWhole

Newers == {p \in Message \X Message : Newer(p[1], p[2])}

(* Two results that lack nothing newer than all they have, put together    *)
(* and cut, lack nothing newer than all that is left.                      *)
LEMMA CutMerge ==
  ASSUME NEW U, NEW R, Strict(R, U), Total(R, U), NEW N \in Nat \ {0},
         NEW a, a \subseteq U, IsFiniteSet(a), NEW b, b \subseteq U, IsFiniteSet(b),
         NEW m \in U, m \notin Leading(R, a \cup b, N),
         m \in a \/ (Cardinality(a) = N /\ \A n \in a : <<n, m>> \in R)
  PROVE  /\ Cardinality(Leading(R, a \cup b, N)) = N
         /\ \A n \in Leading(R, a \cup b, N) : <<n, m>> \in R
<1> DEFINE S == a \cup b
           F == Leading(R, S, N)
<1>1. IsFiniteSet(S) /\ S \subseteq U
  BY FS_Union
<1>2. Strict(R, S) /\ Total(R, S)
  BY <1>1 DEF Strict, Total
<1>3. /\ F \subseteq S /\ IsFiniteSet(F) /\ Cardinality(F) <= N
      /\ \A x \in S \ F : Cardinality(F) = N /\ \A y \in F : <<y, x>> \in R
  BY <1>1, <1>2, FirstOnes
<1> HIDE DEF F
<1>4. CASE m \in a
  BY <1>3, <1>4 DEF F
<1>5. CASE m \notin a /\ a \subseteq F
  <2>1. Cardinality(a) = N /\ \A n \in a : <<n, m>> \in R
    BY <1>5
  <2>2. Cardinality(a) <= Cardinality(F)
    BY <1>3, <1>5, FS_Subset
  <2>3. Cardinality(F) \in Nat
    BY <1>3, FS_CardinalityType
  <2>4. Cardinality(F) = Cardinality(a)
    BY <1>3, <2>1, <2>2, <2>3
  <2>5. F = a
    BY <1>3, <1>5, <2>4, FS_Subset
  <2> QED BY <2>1, <2>4, <2>5 DEF F
<1>6. CASE m \notin a /\ ~(a \subseteq F)
  <2>1. PICK h \in a : h \notin F
    BY <1>6
  <2>2. Cardinality(F) = N /\ \A y \in F : <<y, h>> \in R
    BY <1>3, <2>1
  <2>3. <<h, m>> \in R
    BY <1>6, <2>1
  <2>4. \A y \in F : <<y, m>> \in R
    BY <1>1, <1>3, <2>1, <2>2, <2>3 DEF Strict
  <2> QED BY <2>2, <2>4 DEF F
<1> QED BY <1>4, <1>5, <1>6

LEMMA NewerOrder ==
  ASSUME Numbered
  PROVE  Strict(Newers, messages) /\ Total(Newers, messages)
<1>1. \A m \in Message : m.date \in Nat /\ m.id \in Nat
  BY BoundsAssumption DEF Message
<1>2. messages \subseteq Message
  BY DEF Numbered
<1>3. \A m, n \in messages : <<m, n>> \in Newers <=> Newer(m, n)
  BY <1>2 DEF Newers
<1>4. Strict(Newers, messages)
  BY <1>1, <1>2, <1>3 DEF Strict, Newer
<1>5. Total(Newers, messages)
  <2> SUFFICES ASSUME NEW m \in messages, NEW n \in messages, m # n
               PROVE  Newer(m, n) \/ Newer(n, m)
    BY <1>3 DEF Total
  <2>1. m.id # n.id
    BY DEF Numbered
  <2>2. m.date \in Nat /\ n.date \in Nat /\ m.id \in Nat /\ n.id \in Nat
    BY <1>1, <1>2
  <2> QED BY <2>1, <2>2 DEF Newer
<1> QED BY <1>4, <1>5

LEMMA NewestIs ==
  ASSUME Numbered, NEW s, s \subseteq messages
  PROVE  Newest(s) = Leading(Newers, s, ChangesLimit)
<1>1. \A m \in s : {n \in s : Newer(n, m)} = Smaller(Newers, s, m)
  BY DEF Smaller, Newers, Numbered
<1> QED BY <1>1 DEF Newest, Leading

LEMMA NewestWhole ==
  ASSUME Numbered, known \subseteq messages, NEW on
  PROVE  Whole(Newest(Chatter(messages, on)), on)
<1> DEFINE s == Chatter(messages, on)
           F == Leading(Newers, s, ChangesLimit)
<1>1. s \subseteq messages /\ Chatter(known, on) \subseteq s
  BY DEF Chatter
<1>2. IsFiniteSet(s)
  BY <1>1, FS_Subset DEF Numbered
<1>3. Strict(Newers, s) /\ Total(Newers, s)
  BY <1>1, NewerOrder DEF Strict, Total
<1>4. ChangesLimit \in Nat \ {0}
  BY BoundsAssumption
<1> HIDE DEF s
<1>5. /\ F \subseteq s /\ Cardinality(F) <= ChangesLimit
      /\ \A x \in s \ F :
           Cardinality(F) = ChangesLimit /\ \A y \in F : <<y, x>> \in Newers
  BY <1>2, <1>3, <1>4, FirstOnes
<1>6. \A p \in Newers : Newer(p[1], p[2])
  BY DEF Newers
<1>7. \A x \in s \ F : Cardinality(F) = ChangesLimit /\ \A y \in F : Newer(y, x)
  BY <1>5, <1>6
<1>8. Newest(s) = F
  BY <1>1, NewestIs
<1> HIDE DEF F
<1> QED BY <1>1, <1>5, <1>7, <1>8 DEF Whole, s

LEMMA LogInit == Init => LogInv
<1> SUFFICES ASSUME Init PROVE LogInv
  OBVIOUS
<1>1. messages = {} /\ known = {} /\ pc = "idle" /\ answer = NoAnswer
  BY DEF Init
<1>2. Numbered
  BY <1>1, FS_EmptySet DEF Numbered
<1>3. Logged /\ ChangesWhole
  BY <1>1 DEF Logged, ChangesWhole, Told, NoAnswer
<1> QED BY <1>1, <1>2, <1>3 DEF LogInv

(* A step beside the history, and beside its answer.                       *)
LEMMA LogBeside ==
  ASSUME LogInv, UNCHANGED messages, known' \subseteq messages,
         pc' \notin {"template", "variant_log", "template_log"}, ChangesWhole'
  PROVE  LogInv'
BY DEF LogInv, Numbered, Logged

LEMMA LogStill ==
  ASSUME LogInv, UNCHANGED <<messages, known, pc, job, tmpl, had, answer>>
  PROVE  LogInv'
<1> USE DEF LogInv
<1>1. Numbered' /\ known' \subseteq messages'
  BY DEF Numbered
<1>2. Logged'
  BY DEF Logged, Whole, Chatter
<1>3. ChangesWhole'
  BY DEF ChangesWhole, Told, Chatter
<1> QED BY <1>1, <1>2, <1>3

LEMMA LogBegin ==
  ASSUME LogInv, NEW to, NEW name, NEW key, NEW before, Begin(to, name, key, before),
         to \notin {"idle", "variant_log", "template_log"},
         to = "template" => key \in Variants
  PROVE  LogInv'
<1>1. /\ pc' = to /\ UNCHANGED messages /\ known' \in {messages, {}}
      /\ job' = [name |-> name, key |-> key, before |-> before]
  BY DEF Begin, odooVars
<1>2. Numbered' /\ known' \subseteq messages'
  BY <1>1 DEF LogInv, Numbered
<1>3. Logged' /\ ChangesWhole'
  BY <1>1 DEF Logged, ChangesWhole, Told
<1> QED BY <1>2, <1>3 DEF LogInv

LEMMA LogPost ==
  ASSUME LogInv, NEW on \in Posts, NEW d \in Dates, Post(on, d)
  PROVE  LogInv'
<1> DEFINE new == [id |-> Cardinality(messages) + 1, on |-> on, date |-> d]
<1>1. /\ messages' = messages \cup {new}
      /\ UNCHANGED <<known, pc, job, tmpl, had, answer>>
  BY DEF Post, Edited, partVars
<1>2. /\ messages \subseteq Message /\ IsFiniteSet(messages)
      /\ Cardinality(messages) \in Nat
      /\ \A m \in messages : m.id \in Nat /\ m.id <= Cardinality(messages)
      /\ \A m, n \in messages : m.id = n.id => m = n
  BY FS_CardinalityType DEF LogInv, Numbered, Message
<1>3. new \in Message
  BY <1>2, ProductsAssumption DEF Message
<1>4. new.id = Cardinality(messages) + 1
  OBVIOUS
<1> HIDE DEF new
<1>5. new \notin messages
  BY <1>2, <1>4
<1>6. IsFiniteSet(messages') /\ Cardinality(messages') = Cardinality(messages) + 1
  BY <1>1, <1>2, <1>5, FS_AddElement
<1>7. Numbered'
  <2>1. \A m \in messages' : m.id <= Cardinality(messages')
    BY <1>1, <1>2, <1>4, <1>6
  <2>2. \A m, n \in messages' : m.id = n.id => m = n
    BY <1>1, <1>2, <1>4
  <2> QED BY <1>1, <1>2, <1>3, <1>6, <2>1, <2>2 DEF Numbered
<1>8. known' \subseteq messages'
  BY <1>1 DEF LogInv
<1>9. Logged'
  BY <1>1 DEF LogInv, Logged, Whole, Chatter
<1>10. ChangesWhole'
  BY <1>1 DEF LogInv, ChangesWhole, Told, Chatter
<1> QED BY <1>7, <1>8, <1>9, <1>10 DEF LogInv

LEMMA LogResolved == LogInv /\ ResolveTemplate => LogInv'
<1> SUFFICES ASSUME LogInv, ResolveTemplate PROVE LogInv'
  OBVIOUS
<1>1. /\ pc = "template" /\ pc' = "variant_log" /\ tmpl' = Template[job.key]
      /\ UNCHANGED <<messages, known, job>>
  BY DEF ResolveTemplate, odooVars, sinceVars
<1> QED BY <1>1 DEF LogInv, Numbered, Logged, ChangesWhole, Told

LEMMA LogVariant == LogInv /\ VariantLog => LogInv'
<1> SUFFICES ASSUME LogInv, VariantLog PROVE LogInv'
  OBVIOUS
<1>1. /\ pc = "variant_log" /\ pc' = "template_log"
      /\ had' = Newest(Chatter(messages, <<"variant", job.key>>))
      /\ UNCHANGED <<messages, known, job, tmpl>>
  BY DEF VariantLog, odooVars, sinceVars
<1>2. Whole(had', <<"variant", job.key>>)
  BY <1>1, NewestWhole DEF LogInv
<1>3. Logged'
  BY <1>1, <1>2 DEF LogInv, Logged, Whole, Chatter
<1>4. Numbered' /\ known' \subseteq messages' /\ ChangesWhole'
  BY <1>1 DEF LogInv, Numbered, ChangesWhole, Told
<1> QED BY <1>3, <1>4 DEF LogInv

LEMMA LogTold == LogInv /\ TemplateLog => LogInv'
<1> SUFFICES ASSUME LogInv, TemplateLog PROVE LogInv'
  OBVIOUS
<1> DEFINE a == had
           b == Newest(Chatter(messages, <<"template", tmpl>>))
           F == Leading(Newers, a \cup b, ChangesLimit)
           ours == {<<"variant", job.key>>, <<"template", Template[job.key]>>}
<1>1. /\ pc = "template_log" /\ pc' = "idle"
      /\ answer' = Answered("rows", Merged(a, b))
      /\ UNCHANGED <<messages, known, job>>
  BY DEF TemplateLog, Finish, odooVars, sinceVars
<1>2. /\ Numbered /\ known \subseteq messages /\ tmpl = Template[job.key]
      /\ Whole(a, <<"variant", job.key>>)
  BY <1>1 DEF LogInv, Logged
<1>3. Whole(b, <<"template", Template[job.key]>>)
  BY <1>2, NewestWhole
<1> HIDE DEF b
<1>4. a \subseteq messages /\ b \subseteq messages
  BY <1>2, <1>3 DEF Whole, Chatter
<1>5. IsFiniteSet(a) /\ IsFiniteSet(b) /\ IsFiniteSet(a \cup b)
  BY <1>2, <1>4, FS_Subset, FS_Union DEF Numbered
<1>6. Strict(Newers, messages) /\ Total(Newers, messages)
  BY <1>2, NewerOrder
<1>7. ChangesLimit \in Nat \ {0}
  BY BoundsAssumption
<1>8. Merged(a, b) = F
  BY <1>2, <1>4, NewestIs DEF Merged
<1>9. F \subseteq a \cup b /\ Cardinality(F) <= ChangesLimit
  <2>1. Strict(Newers, a \cup b) /\ Total(Newers, a \cup b)
    BY <1>4, <1>6 DEF Strict, Total
  <2> QED BY <2>1, <1>5, <1>7, FirstOnes
<1>10. \A m \in F : m.on \in ours
  <2>1. \A on, m : m \in Chatter(messages, on) => m.on = on
    BY DEF Chatter
  <2> QED BY <2>1, <1>2, <1>3, <1>9 DEF Whole
<1>11. \A p \in Newers : Newer(p[1], p[2])
  BY DEF Newers
<1>12. ASSUME NEW on \in ours, NEW m \in Chatter(known, on), m \notin F
       PROVE  Cardinality(F) = ChangesLimit /\ \A n \in F : Newer(n, m)
  <2>1. m \in messages
    BY <1>2 DEF Chatter
  <2>2. CASE on = <<"variant", job.key>>
    <3>1. m \in a \/ (Cardinality(a) = ChangesLimit /\ \A n \in a : Newer(n, m))
      BY <1>2, <2>2 DEF Whole
    <3>2. m \in a \/ (Cardinality(a) = ChangesLimit /\ \A n \in a : <<n, m>> \in Newers)
      BY <1>2, <1>4, <2>1, <3>1 DEF Newers, Numbered
    <3> HIDE DEF a
    <3>3. Cardinality(F) = ChangesLimit /\ \A n \in F : <<n, m>> \in Newers
      BY <1>4, <1>5, <1>6, <1>7, <1>12, <2>1, <3>2, CutMerge
    <3> QED BY <1>11, <3>3
  <2>3. CASE on = <<"template", Template[job.key]>>
    <3>1. m \in b \/ (Cardinality(b) = ChangesLimit /\ \A n \in b : Newer(n, m))
      BY <1>3, <2>3 DEF Whole
    <3>2. m \in b \/ (Cardinality(b) = ChangesLimit /\ \A n \in b : <<n, m>> \in Newers)
      BY <1>2, <1>4, <2>1, <3>1 DEF Newers, Numbered
    <3> HIDE DEF a
    <3>3. b \cup a = a \cup b
      OBVIOUS
    <3>4. m \notin Leading(Newers, b \cup a, ChangesLimit)
      BY <1>12, <3>3
    <3>5. /\ Cardinality(Leading(Newers, b \cup a, ChangesLimit)) = ChangesLimit
          /\ \A n \in Leading(Newers, b \cup a, ChangesLimit) : <<n, m>> \in Newers
      BY <1>4, <1>5, <1>6, <1>7, <2>1, <3>2, <3>4, CutMerge
    <3>6. Cardinality(F) = ChangesLimit /\ \A n \in F : <<n, m>> \in Newers
      BY <3>3, <3>5
    <3> QED BY <1>11, <3>6
  <2> QED BY <2>2, <2>3
<1> HIDE DEF a, F
<1>13. answer'.rows = F
  BY <1>1, <1>8 DEF Answered
<1>14. ChangesWhole'
  <2>1. ASSUME NEW m \in known, m.on \in ours, m \notin F,
               job.before # None => m.date < job.before
        PROVE  Cardinality(F) = ChangesLimit /\ \A n \in F : Newer(n, m)
    BY <2>1, <1>12 DEF Chatter
  <2>2. \A m \in answer'.rows :
           m.on \in {<<"variant", job'.key>>, <<"template", Template[job'.key]>>}
    BY <1>1, <1>10, <1>13
  <2>3. Cardinality(answer'.rows) <= ChangesLimit
    BY <1>9, <1>13
  <2>4. ASSUME NEW on \in {<<"variant", job'.key>>, <<"template", Template[job'.key]>>},
               NEW m \in known', m.on = on, job'.before # None => m.date < job'.before,
               m \notin answer'.rows
        PROVE  /\ Cardinality(answer'.rows) = ChangesLimit
               /\ \A n \in answer'.rows : Newer(n, m)
    <3>1. m \in known /\ m.on \in ours /\ m \notin F
          /\ (job.before # None => m.date < job.before)
      BY <1>1, <1>13, <2>4
    <3>2. Cardinality(F) = ChangesLimit /\ \A n \in F : Newer(n, m)
      BY <2>1, <3>1
    <3> QED BY <1>13, <3>2
  <2> QED BY <2>2, <2>3, <2>4 DEF ChangesWhole, Chatter
<1>15. Numbered' /\ known' \subseteq messages' /\ Logged'
  BY <1>1, <1>2 DEF Numbered, Logged
<1> QED BY <1>14, <1>15 DEF LogInv

(* What is asked by another name tells nothing of a history.               *)
LEMMA LogElsewhere ==
  ASSUME Inv, LogInv, pc \notin {"idle", "template", "variant_log", "template_log"},
         NextPage \/ Count \/ CountRefused \/ Get \/ Resolve \/ FetchLinks
           \/ CodesById \/ CodesByTemplate
  PROVE  LogInv'
<1>1. /\ UNCHANGED <<messages, known, job>>
      /\ pc' \notin {"template", "variant_log", "template_log"}
  BY DEF NextPage, Count, CountRefused, Get, Resolve, FetchLinks, CodesById,
         CodesByTemplate, Finish, odooVars, sinceVars
<1>2. job.name # "Product"
  <2>1. pc \in {"walk", "count", "get", "resolve", "links", "by_id", "by_template"}
    BY DEF NextPage, Count, CountRefused, Get, Resolve, FetchLinks, CodesById,
           CodesByTemplate
  <2> QED BY <2>1, NamesApart DEF Inv, Asked, Linking
<1>3. ChangesWhole'
  BY <1>1, <1>2 DEF ChangesWhole
<1> QED BY <1>1, <1>3, LogBeside DEF LogInv

LEMMA LogStep == Inv /\ LogInv /\ [Next]_vars => LogInv'
<1> SUFFICES ASSUME Inv, LogInv, [Next]_vars PROVE LogInv'
  OBVIOUS
<1>1. CASE Ask
  <2>1. \A n : (IF n \in Ranks THEN "count" ELSE "get")
                 \notin {"idle", "template", "variant_log", "template_log"}
    OBVIOUS
  <2> QED BY <1>1, <2>1, LogBegin DEF Ask
<1>2. CASE CallFails
  <2>1. /\ UNCHANGED <<messages, known>> /\ pc' = "idle"
        /\ answer' = Answered("refused", {})
    BY <1>2 DEF CallFails, Finish, odooVars, sinceVars
  <2>2. ChangesWhole'
    BY <2>1 DEF ChangesWhole, Told, Answered
  <2> QED BY <2>1, <2>2, LogBeside DEF LogInv
<1>3. CASE NextPage \/ Count \/ CountRefused \/ Get \/ Resolve \/ FetchLinks
             \/ CodesById \/ CodesByTemplate
  <2>1. pc \notin {"idle", "template", "variant_log", "template_log"}
    BY <1>3 DEF NextPage, Count, CountRefused, Get, Resolve, FetchLinks, CodesById,
                CodesByTemplate
  <2> QED BY <1>3, <2>1, LogElsewhere
<1>4. CASE ResolveTemplate \/ VariantLog \/ TemplateLog
  BY <1>4, LogResolved, LogVariant, LogTold
<1>5. CASE EditPartner
  BY <1>5, LogStill DEF EditPartner, Edited, partVars
<1>6. ASSUME NEW v \in Variants, NEW c \in Codes \cup {None}, Recode(v, c) PROVE LogInv'
  BY <1>6, LogStill DEF Recode, Edited, partVars
<1>7. ASSUME NEW on \in Posts, NEW d \in Dates, Post(on, d) PROVE LogInv'
  BY <1>7, LogPost
<1>8. CASE UNCHANGED vars
  BY <1>8, LogStill DEF vars, odooVars, partVars, sinceVars
<1> QED BY <1>1, <1>2, <1>3, <1>4, <1>5, <1>6, <1>7, <1>8 DEF Next, Reader, Others

(* The history of a product misses no message that was there when it was   *)
(* asked for but for want of room, and then only older ones.               *)
THEOREM HistoryWhole == Spec => []ChangesWhole
<1>1. LogInv => ChangesWhole
  BY DEF LogInv
<1> QED BY <1>1, LogInit, LogStep, Invariance, PTL DEF Spec

-----------------------------------------------------------------------------
(* What the two invariants leave open of ReadPlane's types.                *)
Spans == /\ edits \in 0 .. MaxEdits /\ last \in 0 .. MaxIds
         /\ always \subseteq Ids /\ ever \subseteq Ids /\ bore \subseteq Bearing
Sorts == ranks \in [Ids -> SUBSET Ranks] /\ again \in BOOLEAN

LEMMA TypesAre == Inv /\ LogInv /\ Spans /\ Sorts => TypeOK
BY DEF Inv, Asked, LogInv, Numbered, Spans, Sorts, TypeOK

LEMMA PartnersAre == Inv => InDomain \subseteq Ids
<1> SUFFICES ASSUME Inv PROVE there \subseteq Ids
  BY DEF InDomain
<1>1. MaxIds \in Nat /\ born \in 0 .. MaxIds /\ there \subseteq 1 .. born
  BY PartnersAssumption DEF Inv, Asked
<1> QED BY <1>1 DEF Ids

LEMMA BorneAre == Inv => Borne(codes) \subseteq Bearing
BY DEF Inv, Asked, Borne, Bearing

LEMMA TypesFirst == Init => Spans /\ Sorts
<1> SUFFICES ASSUME Init PROVE Spans /\ Sorts
  OBVIOUS
<1>1. Spans
  BY PartnersAssumption, BoundsAssumption DEF Init, Spans
<1>2. \A i \in 1 .. Len(FirstPartners) : FirstPartners[i] \in SUBSET Ranks
  BY PartnersAssumption
<1>3. Sorts
  BY <1>2 DEF Init, Sorts
<1> QED BY <1>1, <1>3

LEMMA SpansStep == Inv /\ Inv' /\ Spans /\ [Next]_vars => Spans'
<1> SUFFICES ASSUME Inv, Inv', Spans, [Next]_vars PROVE Spans'
  OBVIOUS
<1> USE DEF Spans
<1>1. InDomain' \subseteq Ids /\ Borne(codes)' \subseteq Bearing
  <2>1. (InDomain \subseteq Ids)' /\ (Borne(codes) \subseteq Bearing)'
    BY PartnersAre, BorneAre, PTL
  <2> QED BY <2>1
<1>2. ASSUME NEW to, NEW name, NEW key, NEW before, Begin(to, name, key, before)
      PROVE  Spans'
  <2>1. UNCHANGED <<edits, last>>
    BY <1>2 DEF Begin, odooVars
  <2>2. always' \subseteq Ids /\ ever' \subseteq Ids
    BY <1>1, <1>2 DEF Begin
  <2>3. bore' \subseteq Bearing
    BY <1>2, BorneAre DEF Begin
  <2> QED BY <2>1, <2>2, <2>3
<1>3. CASE Ask
  BY <1>2, <1>3 DEF Ask
<1>4. ASSUME NEW is, NEW s, Finish(is, s) PROVE Spans'
  BY <1>4, PartnersAssumption DEF Finish, odooVars, sinceVars
<1>5. CASE NextPage
  <2>1. UNCHANGED <<edits, always, ever, bore>>
    BY <1>5 DEF NextPage, odooVars, sinceVars
  <2>2. last' \in InDomain \cup {last, 0}
    BY <1>5 DEF NextPage, Pages, PagesUnordered
  <2>3. last' \in 0 .. MaxIds
    BY <2>2, PartnersAre, PartnersAssumption DEF Ids
  <2> QED BY <2>1, <2>3
<1>6. CASE CallFails \/ Count \/ CountRefused \/ Get \/ Resolve
  BY <1>4, <1>6 DEF CallFails, Count, CountRefused, Get, Resolve, odooVars, partVars, sinceVars
<1>7. CASE FetchLinks \/ CodesById \/ CodesByTemplate
  BY <1>4, <1>7 DEF FetchLinks, CodesById, CodesByTemplate, odooVars, sinceVars
<1>8. CASE ResolveTemplate \/ VariantLog \/ TemplateLog
  BY <1>4, <1>8 DEF ResolveTemplate, VariantLog, TemplateLog, odooVars, sinceVars
<1>9. Edited => edits' \in 0 .. MaxEdits /\ last' = last
  BY BoundsAssumption DEF Edited, partVars
<1>10. CASE EditPartner
  BY <1>1, <1>9, <1>10 DEF EditPartner
<1>11. ASSUME NEW v \in Variants, NEW c \in Codes \cup {None}, Recode(v, c) PROVE Spans'
  <2>1. Edited /\ UNCHANGED <<always, ever>>
    BY <1>11 DEF Recode
  <2>2. Borne(codes') \subseteq Bearing
    BY <1>1 DEF Borne
  <2>3. bore' \subseteq Bearing
    BY <1>11, <2>2 DEF Recode
  <2> QED BY <1>9, <2>1, <2>3
<1>12. ASSUME NEW on \in Posts, NEW d \in Dates, Post(on, d) PROVE Spans'
  BY <1>9, <1>12 DEF Post
<1>13. CASE UNCHANGED vars
  BY <1>13 DEF vars, odooVars, partVars, sinceVars
<1> QED BY <1>3, <1>5, <1>6, <1>7, <1>8, <1>10, <1>11, <1>12, <1>13 DEF Next, Reader, Others

LEMMA SortsStep == Inv /\ Sorts /\ [Next]_vars => Sorts'
<1> SUFFICES ASSUME Inv, Sorts, [Next]_vars PROVE Sorts'
  OBVIOUS
<1> USE DEF Sorts
<1>1. ASSUME NEW to, NEW name, NEW key, NEW before, Begin(to, name, key, before)
      PROVE  Sorts'
  BY <1>1 DEF Begin, odooVars
<1>2. CASE Ask
  BY <1>1, <1>2 DEF Ask
<1>3. CASE NextPage
  BY <1>3 DEF NextPage, odooVars
<1>4. CASE Reader /\ ~Ask /\ ~NextPage
  <2>1. UNCHANGED <<ranks, again>>
    BY <1>4 DEF Reader, CallFails, Count, CountRefused, Get, Resolve, FetchLinks, CodesById,
                CodesByTemplate, ResolveTemplate, VariantLog, TemplateLog, Finish,
                odooVars, partVars
  <2> QED BY <2>1
<1>5. CASE EditPartner
  <2>1. again' = again
    BY <1>5 DEF EditPartner, Edited, partVars
  <2>2. ranks' \in [Ids -> SUBSET Ranks]
    BY <1>5 DEF EditPartner
  <2> QED BY <2>1, <2>2
<1>6. CASE Others /\ ~EditPartner
  BY <1>6 DEF Others, Recode, Post, Edited, partVars
<1>7. CASE UNCHANGED vars
  BY <1>7 DEF vars, odooVars, partVars
<1> QED BY <1>2, <1>3, <1>4, <1>5, <1>6, <1>7 DEF Next

(* Every variable of the reads keeps its type: there are no partners but   *)
(* those numbered so far, and no walk's cursor is beyond them.             *)
THEOREM TypeCorrect == Spec => []TypeOK
<1>1. Spec => [](Spans /\ Sorts)
  <2>1. Init => Spans /\ Sorts
    BY TypesFirst
  <2>2. Inv /\ Inv' /\ (Spans /\ Sorts) /\ [Next]_vars => (Spans /\ Sorts)'
    BY SpansStep, SortsStep
  <2> QED BY <2>1, <2>2, Invariance, PTL DEF Spec
<1>2. Spec => []LogInv
  BY LogInit, LogStep, Invariance, PTL DEF Spec
<1> QED BY <1>1, <1>2, TypesAre, Invariance, PTL

-----------------------------------------------------------------------------
(* Instants and their seconds.                                             *)

LEMMA Bounds ==
  /\ Grain \in Nat \ {0} /\ MaxTime \in Nat /\ MaxWrites \in Nat
  /\ \A m \in Moves : m \in Nat /\ m > 0
  /\ \A w \in Worlds : w.limit \in Nat \ {0}
<1>1. Grain \in Nat \ {0} /\ MaxTime \in Nat /\ MaxWrites \in Nat /\ Limits \subseteq Nat \ {0}
  BY FeedAssumption
<1>2. \A m \in Moves : m \in Nat /\ m > 0
  BY MovesAssumption
<1>3. \A w \in Worlds : w.limit \in Limits
  BY WorldsAssumption
<1> QED BY <1>1, <1>2, <1>3

LEMMA Division ==
  ASSUME NEW G \in Nat \ {0}, NEW i \in Nat
  PROVE  /\ i \div G \in Nat /\ (i \div G) * G \in Nat
         /\ (i \div G) * G <= i /\ i < (i \div G + 1) * G
         /\ i * G \in Nat /\ (i * G) \div G = i
OBVIOUS

LEMMA SecondOf ==
  ASSUME NEW i \in Nat
  PROVE  /\ Second(i) \in Nat /\ Second(i) * Grain \in Nat
         /\ Second(i) * Grain <= i /\ i < (Second(i) + 1) * Grain
BY Bounds, Division DEF Second

LEMMA SecondOfWhole ==
  ASSUME NEW k \in Nat
  PROVE  k * Grain \in Nat /\ Second(k * Grain) = k
BY Bounds, Division DEF Second

LEMMA Later ==
  ASSUME NEW j \in Nat, NEW k \in Nat, j < k
  PROVE  j * Grain < k * Grain /\ (j + 1) * Grain <= k * Grain
BY Bounds

LEMMA SecondGrows ==
  ASSUME NEW i \in Nat, NEW j \in Nat, i <= j
  PROVE  Second(i) <= Second(j)
<1> SUFFICES ASSUME Second(j) < Second(i) PROVE FALSE
  BY SecondOf
<1>1. (Second(j) + 1) * Grain <= Second(i) * Grain
  BY SecondOf, Later
<1>2. (Second(j) + 1) * Grain \in Nat
  <2>1. Second(j) + 1 \in Nat
    BY SecondOf
  <2> HIDE DEF Second
  <2> QED BY <2>1, SecondOfWhole
<1> QED BY <1>1, <1>2, SecondOf

-----------------------------------------------------------------------------
(* A row a search from the cursor c offers, and one it does not.           *)
Beyond(r, c) == r.at > c.sec * Grain \/ (r.at = c.sec * Grain /\ r.id > c.id)

Types ==
  /\ world \in Worlds
  /\ now \in Instants
  /\ rows \subseteq Row /\ IsFiniteSet(rows)
  /\ open \subseteq Row /\ IsFiniteSet(open)
  /\ delivered \subseteq Row
  /\ asked \in Nat
  /\ cursor \in Cursor
  /\ page \in FeedPage \cup {NoPage}
  /\ twice \in BOOLEAN

(* No row is of the future, and none is written in a page's own second.    *)
Dated ==
  /\ \A r \in rows : r.at <= now
  /\ \A r \in open : r.at <= now
  /\ asked <= Second(now) + 1
  /\ ~world.late => open = {}
  /\ world.whole => \A r \in rows \cup open : r.at = Second(r.at) * Grain

(* A cursor is of a second in which a page was read.                       *)
Placed(c) == c = [sec |-> 0, id |-> 0] \/ c.sec < asked

Cursors == Placed(cursor) /\ (page # NoPage => Placed(page.next))

(* What the cursors passed is delivered, or is on the page.                *)
Passed ==
  ~world.late /\ world.settled =>
    /\ \A r \in rows : Beyond(r, cursor) \/ r \in delivered
    /\ page # NoPage =>
         \A r \in rows : Beyond(r, page.next) \/ r \in delivered \cup page.rows

(* In whole seconds the cursor parts what is delivered from the page.      *)
Parted ==
  world.whole =>
    /\ ~twice
    /\ \A r \in delivered : ~Beyond(r, cursor)
    /\ page # NoPage =>
         /\ \A r \in page.rows : Beyond(r, cursor) /\ ~Beyond(r, page.next)
         /\ \A r \in delivered : ~Beyond(r, page.next)

FeedInv == Types /\ Dated /\ Cursors /\ Passed /\ Parted /\ CompleteIsTrue

LEMMA RowOf ==
  ASSUME NEW r \in Row
  PROVE  r.id \in Nat /\ r.id > 0 /\ r.at \in Nat
BY Bounds DEF Row, Instants

LEMMA CursorOf ==
  ASSUME NEW c \in Cursor
  PROVE  c.sec \in Nat /\ c.id \in Nat /\ c.sec * Grain \in Nat
<1>1. c.sec \in Nat /\ c.id \in Nat
  BY Bounds DEF Cursor
<1> QED BY <1>1, SecondOfWhole

LEMMA BehindIs ==
  ASSUME Types, NEW c \in Cursor
  PROVE  /\ Behind(c) = {r \in rows : ~Beyond(r, c)}
         /\ After(c) = {r \in rows : Beyond(r, c)}
<1>1. \A r \in rows : r.id \in Nat /\ r.at \in Nat
  BY RowOf DEF Types
<1> QED BY <1>1, CursorOf DEF Behind, After, Beyond

LEMMA FeedInitInv == FeedInit => FeedInv
<1> SUFFICES ASSUME FeedInit PROVE FeedInv
  OBVIOUS
<1>1. IsFiniteSet({})
  BY FS_EmptySet
<1>2. Types
  <2>1. now \in Instants
    BY Bounds DEF FeedInit, Instants
  <2>2. cursor \in Cursor
    BY DEF FeedInit, Cursor
  <2>3. rows = {} /\ open = {} /\ delivered = {} /\ asked = 0 /\ page = NoPage
        /\ twice = FALSE /\ world \in Worlds
    BY DEF FeedInit
  <2> QED BY <1>1, <2>1, <2>2, <2>3 DEF Types
<1>3. Second(0) \in Nat
  BY SecondOf
<1>4. Dated /\ Cursors
  BY <1>3 DEF FeedInit, Dated, Cursors, Placed
<1>5. Passed /\ Parted /\ CompleteIsTrue
  BY DEF FeedInit, Passed, Parted, CompleteIsTrue
<1> QED BY <1>2, <1>4, <1>5 DEF FeedInv

-----------------------------------------------------------------------------
(* A page.                                                                 *)

LEMMA BeforeOrder ==
  /\ \A r \in Row : ~Before(r, r)
  /\ \A r, q, s \in Row : Before(r, q) /\ Before(q, s) => Before(r, s)
  /\ \A r, q \in Row : r = q \/ Before(r, q) \/ Before(q, r)
<1>1. \A r \in Row : r.id \in Nat /\ r.at \in Nat
  BY RowOf
<1>2. \A r, q \in Row : r.id = q.id /\ r.at = q.at => r = q
  BY DEF Row
<1>3. \A r \in Row : ~Before(r, r)
  BY <1>1 DEF Before
<1>4. \A r, q, s \in Row : Before(r, q) /\ Before(q, s) => Before(r, s)
  BY <1>1 DEF Before
<1>5. \A r, q \in Row : r = q \/ Before(r, q) \/ Before(q, r)
  BY <1>1, <1>2 DEF Before
<1> QED BY <1>3, <1>4, <1>5

LEMMA FirstRowsAre ==
  ASSUME world \in Worlds, NEW S \in SUBSET Row, IsFiniteSet(S)
  PROVE  /\ FirstRows(S) \subseteq S /\ IsFiniteSet(FirstRows(S))
         /\ Cardinality(FirstRows(S)) \in Nat
         /\ \A r \in S \ FirstRows(S) :
              Cardinality(FirstRows(S)) = world.limit /\ \A q \in FirstRows(S) : Before(q, r)
<1> DEFINE R == {p \in Row \X Row : Before(p[1], p[2])}
<1>1. \A r, q \in S : <<q, r>> \in R <=> Before(q, r)
  OBVIOUS
<1> HIDE DEF R
<1>2. world.limit \in Nat \ {0}
  BY Bounds
<1>3. FirstRows(S) = Leading(R, S, world.limit)
  <2>1. \A r \in S : {q \in S : Before(q, r)} = Smaller(R, S, r)
    BY <1>1 DEF Smaller
  <2> QED BY <2>1 DEF FirstRows, Leading
<1>4. Strict(R, S) /\ Total(R, S)
  BY <1>1, BeforeOrder DEF Strict, Total
<1>5. \A r \in S \ FirstRows(S) :
         Cardinality(FirstRows(S)) = world.limit /\ \A q \in FirstRows(S) : <<q, r>> \in R
  BY <1>2, <1>3, <1>4, FirstOnes
<1>6. /\ FirstRows(S) \subseteq S /\ IsFiniteSet(FirstRows(S))
      /\ Cardinality(FirstRows(S)) \in Nat
  BY <1>2, <1>3, <1>4, FirstOnes
<1> QED BY <1>1, <1>5, <1>6

LEMMA LastRowIs ==
  ASSUME NEW S \in SUBSET Row, IsFiniteSet(S), S # {}
  PROVE  LastRow(S) \in S /\ \A q \in S : q = LastRow(S) \/ Before(q, LastRow(S))
<1> DEFINE R == {p \in Row \X Row : Before(p[2], p[1])}
<1>1. \A r, q \in S : <<q, r>> \in R <=> Before(r, q)
  OBVIOUS
<1> HIDE DEF R
<1>2. Strict(R, S)
  BY <1>1, BeforeOrder DEF Strict
<1>3. PICK x \in S : \A y \in S : <<y, x>> \notin R
  BY <1>2, FiniteMin
<1>4. \A q \in S : q = x \/ Before(q, x)
  BY <1>1, <1>3, BeforeOrder
<1> QED BY <1>4 DEF LastRow

(* The next cursor has nothing of the page beyond it, and nothing that is  *)
(* not of the page, and was beyond the cursor, behind it.                  *)
LEMMA NextCursorIs ==
  ASSUME FeedInv, NEW s, s = FirstRows(After(cursor))
  PROVE  /\ s \subseteq rows /\ IsFiniteSet(s) /\ Cardinality(s) \in Nat
         /\ \A r \in s : Beyond(r, cursor)
         /\ NextCursor(cursor, s) \in Cursor
         /\ NextCursor(cursor, s) = cursor \/ NextCursor(cursor, s).sec <= Second(now)
         /\ \A r \in rows : ~Beyond(r, NextCursor(cursor, s)) => r \in s \/ ~Beyond(r, cursor)
         /\ world.whole =>
              /\ \A r \in s : ~Beyond(r, NextCursor(cursor, s))
              /\ \A r \in Row : ~Beyond(r, cursor) => ~Beyond(r, NextCursor(cursor, s))
         /\ Cardinality(s) < world.limit => \A r \in rows : Beyond(r, cursor) => r \in s
<1> DEFINE A == After(cursor)
           n == NextCursor(cursor, s)
<1>1. /\ A = {r \in rows : Beyond(r, cursor)} /\ A \subseteq rows
      /\ rows \subseteq Row /\ cursor \in Cursor
  BY BehindIs DEF FeedInv, Types
<1>2. IsFiniteSet(A)
  BY <1>1, FS_Subset DEF FeedInv, Types
<1>3. /\ s \subseteq A /\ IsFiniteSet(s) /\ Cardinality(s) \in Nat
      /\ \A r \in A \ s : Cardinality(s) = world.limit /\ \A q \in s : Before(q, r)
  <2> HIDE DEF A
  <2> QED BY <1>1, <1>2, FirstRowsAre DEF FeedInv, Types, A
<1> HIDE DEF A
<1>4. world.limit \in Nat
  BY Bounds DEF FeedInv, Types
<1>5. Cardinality(s) < world.limit => \A r \in rows : Beyond(r, cursor) => r \in s
  BY <1>1, <1>3, <1>4
<1>6. CASE s = {}
  <2>1. n = cursor
    BY <1>6 DEF NextCursor
  <2> HIDE DEF n
  <2>2. \A r \in s : Beyond(r, cursor)
    BY <1>6
  <2> QED BY <1>1, <1>3, <1>5, <1>6, <2>1 DEF n
<1>7. CASE s # {}
  <2> DEFINE l == LastRow(s)
  <2>1. l \in s /\ \A q \in s : q = l \/ Before(q, l)
    BY <1>1, <1>3, <1>7, LastRowIs
  <2>2. n = [sec |-> Second(l.at), id |-> l.id]
    BY <1>7 DEF NextCursor
  <2> HIDE DEF l, n
  <2>3. l \in Row /\ l.at \in Nat /\ l.id \in Moves /\ l.id \in Nat /\ l.at <= now /\ Beyond(l, cursor)
    BY <1>1, <1>3, <2>1, RowOf DEF FeedInv, Dated, Row
  <2>4. Second(l.at) \in Nat /\ Second(l.at) * Grain \in Nat /\ Second(l.at) * Grain <= l.at
    BY <2>3, SecondOf
  <2>5. n \in Cursor /\ n.sec = Second(l.at) /\ n.id = l.id
    BY <2>2, <2>3, <2>4 DEF Cursor
  <2>6. n.sec <= Second(now)
    BY <2>3, <2>5, SecondGrows, Bounds DEF FeedInv, Types, Instants
  <2>7. ASSUME NEW r \in rows, ~Beyond(r, n), Beyond(r, cursor), r \notin s PROVE FALSE
    <3>1. r \in A
      BY <1>1, <2>7
    <3>2. Before(l, r)
      BY <1>3, <2>1, <2>7, <3>1
    <3>3. r.at \in Nat /\ r.id \in Nat
      BY <1>1, RowOf
    <3> QED BY <2>3, <2>4, <2>5, <2>7, <3>2, <3>3 DEF Before, Beyond
  <2>8. ASSUME world.whole PROVE n.sec * Grain = l.at
    BY <1>1, <1>3, <2>1, <2>5, <2>8 DEF FeedInv, Dated
  <2>9. ASSUME world.whole, NEW r \in s PROVE ~Beyond(r, n)
    <3>1. r = l \/ Before(r, l)
      BY <2>1
    <3>2. r.at \in Nat /\ r.id \in Nat
      BY <1>1, <1>3, RowOf
    <3>3. n.sec * Grain = l.at
      BY <2>8, <2>9
    <3> QED BY <2>3, <2>5, <3>1, <3>2, <3>3 DEF Before, Beyond
  <2>10. ASSUME world.whole, NEW r \in Row, ~Beyond(r, cursor) PROVE ~Beyond(r, n)
    <3>1. r.at \in Nat /\ r.id \in Nat
      BY RowOf
    <3>2. n.sec * Grain = l.at
      BY <2>8, <2>10
    <3>3. cursor.sec * Grain \in Nat /\ cursor.id \in Nat
      BY <1>1, CursorOf
    <3> QED BY <2>3, <2>5, <2>10, <3>1, <3>2, <3>3 DEF Beyond
  <2>11. \A r \in s : Beyond(r, cursor)
    BY <1>1, <1>3
  <2> QED BY <1>1, <1>3, <1>5, <2>5, <2>6, <2>7, <2>9, <2>10, <2>11 DEF n
<1> QED BY <1>6, <1>7

LEMMA LookInv == FeedInv /\ Look => FeedInv'
<1> SUFFICES ASSUME FeedInv, Look PROVE FeedInv'
  OBVIOUS
<1> DEFINE s == FirstRows(After(cursor))
           n == NextCursor(cursor, s)
           c == Cardinality(s) < world.limit
<1>1. /\ page = NoPage /\ page' = [rows |-> s, next |-> n, complete |-> c]
      /\ asked' = Second(now) + 1
      /\ UNCHANGED <<world, now, rows, open, writes, cursor, delivered, twice>>
  BY DEF Look
<1>2. /\ s \subseteq rows
      /\ \A r \in s : Beyond(r, cursor)
      /\ n \in Cursor
      /\ n = cursor \/ n.sec <= Second(now)
      /\ \A r \in rows : ~Beyond(r, n) => r \in s \/ ~Beyond(r, cursor)
      /\ world.whole =>
           /\ \A r \in s : ~Beyond(r, n)
           /\ \A r \in Row : ~Beyond(r, cursor) => ~Beyond(r, n)
      /\ c => \A r \in rows : Beyond(r, cursor) => r \in s
  BY NextCursorIs
<1>3. c \in BOOLEAN
  OBVIOUS
<1> HIDE DEF s, n, c
<1>4. page' \in FeedPage /\ page'.rows = s /\ page'.next = n /\ page'.complete = c /\ page' # NoPage
  BY <1>1, <1>2, <1>3, NoPageAssumption DEF FeedInv, Types, FeedPage
<1>5. now \in Nat /\ Second(now) \in Nat /\ asked' \in Nat /\ asked <= asked'
  <2>1. now \in Nat
    BY Bounds DEF FeedInv, Types, Instants
  <2> QED BY <1>1, <2>1, SecondOf DEF FeedInv, Types, Dated
<1>6. Types'
  BY <1>1, <1>4, <1>5 DEF FeedInv, Types
<1>7. Dated'
  BY <1>1, <1>5 DEF FeedInv, Dated
<1>8. Cursors'
  <2>1. cursor.sec \in Nat /\ n.sec \in Nat
    BY <1>2 DEF FeedInv, Types, Cursor
  <2>2. Placed(cursor)'
    BY <1>1, <1>5, <2>1 DEF FeedInv, Types, Cursors, Placed
  <2>3. n = [sec |-> 0, id |-> 0] \/ n.sec < asked'
    BY <1>1, <1>2, <1>5, <2>1, <2>2 DEF Placed
  <2> QED BY <1>4, <2>2, <2>3 DEF Cursors, Placed
<1>9. Passed'
  BY <1>1, <1>2, <1>4 DEF FeedInv, Passed
<1>10. Parted'
  BY <1>1, <1>2, <1>4 DEF FeedInv, Types, Parted
<1>11. CompleteIsTrue'
  BY <1>1, <1>2, <1>4 DEF FeedInv, Passed, CompleteIsTrue
<1> QED BY <1>6, <1>7, <1>8, <1>9, <1>10, <1>11 DEF FeedInv

LEMMA ReceiveInv == FeedInv /\ Receive => FeedInv'
<1> SUFFICES ASSUME FeedInv, Receive PROVE FeedInv'
  OBVIOUS
<1>1. /\ page # NoPage /\ page' = NoPage
      /\ delivered' = delivered \cup page.rows
      /\ twice' = (twice \/ page.rows \cap delivered # {})
      /\ cursor' = page.next
      /\ UNCHANGED <<world, now, rows, open, writes, asked>>
  BY DEF Receive
<1>2. page \in FeedPage /\ page.rows \subseteq Row /\ page.next \in Cursor
  BY <1>1 DEF FeedInv, Types, FeedPage
<1>3. twice' \in BOOLEAN
  BY <1>1
<1>4. Types'
  BY <1>1, <1>2, <1>3 DEF FeedInv, Types
<1>5. Dated' /\ Cursors' /\ CompleteIsTrue'
  BY <1>1 DEF FeedInv, Dated, Cursors, Placed, CompleteIsTrue
<1>6. Passed'
  BY <1>1 DEF FeedInv, Passed
<1>7. ASSUME world.whole PROVE page.rows \cap delivered = {}
  BY <1>1, <1>7 DEF FeedInv, Parted
<1>8. Parted'
  <2>1. world.whole => ~twice'
    BY <1>1, <1>7 DEF FeedInv, Parted
  <2> QED BY <1>1, <2>1 DEF FeedInv, Parted
<1> QED BY <1>4, <1>5, <1>6, <1>8 DEF FeedInv

LEMMA LoseInv == FeedInv /\ Lose => FeedInv'
<1> SUFFICES ASSUME FeedInv, Lose PROVE FeedInv'
  OBVIOUS
<1> USE DEF Lose, FeedInv
<1>1. Types' /\ Dated' /\ Cursors'
  BY DEF Types, Dated, Cursors, Placed
<1>2. Passed' /\ Parted' /\ CompleteIsTrue'
  BY DEF Passed, Parted, CompleteIsTrue
<1> QED BY <1>1, <1>2

-----------------------------------------------------------------------------
(* Odoo.                                                                   *)

(* What Odoo keeps of the present instant.                                 *)
LEMMA StampIs ==
  ASSUME Types
  PROVE  /\ Stamp \in Instants /\ Stamp <= now /\ Second(Stamp) = Second(now)
         /\ Second(now) * Grain <= Stamp
         /\ world.whole => Stamp = Second(Stamp) * Grain
<1>1. now \in Nat /\ now <= MaxTime /\ MaxTime \in Nat
  BY Bounds DEF Types, Instants
<1>2. /\ Second(now) \in Nat /\ Second(now) * Grain \in Nat
      /\ Second(now) * Grain <= now
      /\ Second(Second(now) * Grain) = Second(now)
  BY <1>1, SecondOf, SecondOfWhole
<1>3. CASE world.whole
  BY <1>1, <1>2, <1>3 DEF Stamp, Instants
<1>4. CASE ~world.whole
  BY <1>1, <1>2, <1>4 DEF Stamp, Instants
<1> QED BY <1>3, <1>4

(* A row written after a page was read is beyond every cursor there is.    *)
LEMMA WrittenBeyond ==
  ASSUME FeedInv, Second(now) >= asked, NEW r \in Row, r.at = Stamp,
         NEW c \in Cursor, Placed(c)
  PROVE  Beyond(r, c)
<1>1. now \in Nat /\ r.at \in Nat /\ r.id \in Nat /\ r.id > 0
  BY Bounds, RowOf DEF FeedInv, Types, Instants
<1>2. Second(now) \in Nat /\ Second(now) * Grain \in Nat /\ Second(now) * Grain <= r.at
  BY <1>1, SecondOf, StampIs DEF FeedInv
<1>3. CASE c = [sec |-> 0, id |-> 0]
  <2>1. c.sec * Grain = 0 /\ c.id = 0
    BY <1>3, Bounds
  <2> QED BY <1>1, <2>1 DEF Beyond
<1>4. CASE c.sec < asked
  <2>1. c.sec \in Nat /\ c.sec < Second(now) /\ c.sec * Grain \in Nat
    BY <1>2, <1>4, CursorOf DEF FeedInv, Types
  <2>2. c.sec * Grain < Second(now) * Grain
    BY <1>2, <2>1, Later
  <2> QED BY <1>1, <1>2, <2>1, <2>2 DEF Beyond
<1> QED BY <1>3, <1>4 DEF Placed

LEMMA WriteInv ==
  ASSUME FeedInv, NEW ids \in SUBSET Moves, Write(ids)
  PROVE  FeedInv'
<1> DEFINE new == {[id |-> m, at |-> Stamp] : m \in ids}
<1>1. /\ world.settled => Second(now) >= asked
      /\ IF world.late THEN open' = open \cup new /\ UNCHANGED rows
         ELSE rows' = Replaced(rows, new) /\ UNCHANGED open
      /\ UNCHANGED <<world, now, asked, cursor, page, delivered, twice>>
  BY DEF Write
<1>2. new \subseteq Row /\ \A r \in new : r.at = Stamp
  BY StampIs DEF FeedInv, Row
<1>3. IsFiniteSet(new)
  <2>1. IsFiniteSet(ids)
    BY MovesAssumption, FS_Subset
  <2> DEFINE R == {r \in Row : r.id \in ids}
             f == [m \in ids |-> [id |-> m, at |-> Stamp]]
  <2>2. f \in Surjection(ids, new)
    BY DEF Surjection
  <2> HIDE DEF f, new
  <2> QED BY <2>1, <2>2, FS_Surjection
<1> HIDE DEF new
<1>4. /\ rows' \subseteq rows \cup new /\ open' \subseteq open \cup new
      /\ ~world.late => open' = open
      /\ world.late => rows' = rows
  BY <1>1 DEF Replaced
<1>5. IsFiniteSet(rows') /\ IsFiniteSet(open')
  BY <1>3, <1>4, FS_Union, FS_Subset DEF FeedInv, Types
<1>6. Types'
  BY <1>1, <1>2, <1>4, <1>5 DEF FeedInv, Types
<1>7. Dated'
  <2>1. \A r \in new : r.at <= now /\ (world.whole => r.at = Second(r.at) * Grain)
    BY <1>2, StampIs DEF FeedInv
  <2> QED BY <1>1, <1>4, <2>1 DEF FeedInv, Dated
<1>8. Cursors' /\ Parted'
  BY <1>1 DEF FeedInv, Cursors, Placed, Parted
<1>9. ASSUME ~world.late, world.settled, NEW r \in new
      PROVE  /\ Beyond(r, cursor) /\ (page # NoPage => Beyond(r, page.next))
             /\ Second(r.at) >= asked
  <2>1. cursor \in Cursor /\ (page # NoPage => page.next \in Cursor)
    BY DEF FeedInv, Types, FeedPage
  <2> QED BY <1>1, <1>2, <1>9, <2>1, WrittenBeyond, StampIs DEF FeedInv, Cursors
<1>10. Passed'
  BY <1>1, <1>4, <1>9 DEF FeedInv, Passed
<1>11. CompleteIsTrue'
  BY <1>1, <1>4, <1>9 DEF FeedInv, CompleteIsTrue
<1> QED BY <1>6, <1>7, <1>8, <1>10, <1>11 DEF FeedInv

LEMMA CommitInv ==
  ASSUME FeedInv, NEW i, Commit(i)
  PROVE  FeedInv'
<1>1. PICK new \in SUBSET open :
        /\ new # {} /\ rows' = Replaced(rows, new) /\ open' = open \ new
        /\ UNCHANGED <<world, now, writes, asked, cursor, page, delivered, twice>>
  BY DEF Commit
<1>2. rows' \subseteq rows \cup open /\ open' \subseteq open
  BY <1>1 DEF Replaced
<1>3. world.late
  BY <1>1 DEF FeedInv, Dated
<1>4. IsFiniteSet(rows') /\ IsFiniteSet(open')
  BY <1>2, FS_Union, FS_Subset DEF FeedInv, Types
<1>5. Types'
  BY <1>1, <1>2, <1>4 DEF FeedInv, Types
<1>6. Dated'
  BY <1>1, <1>2, <1>3 DEF FeedInv, Dated
<1>7. Cursors' /\ Parted'
  BY <1>1 DEF FeedInv, Cursors, Placed, Parted
<1>8. Passed' /\ CompleteIsTrue'
  BY <1>1, <1>3 DEF Passed, CompleteIsTrue
<1> QED BY <1>5, <1>6, <1>7, <1>8 DEF FeedInv

LEMMA TickInv == FeedInv /\ Tick => FeedInv'
<1> SUFFICES ASSUME FeedInv, Tick PROVE FeedInv'
  OBVIOUS
<1>1. /\ now' = now + 1 /\ now' \in Instants /\ now \in Nat /\ now' \in Nat
      /\ UNCHANGED <<world, rows, open, writes, asked, cursor, page, delivered, twice>>
  BY Bounds DEF FeedInv, Types, Tick, Instants
<1>2. Second(now) \in Nat /\ Second(now') \in Nat /\ Second(now) <= Second(now')
  BY <1>1, SecondOf, SecondGrows
<1>3. Types'
  BY <1>1 DEF FeedInv, Types
<1>4. Dated'
  <2>1. \A r \in rows \cup open : r.at \in Nat
    BY RowOf DEF FeedInv, Types
  <2>2. asked' <= (Second(now) + 1)'
    BY <1>1, <1>2 DEF FeedInv, Types, Dated
  <2> QED BY <1>1, <2>1, <2>2 DEF FeedInv, Dated
<1>5. Cursors' /\ Passed' /\ Parted' /\ CompleteIsTrue'
  BY <1>1 DEF FeedInv, Cursors, Placed, Passed, Parted, CompleteIsTrue
<1> QED BY <1>3, <1>4, <1>5 DEF FeedInv

LEMMA StutterInv == FeedInv /\ UNCHANGED feedVars => FeedInv'
<1> SUFFICES ASSUME FeedInv, UNCHANGED feedVars PROVE FeedInv'
  OBVIOUS
<1> USE DEF feedVars, FeedInv
<1>1. Types' /\ Dated' /\ Cursors'
  BY DEF Types, Dated, Cursors, Placed
<1>2. Passed' /\ Parted' /\ CompleteIsTrue'
  BY DEF Passed, Parted, CompleteIsTrue
<1> QED BY <1>1, <1>2

THEOREM FeedInvariance == FeedSpec => []FeedInv
<1>1. FeedInit => FeedInv
  BY FeedInitInv
<1>2. FeedInv /\ [FeedNext]_feedVars => FeedInv'
  BY LookInv, ReceiveInv, LoseInv, WriteInv, CommitInv, TickInv, StutterInv DEF FeedNext
<1> QED BY <1>1, <1>2, PTL DEF FeedSpec

(* In the world the cursor was made for no done move is passed over, cut   *)
(* pages and shared dates notwithstanding.                                 *)
THEOREM NoneSkipped == FeedSpec => []NothingSkipped
<1>1. FeedInv => NothingSkipped
  BY BehindIs DEF FeedInv, Types, Passed, NothingSkipped
<1> QED BY <1>1, FeedInvariance, PTL

(* Where dates are whole seconds no row comes twice.                       *)
THEOREM NoneRepeated == FeedSpec => []NothingRepeated
<1>1. FeedInv => NothingRepeated
  BY DEF FeedInv, Parted, NothingRepeated
<1> QED BY <1>1, FeedInvariance, PTL

(* A page that says it is complete brings the consumer up to date.         *)
THEOREM CompletenessTrue == FeedSpec => []CompleteIsTrue
<1>1. FeedInv => CompleteIsTrue
  BY DEF FeedInv
<1> QED BY <1>1, FeedInvariance, PTL

(* The feed's variables keep their types: a page's next cursor is one, and *)
(* no more is written than the bound allows.                               *)
THEOREM FeedTypeCorrect == FeedSpec => []FeedTypeOK
<1> DEFINE W == writes \in 0 .. MaxWrites
<1>1. FeedInit => W
  BY Bounds DEF FeedInit
<1>2. W /\ [FeedNext]_feedVars => W'
  <2> SUFFICES ASSUME W, [FeedNext]_feedVars PROVE W'
    OBVIOUS
  <2>1. CASE \E ids \in (SUBSET Moves) \ {{}} : Write(ids)
    <3>1. writes < MaxWrites /\ writes' = writes + 1
      BY <2>1 DEF Write
    <3> QED BY <3>1, Bounds
  <2>2. CASE UNCHANGED writes
    BY <2>2
  <2> QED
    BY <2>1, <2>2 DEF FeedNext, Look, Receive, Lose, Tick, Commit, feedVars
<1>3. FeedInv /\ W => FeedTypeOK
  BY DEF FeedInv, Types, FeedTypeOK
<1> QED BY <1>1, <1>2, <1>3, FeedInvariance, PTL DEF FeedSpec
=============================================================================
