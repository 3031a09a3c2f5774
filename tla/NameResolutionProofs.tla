------------------------ MODULE NameResolutionProofs ------------------------
(***************************************************************************)
(* Proofs about NameResolution, for every directory, name, code, limit and *)
(* number of edits: the record a proposal names, the one its witness was   *)
(* taken of and the one COMMIT writes to are the same.                     *)
(***************************************************************************)
EXTENDS NameResolution, FiniteSetTheorems, TLAPS

(* The rows the searches for `ref` would have now, and what they come to.  *)
CodeRows == First(CodeLimit, Coded(req.ref))
NameRows == First(NameLimit, Like(req.ref))
CodeOne == OnlyOne(Pool(req.ref, CodeRows))
NameOne == OnlyOne(Pool(req.ref, NameRows))

(* The record `ref` stands for now, if any, and the one a preview names.   *)
RefNow ==
  IF req.ref \in Ids THEN req.ref
  ELSE IF req.ref \in CodeLike /\ CodeRows # {} THEN CodeOne ELSE NameOne

ShownNow ==
  IF req.ref \in Ids THEN IF req.ref \in DOMAIN dir THEN req.ref ELSE None
  ELSE NameOne

(* The record `who` stands for now, if any.                                *)
CodeHit == OnlyOne(Hits("code", req.who))
NameHit == OnlyOne(Hits("name", req.who))

WhoNow ==
  IF req.who \in DOMAIN dir THEN req.who
  ELSE IF CodeHit # None THEN CodeHit ELSE NameHit

-----------------------------------------------------------------------------
AfterRef == {"get", "listCode", "listName", "read", "label", "write"}
Finding == {"get", "listCode", "listName", "read"}
Has == pc \in {"read", "write"} /\ req.kind # "create"   \* `who` was found
Pending == answer \in {None, "proposal"}                  \* not executed yet

(* Which calls a request makes, and when it has its answer.                *)
Course ==
  /\ pc # "done" => answer = None
  /\ answer = "proposal" => phase = "propose"
  /\ pc = "code" => req.ref \in CodeLike
  /\ pc = "name" => req.ref \notin Ids
  /\ phase = "propose" => pc # "write"
  /\ phase = "commit" => pc \notin {"candidates", "label"}
  /\ req.kind = "create" => pc \notin Finding
  /\ req.kind = "delete" =>
       pc \in Finding \cup {"write", "done"} /\ (phase = "propose" => pc = "done")
  /\ phase = "propose" /\ req.kind # "update" => pc \notin Finding
  /\ req.kind # "update" => seen = None

(* A name is tried when no code was found.                                 *)
NameAfterCode == calm /\ pc = "name" /\ req.ref \in CodeLike => CodeRows = {}

(* The value is what `ref` stands for; the preview named that, or nothing. *)
ValueHolds ==
  calm /\ pc \in AfterRef /\ req.kind # "delete" => val = RefNow /\ val # None
ShownHolds == calm /\ Pending => shown \in {ShownNow, None}

(* What the gate has let pass has a record.                                *)
GateHolds ==
  calm /\ sound /\ req.kind # "delete"
       /\ (answer = "proposal" \/ (phase = "commit" /\ pc # "done")) =>
    RefNow # None

(* The record at hand is one that `who` stands for by some rule ...        *)
RecordHolds ==
  calm /\ Has => at # None /\ at \in DOMAIN dir /\ at \in {req.who, CodeHit, NameHit}

(* ... by the first that finds any, when no call has failed ...            *)
RecordFirst ==
  calm /\ sound =>
    /\ pc \in {"listCode", "listName"} => req.who \notin DOMAIN dir
    /\ pc = "listName" => CodeHit = None
    /\ Has => at = WhoNow
    /\ Pending => seen \in {WhoNow, None}

(* ... and an id's own, as long as there is such a record.                 *)
RecordById ==
  req.who \in DOMAIN dir =>
    /\ pc \notin {"listCode", "listName"}
    /\ Has => at = req.who
    /\ seen \in {req.who, None}

Inv ==
  /\ TypeOK /\ Course
  /\ NameAfterCode /\ ValueHolds /\ ShownHolds
  /\ GateHolds /\ GateMirrors
  /\ RecordHolds /\ RecordFirst /\ RecordById

-----------------------------------------------------------------------------
(* Searches.                                                               *)

LEMMA NoneApart == None \notin Ids /\ None \notin Words
BY NamesAssumption DEF Terms

LEMMA WordsApart == \A v \in Terms : v \in Ids <=> v \notin Words
BY NamesAssumption DEF Terms

LEMMA CodesAreWords == \A v \in CodeLike : v \in Words /\ v \notin Ids
BY NamesAssumption

LEMMA FirstIs ==
  ASSUME NEW n, NEW s
  PROVE  First(n, s) \subseteq s
BY DEF First

(* A search that may give as many rows as there are gives them all.        *)
LEMMA FirstWhole ==
  ASSUME NEW s, IsFiniteSet(s), s \subseteq Nat, NEW n \in Nat, Cardinality(s) <= n
  PROVE  First(n, s) = s
<1> SUFFICES ASSUME NEW r \in s PROVE Cardinality({q \in s : q < r}) < n
  BY DEF First
<1> DEFINE less == {q \in s : q < r}
<1>1. less \subseteq s \ {r}
  OBVIOUS
<1>2. IsFiniteSet(s \ {r}) /\ Cardinality(s \ {r}) = Cardinality(s) - 1
  BY FS_RemoveElement
<1>3. Cardinality(less) <= Cardinality(s \ {r})
  BY <1>1, <1>2, FS_Subset
<1>4. Cardinality(s) \in Nat /\ Cardinality(less) \in Nat
  BY <1>1, <1>2, FS_Subset, FS_CardinalityType
<1> QED BY <1>2, <1>3, <1>4

LEMMA OnlyOneIs ==
  ASSUME NEW s
  PROVE  OnlyOne(s) = None \/ OnlyOne(s) \in s
<1>1. Cardinality(s) = 1 => s # {}
  BY FS_EmptySet
<1> QED BY <1>1 DEF OnlyOne

LEMMA OnlyOneAlone ==
  ASSUME NEW s, IsFiniteSet(s), OnlyOne(s) # None
  PROVE  s = {OnlyOne(s)}
<1>1. Cardinality(s) = 1
  BY DEF OnlyOne
<1>2. PICK x : s = {x}
  BY <1>1, FS_Singleton
<1>3. OnlyOne(s) \in s
  BY OnlyOneIs
<1> QED BY <1>2, <1>3

(* What a search comes to is a record there is.                            *)
LEMMA RowsAre ==
  /\ CodeRows \subseteq Coded(req.ref) /\ NameRows \subseteq Like(req.ref)
  /\ CodeOne \in DOMAIN dir \cup {None} /\ NameOne \in DOMAIN dir \cup {None}
  /\ CodeHit \in DOMAIN dir \cup {None} /\ NameHit \in DOMAIN dir \cup {None}
<1>1. CodeRows \subseteq Coded(req.ref) /\ NameRows \subseteq Like(req.ref)
  BY FirstIs DEF CodeRows, NameRows
<1>2. Coded(req.ref) \subseteq DOMAIN dir /\ Like(req.ref) \subseteq DOMAIN dir
  BY DEF Coded, Like
<1>3. \A s : Pool(req.ref, s) \subseteq s
  BY DEF Pool
<1>4. \A f, v : Hits(f, v) \subseteq DOMAIN dir
  BY FirstIs DEF Hits, Listed
<1>5. CodeOne \in DOMAIN dir \cup {None} /\ NameOne \in DOMAIN dir \cup {None}
  BY <1>1, <1>2, <1>3, OnlyOneIs DEF CodeOne, NameOne
<1>6. CodeHit \in DOMAIN dir \cup {None} /\ NameHit \in DOMAIN dir \cup {None}
  BY <1>4, OnlyOneIs DEF CodeHit, NameHit
<1> QED BY <1>1, <1>5, <1>6

(* While the directory stays, so does what a search gives.                 *)
LEMMA Still ==
  ASSUME UNCHANGED <<dir, req>>
  PROVE  UNCHANGED <<CodeRows, CodeOne, NameOne, RefNow, ShownNow, CodeHit, NameHit, WhoNow>>
<1> USE DEF First, Like, Coded, Pool, Named, OnlyOne
<1>1. UNCHANGED <<CodeRows, NameRows>>
  BY DEF CodeRows, NameRows
<1>2. UNCHANGED <<CodeOne, NameOne>>
  BY <1>1 DEF CodeOne, NameOne
<1>3. UNCHANGED <<CodeHit, NameHit>>
  BY DEF CodeHit, NameHit, Hits, Listed
<1>4. UNCHANGED <<RefNow, ShownNow>>
  BY <1>1, <1>2 DEF RefNow, ShownNow
<1>5. UNCHANGED WhoNow
  BY <1>3 DEF WhoNow
<1> QED BY <1>1, <1>2, <1>3, <1>4, <1>5

-----------------------------------------------------------------------------
LEMMA InitInv == Init => Inv
<1> SUFFICES ASSUME Init PROVE Inv
  OBVIOUS
<1>1. req.kind \in Kinds /\ req.who \in Terms /\ req.ref \in Terms
  BY NamesAssumption DEF Init
<1>2. TypeOK
  <2>1. DOMAIN dir \subseteq Ids /\ \A r \in DOMAIN dir : dir[r] \in Record
    BY NamesAssumption DEF Init
  <2>2. 0 \in 0 .. MaxEdits
    BY NamesAssumption
  <2> QED BY <2>1, <2>2 DEF Init, TypeOK, Outcomes
<1>3. Course
  BY <1>1, WordsApart DEF Init, Course, Finding, Kinds
<1>4. NameAfterCode /\ ValueHolds /\ ShownHolds /\ GateHolds /\ GateMirrors
  BY NamesAssumption
     DEF Init, NameAfterCode, ValueHolds, ShownHolds, GateHolds, GateMirrors, AfterRef, Outcomes
<1>5. RecordHolds /\ RecordFirst /\ RecordById
  BY DEF Init, RecordHolds, RecordFirst, RecordById, Has
<1> QED BY <1>2, <1>3, <1>4, <1>5 DEF Inv

LEMMA Terming ==
  ASSUME Inv
  PROVE  /\ req.kind \in Kinds /\ req.who \in Terms /\ req.ref \in Terms
         /\ req.who # None /\ req.ref # None
         /\ req.ref \in Ids <=> req.ref \notin Words
         /\ DOMAIN dir \subseteq Ids /\ None \notin DOMAIN dir
         /\ sound \in BOOLEAN
<1>1. req \in Requests /\ DOMAIN dir \subseteq Ids /\ sound \in BOOLEAN
  BY DEF Inv, TypeOK
<1>2. req.kind \in Kinds /\ req.who \in Terms /\ req.ref \in Terms
  BY <1>1, NamesAssumption
<1> QED BY <1>1, <1>2, WordsApart, NoneApart, NamesAssumption DEF Terms

-----------------------------------------------------------------------------
(* What `ref` comes to.                                                    *)

(* A step at a search of `ref` ends with its record, ...                   *)
LEMMA ResolvedInv ==
  ASSUME Inv, pc \in {"ref", "code", "name"}, NEW r, Resolved(r), r \in Ids,
         calm => r = RefNow,
         UNCHANGED <<world, req, phase, at, told, cands, sound>>
  PROVE  Inv'
<1>1. UNCHANGED <<CodeRows, CodeOne, NameOne, RefNow, ShownNow, CodeHit, NameHit, WhoNow>>
  BY Still DEF world
<1>2. /\ UNCHANGED <<dir, req, phase, at, seen, shown, cands, edits, calm, sound, answer, witness>>
      /\ val' = r
      /\ pc' = IF phase = "propose"
               THEN IF req.kind = "update" THEN "get" ELSE "label"
               ELSE IF req.kind = "create" THEN "write" ELSE "get"
  BY DEF Resolved, Go, world, told
<1>3. req.kind \in Kinds /\ r # None /\ phase \in {"propose", "commit"}
  BY Terming, NoneApart DEF Inv, TypeOK
<1>4. TypeOK'
  BY <1>2 DEF Inv, TypeOK
<1>5. answer = None /\ req.kind # "delete"
  BY DEF Inv, Course, Finding
<1>6. Course'
  BY <1>2, <1>3, <1>5 DEF Inv, Course, Finding, Kinds
<1>7. NameAfterCode' /\ ValueHolds' /\ ShownHolds'
  BY <1>1, <1>2, <1>3, <1>5 DEF Inv, NameAfterCode, ValueHolds, ShownHolds, Pending
<1>8. GateHolds' /\ GateMirrors'
  BY <1>1, <1>2, <1>3, <1>5 DEF Inv, GateHolds, GateMirrors
<1>9. RecordHolds' /\ RecordFirst' /\ RecordById'
  BY <1>1, <1>2, <1>3, <1>5
     DEF Inv, RecordHolds, RecordFirst, RecordById, Has, Pending
<1> QED BY <1>4, <1>6, <1>7, <1>8, <1>9 DEF Inv

(* ... without one, ...                                                    *)
LEMMA NotResolvedInv ==
  ASSUME Inv, pc \in {"code", "name"}, NotResolved, calm => RefNow = None,
         UNCHANGED <<world, req, phase, at, told, cands, sound>>
  PROVE  Inv'
<1>1. UNCHANGED <<CodeRows, CodeOne, NameOne, RefNow, ShownNow, CodeHit, NameHit, WhoNow>>
  BY Still DEF world
<1>2. /\ UNCHANGED <<dir, req, phase, at, seen, shown, cands, edits, calm, sound, val, witness>>
      /\ IF phase = "propose" THEN pc' = "candidates" /\ answer' = answer
         ELSE pc' = "done" /\ answer' = "unresolved"
  BY DEF NotResolved, Go, Say, world, told
<1>3. req.kind \in Kinds /\ phase \in {"propose", "commit"}
  BY Terming DEF Inv, TypeOK
<1>4. TypeOK'
  BY <1>2 DEF Inv, TypeOK, Outcomes
<1>5. answer = None /\ req.kind # "delete"
  BY DEF Inv, Course, Finding
<1>6. Course'
  BY <1>2, <1>3, <1>5 DEF Inv, Course, Finding, Kinds
<1>7. NameAfterCode' /\ ValueHolds' /\ ShownHolds'
  BY <1>1, <1>2, <1>3, <1>5
     DEF Inv, NameAfterCode, ValueHolds, ShownHolds, Pending, AfterRef
<1>8. phase = "commit" => ~(calm /\ sound)
  BY <1>5 DEF Inv, GateHolds
<1>9. GateHolds' /\ GateMirrors'
  BY <1>1, <1>2, <1>3, <1>5, <1>8 DEF Inv, GateHolds, GateMirrors
<1>10. RecordHolds' /\ RecordFirst' /\ RecordById'
  BY <1>1, <1>2, <1>3, <1>5
     DEF Inv, RecordHolds, RecordFirst, RecordById, Has, Pending
<1> QED BY <1>4, <1>6, <1>7, <1>9, <1>10 DEF Inv

(* ... or goes on to the next search.                                      *)
LEMMA SearchOnInv ==
  ASSUME Inv, pc \in {"ref", "code"}, pc' \in {"code", "name"}, req.ref \notin Ids,
         pc' = "code" => req.ref \in CodeLike,
         calm /\ pc' = "name" /\ req.ref \in CodeLike => CodeRows = {},
         UNCHANGED <<answer, val, world, req, phase, at, told, cands, sound>>
  PROVE  Inv'
<1>1. UNCHANGED <<CodeRows, CodeOne, NameOne, RefNow, ShownNow, CodeHit, NameHit, WhoNow>>
  BY Still DEF world
<1>2. UNCHANGED <<dir, req, phase, at, seen, shown, cands, edits, calm, sound, answer, val, witness>>
  BY DEF world, told
<1>3. answer = None /\ req.kind # "delete"
  BY DEF Inv, Course, Finding
<1>4. TypeOK' /\ Course'
  BY <1>2, <1>3 DEF Inv, TypeOK, Course, Finding
<1>5. NameAfterCode' /\ ValueHolds' /\ ShownHolds'
  BY <1>1, <1>2, <1>3
     DEF Inv, NameAfterCode, ValueHolds, ShownHolds, Pending, AfterRef
<1>6. GateHolds' /\ GateMirrors'
  BY <1>1, <1>2, <1>3 DEF Inv, GateHolds, GateMirrors
<1>7. RecordHolds' /\ RecordFirst' /\ RecordById'
  BY <1>1, <1>2, <1>3
     DEF Inv, RecordHolds, RecordFirst, RecordById, Has, Pending
<1> QED BY <1>4, <1>5, <1>6, <1>7 DEF Inv

LEMMA ReferenceInv == Inv /\ Reference => Inv'
<1> SUFFICES ASSUME Inv, Reference PROVE Inv'
  OBVIOUS
<1>1. pc = "ref" /\ UNCHANGED <<world, req, phase, at, told, cands, sound>>
  BY DEF Reference
<1>2. CASE req.ref \in Ids
  <2>1. Resolved(req.ref) /\ req.ref = RefNow
    BY <1>2 DEF Reference, RefNow
  <2> QED BY <1>1, <1>2, <2>1, ResolvedInv
<1>3. CASE req.ref \notin Ids
  <2>1. /\ pc' = IF req.ref \in CodeLike THEN "code" ELSE "name"
        /\ UNCHANGED <<answer, val>>
    BY <1>3 DEF Reference, Go
  <2> QED BY <1>1, <1>3, <2>1, SearchOnInv
<1> QED BY <1>2, <1>3

LEMMA ByCodeInv == Inv /\ ByCode => Inv'
<1> SUFFICES ASSUME Inv, ByCode PROVE Inv'
  OBVIOUS
<1>1. pc = "code" /\ UNCHANGED <<world, req, phase, at, told, cands, sound>>
  BY DEF ByCode
<1>2. req.ref \in CodeLike /\ req.ref \notin Ids
  BY <1>1, CodesAreWords DEF Inv, Course
<1>3. CASE CodeRows = {}
  <2>1. pc' = "name" /\ UNCHANGED <<answer, val>>
    BY <1>3 DEF ByCode, Go, CodeRows
  <2> QED BY <1>1, <1>2, <1>3, <2>1, SearchOnInv
<1>4. CASE CodeRows # {}
  <2>1. IF CodeOne # None THEN Resolved(CodeOne) ELSE NotResolved
    BY <1>4 DEF ByCode, Settle, CodeRows, CodeOne
  <2>2. RefNow = CodeOne
    BY <1>2, <1>4 DEF RefNow
  <2>3. CodeOne # None => CodeOne \in Ids
    BY RowsAre, Terming
  <2>4. CASE CodeOne # None
    BY <1>1, <2>1, <2>2, <2>3, <2>4, ResolvedInv
  <2>5. CASE CodeOne = None
    BY <1>1, <2>1, <2>2, <2>5, NotResolvedInv
  <2> QED BY <2>4, <2>5
<1> QED BY <1>3, <1>4

LEMMA ByNameInv == Inv /\ ByName => Inv'
<1> SUFFICES ASSUME Inv, ByName PROVE Inv'
  OBVIOUS
<1>1. pc = "name" /\ UNCHANGED <<world, req, phase, at, told, cands, sound>>
  BY DEF ByName
<1>2. IF NameOne # None THEN Resolved(NameOne) ELSE NotResolved
  BY DEF ByName, Settle, NameRows, NameOne
<1>3. calm => RefNow = NameOne
  BY <1>1 DEF Inv, Course, NameAfterCode, RefNow
<1>4. NameOne # None => NameOne \in Ids
  BY RowsAre, Terming
<1>5. CASE NameOne # None
  BY <1>1, <1>2, <1>3, <1>4, <1>5, ResolvedInv
<1>6. CASE NameOne = None
  BY <1>1, <1>2, <1>3, <1>6, NotResolvedInv
<1> QED BY <1>5, <1>6

-----------------------------------------------------------------------------
(* What `who` comes to.                                                    *)

(* A step at a search of `who` ends with its record, ...                   *)
LEMMA FoundInv ==
  ASSUME Inv, pc \in {"get", "listCode", "listName"}, NEW r \in Ids, r \in DOMAIN dir, Found(r),
         r \in {req.who, CodeHit, NameHit},
         calm /\ sound => r = WhoNow,
         req.who \in DOMAIN dir => r = req.who,
         UNCHANGED <<world, req, phase, val, told, cands, sound>>
  PROVE  Inv'
<1>1. UNCHANGED <<CodeRows, CodeOne, NameOne, RefNow, ShownNow, CodeHit, NameHit, WhoNow>>
  BY Still DEF world
<1>2. /\ UNCHANGED <<dir, req, phase, val, seen, shown, cands, edits, calm, sound, answer, witness>>
      /\ at' = r /\ pc' = "read"
  BY DEF Found, Go, world, told
<1>3. answer = None /\ req.kind # "create" /\ r # None
  BY NoneApart DEF Inv, Course, Finding
<1>4. TypeOK' /\ Course'
  BY <1>2, <1>3 DEF Inv, TypeOK, Course, Finding
<1>5. NameAfterCode' /\ ValueHolds' /\ ShownHolds'
  BY <1>1, <1>2, <1>3
     DEF Inv, NameAfterCode, ValueHolds, ShownHolds, Pending, AfterRef
<1>6. GateHolds' /\ GateMirrors'
  BY <1>1, <1>2, <1>3 DEF Inv, GateHolds, GateMirrors
<1>7. RecordHolds' /\ RecordFirst' /\ RecordById'
  BY <1>1, <1>2, <1>3
     DEF Inv, RecordHolds, RecordFirst, RecordById, Has, Pending
<1> QED BY <1>4, <1>5, <1>6, <1>7 DEF Inv

(* ... or goes on to the next search, maybe because the call failed.       *)
LEMMA ListOnInv ==
  ASSUME Inv, pc \in {"get", "listCode"}, pc' \in {"listCode", "listName"},
         req.who \notin DOMAIN dir,
         sound' \in BOOLEAN, sound' => sound, sound' /\ pc' = "listName" => CodeHit = None,
         UNCHANGED <<at, answer, world, req, phase, val, told, cands>>
  PROVE  Inv'
<1>1. UNCHANGED <<CodeRows, CodeOne, NameOne, RefNow, ShownNow, CodeHit, NameHit, WhoNow>>
  BY Still DEF world
<1>2. UNCHANGED <<at, dir, req, phase, val, seen, shown, cands, edits, calm, answer, witness>>
  BY DEF world, told
<1>3. answer = None /\ req.kind # "create"
  BY DEF Inv, Course, Finding
<1>4. TypeOK' /\ Course'
  BY <1>2, <1>3 DEF Inv, TypeOK, Course, Finding
<1>5. NameAfterCode' /\ ValueHolds' /\ ShownHolds'
  BY <1>1, <1>2, <1>3
     DEF Inv, NameAfterCode, ValueHolds, ShownHolds, Pending, AfterRef
<1>6. GateHolds' /\ GateMirrors'
  BY <1>1, <1>2, <1>3 DEF Inv, TypeOK, GateHolds, GateMirrors
<1>7. RecordHolds' /\ RecordFirst' /\ RecordById'
  BY <1>1, <1>2, <1>3
     DEF Inv, RecordHolds, RecordFirst, RecordById, Has, Pending
<1> QED BY <1>4, <1>5, <1>6, <1>7 DEF Inv

(* An answer that is neither a proposal nor a want of a record.            *)
LEMMA EndInv ==
  ASSUME Inv, pc' = "done", answer' \in Outcomes \ {"proposal", "unresolved"},
         DOMAIN dir' \subseteq DOMAIN dir, TypeOK',
         UNCHANGED <<req, seen>>
  PROVE  Inv'
<1>1. answer' # None
  BY NamesAssumption
<1>2. Course'
  BY <1>1 DEF Inv, Course, Finding
<1>3. NameAfterCode' /\ ValueHolds' /\ ShownHolds' /\ GateHolds' /\ GateMirrors'
  BY <1>1 DEF NameAfterCode, ValueHolds, ShownHolds, GateHolds, GateMirrors,
              Pending, AfterRef
<1>4. RecordHolds' /\ RecordFirst' /\ RecordById'
  BY <1>1 DEF Inv, RecordHolds, RecordFirst, RecordById, Has, Pending
<1> QED BY <1>2, <1>3, <1>4 DEF Inv

(* The proposal, with a preview or after its call failed.                  *)
LEMMA ProposedInv ==
  ASSUME Inv, pc = "label", Say("proposal"), shown' \in {ShownNow, shown},
         sound' \in BOOLEAN, sound' => sound,
         UNCHANGED <<world, req, phase, val, at, seen, witness, cands>>
  PROVE  Inv'
<1>1. UNCHANGED <<CodeRows, CodeOne, NameOne, RefNow, ShownNow, CodeHit, NameHit, WhoNow>>
  BY Still DEF world
<1>2. /\ UNCHANGED <<dir, req, phase, val, at, seen, cands, edits, calm, witness>>
      /\ pc' = "done" /\ answer' = "proposal"
  BY DEF Say, world
<1>3. answer = None /\ phase = "propose" /\ req.kind # "delete"
  BY DEF Inv, TypeOK, Course, Finding
<1>4. ShownNow \in Ids \cup {None}
  BY RowsAre, Terming DEF ShownNow
<1>5. TypeOK'
  BY <1>2, <1>4 DEF Inv, TypeOK, Outcomes
<1>6. Course'
  BY <1>2, <1>3 DEF Inv, Course, Finding
<1>7. NameAfterCode' /\ ValueHolds' /\ ShownHolds'
  BY <1>1, <1>2, <1>3
     DEF Inv, NameAfterCode, ValueHolds, ShownHolds, Pending, AfterRef
<1>8. GateHolds' /\ GateMirrors'
  BY <1>1, <1>2, <1>3 DEF Inv, GateHolds, GateMirrors, ValueHolds, AfterRef
<1>9. RecordHolds' /\ RecordFirst' /\ RecordById'
  BY <1>1, <1>2, <1>3
     DEF Inv, TypeOK, RecordHolds, RecordFirst, RecordById, Has, Pending
<1> QED BY <1>5, <1>6, <1>7, <1>8, <1>9 DEF Inv

(* PROPOSE of an update goes on to the preview, with a witness or without. *)
LEMMA LabelOnInv ==
  ASSUME Inv, pc \in {"listName", "read"}, phase = "propose", pc' = "label",
         seen' = seen \/ (pc = "read" /\ seen' = at),
         sound' => sound, TypeOK',
         UNCHANGED <<answer, world, req, phase, val, shown>>
  PROVE  Inv'
<1>1. UNCHANGED <<CodeRows, CodeOne, NameOne, RefNow, ShownNow, CodeHit, NameHit, WhoNow>>
  BY Still DEF world
<1>2. UNCHANGED <<dir, req, phase, val, shown, edits, calm, answer>>
  BY DEF world
<1>3. answer = None /\ req.kind = "update"
  BY DEF Inv, Course, Finding
<1>4. Course'
  BY <1>2, <1>3 DEF Inv, Course, Finding
<1>5. NameAfterCode' /\ ValueHolds' /\ ShownHolds'
  BY <1>1, <1>2, <1>3
     DEF Inv, NameAfterCode, ValueHolds, ShownHolds, Pending, AfterRef
<1>6. GateHolds' /\ GateMirrors'
  BY <1>1, <1>2, <1>3, NamesAssumption
     DEF Inv, TypeOK, GateHolds, GateMirrors, Outcomes
<1>7. RecordHolds' /\ RecordFirst' /\ RecordById'
  BY <1>1, <1>2, <1>3
     DEF Inv, TypeOK, RecordHolds, RecordFirst, RecordById, Has, Pending
<1> QED BY <1>4, <1>5, <1>6, <1>7 DEF Inv

LEMMA CandidatesInv == Inv /\ Candidates => Inv'
<1> SUFFICES ASSUME Inv, Candidates PROVE Inv'
  OBVIOUS
<1>1. /\ pc' = "done" /\ answer' \in {"invalid", "ambiguous"}
      /\ UNCHANGED <<dir, edits, calm, req, phase, val, at, seen, witness, shown, sound>>
  BY DEF Candidates, Say, world, told
<1>2. cands' \subseteq Ids
  <2>1. cands' \subseteq DOMAIN dir
    BY FirstIs DEF Candidates, Like
  <2> QED BY <2>1, Terming
<1>3. TypeOK'
  BY <1>1, <1>2 DEF Inv, TypeOK, Outcomes
<1> QED BY <1>1, <1>3, EndInv DEF Outcomes

LEMMA GetRecordInv == Inv /\ GetRecord => Inv'
<1> SUFFICES ASSUME Inv, GetRecord PROVE Inv'
  OBVIOUS
<1>1. pc = "get" /\ UNCHANGED <<world, req, phase, val, told, cands, sound>>
  BY DEF GetRecord
<1>2. CASE req.who \in DOMAIN dir
  <2>1. Found(req.who)
    BY <1>2 DEF GetRecord
  <2>2. req.who \in Ids /\ req.who \in DOMAIN dir /\ req.who = WhoNow
    BY <1>2, Terming DEF WhoNow
  <2> QED BY <1>1, <2>1, <2>2, FoundInv
<1>3. CASE req.who \notin DOMAIN dir
  <2>1. pc' = "listCode" /\ UNCHANGED <<at, answer>>
    BY <1>3 DEF GetRecord, Go
  <2> QED BY <1>1, <1>3, <2>1, Terming, ListOnInv
<1> QED BY <1>2, <1>3

LEMMA ListCodeInv == Inv /\ ListCode => Inv'
<1> SUFFICES ASSUME Inv, ListCode PROVE Inv'
  OBVIOUS
<1>1. pc = "listCode" /\ UNCHANGED <<world, req, phase, val, told, cands, sound>>
  BY DEF ListCode
<1>2. req.who \notin DOMAIN dir
  BY <1>1 DEF Inv, RecordById
<1>3. CASE CodeHit # None
  <2>1. Found(CodeHit)
    BY <1>3 DEF ListCode, CodeHit
  <2>2. CodeHit \in Ids /\ CodeHit \in DOMAIN dir /\ CodeHit = WhoNow
    BY <1>2, <1>3, RowsAre, Terming DEF WhoNow
  <2> QED BY <1>1, <1>2, <2>1, <2>2, FoundInv
<1>4. CASE CodeHit = None
  <2>1. pc' = "listName" /\ UNCHANGED <<at, answer>>
    BY <1>4 DEF ListCode, Go, CodeHit
  <2> QED BY <1>1, <1>2, <1>4, <2>1, Terming, ListOnInv
<1> QED BY <1>3, <1>4

LEMMA ListNameInv == Inv /\ ListName => Inv'
<1> SUFFICES ASSUME Inv, ListName PROVE Inv'
  OBVIOUS
<1>1. pc = "listName" /\ UNCHANGED <<world, req, phase, val, told, cands, sound>>
  BY DEF ListName
<1>2. req.who \notin DOMAIN dir
  BY <1>1 DEF Inv, RecordById
<1>3. CASE NameHit # None
  <2>1. Found(NameHit)
    BY <1>3 DEF ListName, NameHit
  <2>2. NameHit \in Ids /\ NameHit \in DOMAIN dir /\ (calm /\ sound => NameHit = WhoNow)
    BY <1>1, <1>2, <1>3, RowsAre, Terming DEF WhoNow, Inv, RecordFirst
  <2> QED BY <1>1, <1>2, <2>1, <2>2, FoundInv
<1>4. CASE NameHit = None
  <2>1. NotFound
    BY <1>4 DEF ListName, NameHit
  <2>2. CASE phase = "propose"
    <3>1. pc' = "label" /\ answer' = answer /\ at' = None
      BY <2>1, <2>2 DEF NotFound, Go
    <3>2. TypeOK'
      BY <1>1, <3>1 DEF Inv, TypeOK, world, told
    <3> QED BY <1>1, <2>2, <3>1, <3>2, LabelOnInv DEF told
  <2>3. CASE phase # "propose"
    <3>1. pc' = "done" /\ answer' = "failed" /\ at' = None
      BY <2>1, <2>3 DEF NotFound, Say
    <3>2. TypeOK'
      BY <1>1, <3>1 DEF Inv, TypeOK, world, told, Outcomes
    <3> QED BY <1>1, <3>1, <3>2, EndInv DEF told, world, Outcomes
  <2> QED BY <2>2, <2>3
<1> QED BY <1>3, <1>4

-----------------------------------------------------------------------------
(* The record and the answer.                                              *)

LEMMA ReadRecordInv == Inv /\ ReadRecord => Inv'
<1> SUFFICES ASSUME Inv, ReadRecord PROVE Inv'
  OBVIOUS
<1>1. pc = "read" /\ UNCHANGED <<world, req, phase, val, at, shown, cands, sound>>
  BY DEF ReadRecord
<1>2. ValueOf(at) \in Ids \cup {None} /\ at \in Ids \cup {None}
  BY DEF Inv, TypeOK, Record, ValueOf
<1>3. CASE phase = "propose"
  <2>1. seen' = at /\ witness' = ValueOf(at) /\ pc' = "label" /\ answer' = answer
    BY <1>3 DEF ReadRecord, Go
  <2>2. TypeOK'
    BY <1>1, <1>2, <2>1 DEF Inv, TypeOK, world
  <2> QED BY <1>1, <1>3, <2>1, <2>2, LabelOnInv
<1>4. CASE phase # "propose" /\ answer' # answer
  <2>1. UNCHANGED <<seen, witness>> /\ pc' = "done" /\ answer' = "drifted"
    BY <1>4 DEF ReadRecord, Say, Go
  <2>2. TypeOK'
    BY <1>1, <2>1 DEF Inv, TypeOK, world, Outcomes
  <2> QED BY <1>1, <2>1, <2>2, EndInv DEF world, Outcomes
<1>5. CASE phase # "propose" /\ answer' = answer
  <2>1. answer = None /\ req.kind # "create" /\ None # "drifted"
    BY <1>1, NamesAssumption DEF Inv, Course, Finding, Outcomes
  <2>2. UNCHANGED <<seen, witness, answer>> /\ pc' = "write"
    BY <1>5, <2>1 DEF ReadRecord, Say, Go
  <2>3. UNCHANGED <<dir, edits, calm>>
    BY <1>1 DEF world
  <2>4. UNCHANGED <<CodeRows, CodeOne, NameOne, RefNow, ShownNow, CodeHit, NameHit, WhoNow>>
    BY <1>1, <2>3, Still
  <2>5. TypeOK' /\ Course'
    BY <1>1, <1>5, <2>1, <2>2, <2>3 DEF Inv, TypeOK, Course, Finding
  <2>6. NameAfterCode' /\ ValueHolds' /\ ShownHolds'
    BY <1>1, <2>1, <2>2, <2>3, <2>4
       DEF Inv, NameAfterCode, ValueHolds, ShownHolds, Pending, AfterRef
  <2>7. GateHolds' /\ GateMirrors'
    BY <1>1, <2>1, <2>2, <2>3, <2>4 DEF Inv, GateHolds, GateMirrors
  <2>8. RecordHolds' /\ RecordFirst' /\ RecordById'
    BY <1>1, <2>1, <2>2, <2>3, <2>4
       DEF Inv, RecordHolds, RecordFirst, RecordById, Has, Pending
  <2> QED BY <2>5, <2>6, <2>7, <2>8 DEF Inv
<1> QED BY <1>3, <1>4, <1>5

LEMMA LabelInv == Inv /\ Label => Inv'
<1> SUFFICES ASSUME Inv, Label PROVE Inv'
  OBVIOUS
<1>1. /\ pc = "label" /\ Say("proposal")
      /\ UNCHANGED <<world, req, phase, val, at, seen, witness, cands, sound>>
  BY DEF Label
<1>2. shown' = ShownNow
  BY DEF Label, ShownNow, NameOne, NameRows
<1> QED BY <1>1, <1>2, Terming, ProposedInv

(* COMMIT starts from the terms; what was seen and shown stays.            *)
LEMMA CommitInv == Inv /\ Commit => Inv'
<1> SUFFICES ASSUME Inv, Commit PROVE Inv'
  OBVIOUS
<1>1. /\ answer = "proposal" /\ answer' = None /\ phase' = "commit"
      /\ val' = None /\ at' = None
      /\ pc' = IF req.kind = "delete" THEN "get" ELSE "ref"
      /\ UNCHANGED <<dir, edits, calm, req, seen, witness, shown, cands, sound>>
  BY DEF Commit, world, told
<1>2. UNCHANGED <<CodeRows, CodeOne, NameOne, RefNow, ShownNow, CodeHit, NameHit, WhoNow>>
  BY <1>1, Still
<1>3. None \notin {"proposal", "unresolved"}
  BY NamesAssumption DEF Outcomes
<1>4. TypeOK' /\ Course'
  BY <1>1, <1>3 DEF Inv, TypeOK, Course, Finding
<1>5. NameAfterCode' /\ ValueHolds' /\ ShownHolds'
  BY <1>1, <1>2
     DEF Inv, NameAfterCode, ValueHolds, ShownHolds, Pending, AfterRef
<1>6. GateHolds' /\ GateMirrors'
  BY <1>1, <1>2, <1>3 DEF Inv, GateHolds, GateMirrors
<1>7. RecordHolds' /\ RecordFirst' /\ RecordById'
  BY <1>1, <1>2 DEF Inv, RecordHolds, RecordFirst, RecordById, Has, Pending
<1> QED BY <1>4, <1>5, <1>6, <1>7 DEF Inv

LEMMA WriteInv == Inv /\ Write => Inv'
<1> SUFFICES ASSUME Inv, Write PROVE Inv'
  OBVIOUS
<1>1. /\ pc' = "done" /\ answer' \in {"failed", "executed"}
      /\ UNCHANGED <<req, phase, val, at, seen, witness, shown, cands, edits, calm, sound>>
  BY DEF Write, Say, told
<1>2. DOMAIN dir \subseteq Ids /\ \A r \in DOMAIN dir : dir[r] \in Record
  BY DEF Inv, TypeOK
<1>3. DOMAIN dir' \subseteq DOMAIN dir /\ \A r \in DOMAIN dir' : dir'[r] \in Record
  <2>1. CASE dir' = dir
    BY <1>2, <2>1
  <2>2. CASE dir' = [r \in DOMAIN dir \ {at} |-> dir[r]]
    BY <1>2, <2>2
  <2>3. CASE dir' = [dir EXCEPT ![at].value = val]
    <3>1. val \in Ids \cup {None}
      BY DEF Inv, TypeOK
    <3>2. DOMAIN dir' = DOMAIN dir
      BY <2>3
    <3>3. \A r \in DOMAIN dir' : dir'[r] = IF r = at THEN [dir[r] EXCEPT !.value = val] ELSE dir[r]
      BY <2>3
    <3> QED BY <1>2, <3>1, <3>2, <3>3 DEF Record
  <2>4. req.kind \in Kinds
    BY Terming
  <2> QED BY <2>1, <2>2, <2>3, <2>4 DEF Write, Kinds
<1>4. TypeOK'
  BY <1>1, <1>2, <1>3 DEF Inv, TypeOK, Outcomes
<1> QED BY <1>1, <1>3, <1>4, EndInv DEF Outcomes

(* A failed call.                                                          *)
LEMMA FailsInv == Inv /\ Fails => Inv'
<1> SUFFICES ASSUME Inv, Fails PROVE Inv'
  OBVIOUS
<1>1. /\ pc \notin {"done", "ref"} /\ sound' = FALSE
      /\ UNCHANGED <<world, req, phase, val, at, told, cands>>
  BY DEF Fails
<1>2. UNCHANGED <<dir, edits, calm, seen, witness, shown>>
  BY <1>1 DEF world, told
<1>3. phase \in {"propose", "commit"}
  BY DEF Inv, TypeOK
<1>4. CASE pc' = "done" /\ answer' \in {"error", "failed"}
  <2>1. TypeOK'
    BY <1>1, <1>2, <1>4 DEF Inv, TypeOK, Outcomes
  <2> QED BY <1>1, <1>2, <1>4, <2>1, EndInv DEF Outcomes
<1>5. CASE pc \in {"code", "name"} /\ phase = "propose" /\ pc' = "candidates" /\ answer' = answer
  <2>1. UNCHANGED <<CodeRows, CodeOne, NameOne, RefNow, ShownNow, CodeHit, NameHit, WhoNow>>
    BY <1>1, <1>2, Still
  <2>2. answer = None /\ req.kind # "delete"
    BY <1>5 DEF Inv, Course, Finding
  <2>3. TypeOK' /\ Course'
    BY <1>1, <1>2, <1>5, <2>2 DEF Inv, TypeOK, Course, Finding
  <2>4. NameAfterCode' /\ ValueHolds' /\ ShownHolds' /\ GateHolds' /\ GateMirrors'
    BY <1>1, <1>2, <1>5, <2>1, <2>2
       DEF Inv, NameAfterCode, ValueHolds, ShownHolds, GateHolds, GateMirrors,
           Pending, AfterRef
  <2>5. RecordHolds' /\ RecordFirst' /\ RecordById'
    BY <1>1, <1>2, <1>5, <2>1
       DEF Inv, RecordHolds, RecordFirst, RecordById, Has
  <2> QED BY <2>3, <2>4, <2>5 DEF Inv
<1>6. CASE pc = "listCode" /\ pc' = "listName" /\ answer' = answer
  <2>1. req.who \notin DOMAIN dir
    BY <1>6 DEF Inv, RecordById
  <2> QED BY <1>1, <1>6, <2>1, ListOnInv DEF told
<1>7. CASE pc = "listName" /\ phase = "propose" /\ pc' = "label" /\ answer' = answer
  <2>1. TypeOK'
    BY <1>1, <1>2, <1>7 DEF Inv, TypeOK
  <2> QED BY <1>1, <1>2, <1>7, <2>1, LabelOnInv
<1>8. CASE pc = "label" /\ Say("proposal")
  BY <1>1, <1>2, <1>8, ProposedInv
<1> QED BY <1>1, <1>3, <1>4, <1>5, <1>6, <1>7, <1>8 DEF Fails, Go, Say

-----------------------------------------------------------------------------
(* Other people's edits end the calm, and give no id a new record.         *)
LEMMA EditedInv ==
  ASSUME Inv, NEW d, Edited(d), DOMAIN d \subseteq DOMAIN dir,
         \A r \in DOMAIN d : d[r] \in Record
  PROVE  Inv'
<1>1. /\ dir' = d /\ calm' = FALSE /\ edits < MaxEdits /\ edits' = edits + 1
      /\ UNCHANGED <<req, phase, pc, val, at, seen, witness, shown, cands, answer, sound>>
  BY DEF Edited, told
<1>2. TypeOK'
  <2>1. edits' \in 0 .. MaxEdits
    BY <1>1, NamesAssumption DEF Inv, TypeOK
  <2> QED BY <1>1, <2>1 DEF Inv, TypeOK
<1>3. Course'
  BY <1>1 DEF Inv, Course
<1>4. NameAfterCode' /\ ValueHolds' /\ ShownHolds' /\ GateHolds' /\ GateMirrors'
  BY <1>1 DEF NameAfterCode, ValueHolds, ShownHolds, GateHolds, GateMirrors
<1>5. RecordHolds' /\ RecordFirst' /\ RecordById'
  BY <1>1 DEF Inv, RecordHolds, RecordFirst, RecordById, Has
<1> QED BY <1>2, <1>3, <1>4, <1>5 DEF Inv

LEMMA OthersInv == Inv /\ Others => Inv'
<1> SUFFICES ASSUME Inv, Others PROVE Inv'
  OBVIOUS
<1>1. DOMAIN dir \subseteq Ids /\ \A r \in DOMAIN dir : dir[r] \in Record
  BY DEF Inv, TypeOK
<1>2. PICK r \in DOMAIN dir :
        \/ \E w \in Words : Rename(r, w)
        \/ \E v \in DOMAIN dir \cup {None} : Revalue(r, v)
        \/ Remove(r)
  BY DEF Others
<1>3. ASSUME NEW w \in Words, Rename(r, w) PROVE Inv'
  <2> DEFINE d == [dir EXCEPT ![r].name = w]
  <2>1. DOMAIN d = DOMAIN dir
    OBVIOUS
  <2>2. \A q \in DOMAIN d : d[q] = IF q = r THEN [dir[q] EXCEPT !.name = w] ELSE dir[q]
    OBVIOUS
  <2>3. \A q \in DOMAIN d : d[q] \in Record
    BY <1>1, <2>1, <2>2 DEF Record
  <2>4. Edited(d)
    BY <1>3 DEF Rename
  <2> HIDE DEF d
  <2> QED BY <2>1, <2>3, <2>4, EditedInv
<1>4. ASSUME NEW v \in DOMAIN dir \cup {None}, Revalue(r, v) PROVE Inv'
  <2> DEFINE d == [dir EXCEPT ![r].value = v]
  <2>1. DOMAIN d = DOMAIN dir
    OBVIOUS
  <2>2. \A q \in DOMAIN d : d[q] = IF q = r THEN [dir[q] EXCEPT !.value = v] ELSE dir[q]
    OBVIOUS
  <2>3. \A q \in DOMAIN d : d[q] \in Record
    BY <1>1, <2>1, <2>2 DEF Record
  <2>4. Edited(d)
    BY <1>4 DEF Revalue
  <2> HIDE DEF d
  <2> QED BY <2>1, <2>3, <2>4, EditedInv
<1>5. CASE Remove(r)
  <2> DEFINE d == [q \in DOMAIN dir \ {r} |-> dir[q]]
  <2>1. DOMAIN d \subseteq DOMAIN dir /\ \A q \in DOMAIN d : d[q] \in Record
    BY <1>1
  <2>2. Edited(d)
    BY <1>5 DEF Remove
  <2> HIDE DEF d
  <2> QED BY <2>1, <2>2, EditedInv
<1> QED BY <1>2, <1>3, <1>4, <1>5

LEMMA StutterInv == Inv /\ UNCHANGED vars => Inv'
<1> SUFFICES ASSUME Inv, UNCHANGED vars PROVE Inv'
  OBVIOUS
<1>1. UNCHANGED <<dir, req, phase, pc, val, at, seen, witness, shown, cands, answer,
                  edits, calm, sound>>
  BY DEF vars
<1>2. UNCHANGED <<CodeRows, CodeOne, NameOne, RefNow, ShownNow, CodeHit, NameHit, WhoNow>>
  BY <1>1, Still
<1>3. TypeOK' /\ Course'
  BY <1>1 DEF Inv, TypeOK, Course
<1>4. NameAfterCode' /\ ValueHolds' /\ ShownHolds' /\ GateHolds' /\ GateMirrors'
  BY <1>1, <1>2
     DEF Inv, NameAfterCode, ValueHolds, ShownHolds, GateHolds, GateMirrors, Pending
<1>5. RecordHolds' /\ RecordFirst' /\ RecordById'
  BY <1>1, <1>2 DEF Inv, RecordHolds, RecordFirst, RecordById, Has, Pending
<1> QED BY <1>3, <1>4, <1>5 DEF Inv

THEOREM Invariance == Spec => []Inv
<1>1. Init => Inv
  BY InitInv
<1>2. Inv /\ [Next]_vars => Inv'
  <2> SUFFICES ASSUME Inv, [Next]_vars PROVE Inv'
    OBVIOUS
  <2>1. CASE Reference \/ ByCode \/ ByName \/ Candidates
    BY <2>1, ReferenceInv, ByCodeInv, ByNameInv, CandidatesInv
  <2>2. CASE GetRecord \/ ListCode \/ ListName \/ ReadRecord \/ Label
    BY <2>2, GetRecordInv, ListCodeInv, ListNameInv, ReadRecordInv, LabelInv
  <2>3. CASE Commit \/ Write \/ Fails
    BY <2>3, CommitInv, WriteInv, FailsInv
  <2>4. CASE Others
    BY <2>4, OthersInv
  <2>5. CASE UNCHANGED vars
    BY <2>5, StutterInv
  <2> QED BY <2>1, <2>2, <2>3, <2>4, <2>5 DEF Next, Handler
<1> QED BY <1>1, <1>2, PTL DEF Spec

-----------------------------------------------------------------------------
(* What the properties say follows, where a record is written.             *)

LEMMA FiniteDirectory ==
  ASSUME Inv, NEW s, s \subseteq DOMAIN dir
  PROVE  s \subseteq Nat /\ IsFiniteSet(s)
<1>1. s \subseteq Ids
  BY DEF Inv, TypeOK
<1> QED BY <1>1, NamesAssumption, FS_Subset

(* Lists that show every record hit all the records of an identifier.      *)
LEMMA HitsAll ==
  ASSUME Inv, Cardinality(DOMAIN dir) <= ListLimit, NEW f, NEW v
  PROVE  Hits(f, v) = {r \in DOMAIN dir : dir[r][f] = v}
<1> DEFINE listed == {r \in DOMAIN dir :
             LET x == dir[r][f] IN
               x = v \/ (x \in Words /\ v \in Words /\ <<Fold[v], Fold[x]>> \in Within)}
<1>1. listed \subseteq DOMAIN dir /\ {r \in DOMAIN dir : dir[r][f] = v} \subseteq listed
  OBVIOUS
<1>2. Listed(f, v) = First(ListLimit, listed)
  BY DEF Listed
<1>3. Hits(f, v) = {r \in Listed(f, v) : dir[r][f] = v}
  BY DEF Hits
<1> HIDE DEF listed
<1>4. listed \subseteq Nat /\ IsFiniteSet(listed) /\ IsFiniteSet(DOMAIN dir)
  BY <1>1, FiniteDirectory
<1>5. Cardinality(listed) <= Cardinality(DOMAIN dir)
  BY <1>1, <1>4, FS_Subset
<1>6. ListLimit \in Nat
  BY NamesAssumption
<1>7. Cardinality(listed) \in Nat /\ Cardinality(DOMAIN dir) \in Nat
  BY <1>4, FS_CardinalityType
<1>8. Cardinality(listed) <= ListLimit
  BY <1>5, <1>6, <1>7
<1>9. First(ListLimit, listed) = listed
  BY <1>4, <1>6, <1>8, FirstWhole
<1> QED BY <1>1, <1>2, <1>3, <1>9

LEMMA OnlyOneHas ==
  ASSUME NEW s
  PROVE  OnlyOne(s) # None => Cardinality(s) = 1
BY DEF OnlyOne

(* The hit in a field, where there is one, is the only bearer.             *)
LEMMA HitIs ==
  ASSUME Inv, Cardinality(DOMAIN dir) <= ListLimit, NEW f,
         OnlyOne(Hits(f, req.who)) # None
  PROVE  Bearers(f) = {OnlyOne(Hits(f, req.who))} /\ Cardinality(Bearers(f)) = 1
<1>1. Hits(f, req.who) = Bearers(f)
  BY HitsAll DEF Bearers
<1>2. IsFiniteSet(Bearers(f))
  BY FiniteDirectory DEF Bearers
<1> QED BY <1>1, <1>2, OnlyOneAlone, OnlyOneHas

LEMMA RecordExact ==
  ASSUME Inv, pc = "write", calm, req.kind # "create"
  PROVE  RecordIsOnly
<1> SUFFICES ASSUME Cardinality(DOMAIN dir) <= ListLimit
             PROVE  /\ req.who \in DOMAIN dir => at = req.who
                    /\ req.who \notin DOMAIN dir /\ sound =>
                         {at} = IF Cardinality(Bearers("code")) = 1
                                THEN Bearers("code") ELSE Bearers("name")
                    /\ req.who \notin DOMAIN dir /\ ~sound =>
                         {at} \in {Bearers("code"), Bearers("name")}
  BY DEF RecordIsOnly
<1>1. req.who \in DOMAIN dir => at = req.who
  BY DEF Inv, RecordById, Has
<1>2. ASSUME req.who \notin DOMAIN dir, CodeHit # None, at = CodeHit
      PROVE  {at} = Bearers("code") /\ Cardinality(Bearers("code")) = 1
  BY <1>2, HitIs DEF CodeHit
<1>3. ASSUME req.who \notin DOMAIN dir, NameHit # None, at = NameHit
      PROVE  {at} = Bearers("name")
  BY <1>3, HitIs DEF NameHit
<1>4. ASSUME CodeHit = None
      PROVE  Cardinality(Bearers("code")) # 1
  <2> SUFFICES ASSUME Cardinality(Bearers("code")) = 1 PROVE FALSE
    OBVIOUS
  <2>1. CodeHit \in Bearers("code")
    <3>1. Hits("code", req.who) = Bearers("code")
      BY HitsAll DEF Bearers
    <3>2. PICK x : Bearers("code") = {x}
      BY FiniteDirectory, FS_Singleton DEF Bearers
    <3> QED BY <3>1, <3>2 DEF CodeHit, OnlyOne
  <2>2. CodeHit \in Ids
    BY <2>1 DEF Bearers, Inv, TypeOK
  <2> QED BY <1>4, <2>2, NoneApart
<1>5. at # None /\ at \in {req.who, CodeHit, NameHit}
  BY DEF Inv, RecordHolds, Has
<1>6. sound => at = WhoNow
  BY DEF Inv, RecordFirst, Has
<1>7. ASSUME req.who \notin DOMAIN dir, sound
      PROVE  {at} = IF Cardinality(Bearers("code")) = 1
                    THEN Bearers("code") ELSE Bearers("name")
  <2>1. CASE CodeHit # None
    BY <1>2, <1>6, <1>7, <2>1 DEF WhoNow
  <2>2. CASE CodeHit = None
    BY <1>3, <1>4, <1>5, <1>6, <1>7, <2>2 DEF WhoNow
  <2> QED BY <2>1, <2>2
<1>8. ASSUME req.who \notin DOMAIN dir, ~sound
      PROVE  {at} \in {Bearers("code"), Bearers("name")}
  <2>1. at # req.who
    BY <1>8 DEF Inv, RecordHolds, Has
  <2> QED BY <1>2, <1>3, <1>5, <1>8, <2>1
<1> QED BY <1>1, <1>7, <1>8

LEMMA ReferenceExact ==
  ASSUME Inv, pc = "write", calm, req.kind # "delete", req.ref \in Words
  PROVE  ReferenceIsOnly
<1> DEFINE s == IF Coded(req.ref) # {} THEN Coded(req.ref) ELSE Like(req.ref)
<1> SUFFICES ASSUME Cardinality(Like(req.ref)) <= NameLimit,
                    Cardinality(Coded(req.ref)) <= CodeLimit
             PROVE  {val} = Pool(req.ref, s)
  BY DEF ReferenceIsOnly, Pool
<1>1. val = RefNow /\ val # None /\ req.ref \notin Ids
  BY Terming DEF Inv, ValueHolds, AfterRef
<1>2. Coded(req.ref) \subseteq DOMAIN dir /\ Like(req.ref) \subseteq DOMAIN dir
  BY DEF Coded, Like
<1>3. /\ Coded(req.ref) \subseteq Nat /\ IsFiniteSet(Coded(req.ref))
      /\ Like(req.ref) \subseteq Nat /\ IsFiniteSet(Like(req.ref))
  BY <1>2, FiniteDirectory
<1>4. CodeRows = Coded(req.ref) /\ NameRows = Like(req.ref)
  BY <1>3, NamesAssumption, FirstWhole DEF CodeRows, NameRows
<1>5. Coded(req.ref) # {} => req.ref \in CodeLike
  BY DEF Coded
<1>6. val = OnlyOne(Pool(req.ref, s))
  <2>1. CASE Coded(req.ref) # {}
    BY <1>1, <1>4, <1>5, <2>1 DEF RefNow, CodeOne
  <2>2. CASE Coded(req.ref) = {}
    BY <1>1, <1>4, <2>2 DEF RefNow, NameOne
  <2> QED BY <2>1, <2>2
<1>7. IsFiniteSet(Pool(req.ref, s))
  BY <1>3, FS_Subset DEF Pool
<1> HIDE DEF s
<1> QED BY <1>1, <1>6, <1>7, OnlyOneAlone

LEMMA PreviewIs == Inv => ApprovedIsWritten
<1> SUFFICES ASSUME Inv, pc = "write", calm, req.kind # "delete", Coded(req.ref) = {}
             PROVE  shown \in {val, None}
  BY DEF ApprovedIsWritten
<1>1. val = RefNow
  BY DEF Inv, ValueHolds, AfterRef
<1>2. answer = None
  BY DEF Inv, Course
<1>3. shown \in {ShownNow, None}
  BY <1>2 DEF Inv, ShownHolds, Pending
<1>4. CodeRows = {}
  BY RowsAre
<1>5. ShownNow \in {RefNow, None}
  BY <1>4 DEF ShownNow, RefNow
<1> QED BY <1>1, <1>3, <1>5

LEMMA RecordIs == Inv => SameRecord
<1> SUFFICES ASSUME Inv, pc = "write", seen # None,
                    (calm /\ sound) \/ req.who \in DOMAIN dir
             PROVE  at = seen
  BY DEF SameRecord
<1>1. answer = None /\ req.kind = "update"
  BY DEF Inv, Course
<1>2. CASE calm /\ sound
  BY <1>1, <1>2 DEF Inv, RecordFirst, Has, Pending
<1>3. CASE req.who \in DOMAIN dir
  BY <1>1, <1>3 DEF Inv, RecordById, Has
<1> QED BY <1>2, <1>3

(* Every variable keeps its type: what a search gives is a record's id.    *)
THEOREM TypeCorrect == Spec => []TypeOK
<1>1. Inv => TypeOK
  BY DEF Inv
<1> QED BY <1>1, Invariance, PTL

(* The record a preview names is the one that COMMIT writes, whatever      *)
(* calls have failed: both searches come to the same, in the calm.         *)
THEOREM PreviewKept == Spec => []ApprovedIsWritten
BY PreviewIs, Invariance, PTL

(* What the choice gate lets pass COMMIT does not find unresolved.         *)
THEOREM GateKept == Spec => []GateMirrors
<1>1. Inv => GateMirrors
  BY DEF Inv
<1> QED BY <1>1, Invariance, PTL

(* An update writes to the record whose value its PROPOSE has witnessed.   *)
THEOREM WitnessKept == Spec => []SameRecord
BY RecordIs, Invariance, PTL

(* In the calm, COMMIT writes to the identifier's record by the first of   *)
(* id, code and name that has one only, by a later one at worst when a     *)
(* list failed; and it writes the only record its value names, by code,    *)
(* else by name, else by likeness.                                         *)
THEOREM NothingGuessed == Spec => []NamedExactly
<1>1. Inv => NamedExactly
  BY RecordExact, ReferenceExact DEF NamedExactly
<1> QED BY <1>1, Invariance, PTL
=============================================================================
