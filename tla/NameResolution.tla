---------------------------- MODULE NameResolution ---------------------------
(***************************************************************************)
(* What a caller writes for a record is a name.  PROPOSE resolves it to    *)
(* admit it (_choice_gate), to bind the record's state (the witness) and   *)
(* to show it (_legible); COMMIT resolves it again, to write.  Every       *)
(* search is a call of its own, and between any two of them somebody may   *)
(* rename or delete a record, and a call may fail.                         *)
(*                                                                         *)
(* One request of the edge: a create, an update (`resource.update`), a     *)
(* curated update (`verb`) or a delete, of the record `who`, setting one   *)
(* relational field to `ref`.  Both models are one directory here.  Odoo   *)
(* is external.                                                            *)
(***************************************************************************)
EXTENDS Naturals, FiniteSets

CONSTANTS
  Ids,                  \* record ids
  Words,                \* names and codes that are not numbers
  Fold,                 \* Words -> words without case
  Within,               \* pairs <<part, whole>> of folded words: `ilike`
  CodeLike,             \* the words of two or three letters
  Directories,          \* what Odoo may hold at first
  Requests,             \* what a caller may ask
  NameLimit,            \* rows of a search by name (8)
  CodeLimit,            \* rows of a search by code (2)
  ListLimit,            \* rows of `list` (50)
  MaxEdits,             \* bound: other people's edits
  None                  \* no record, no code, no value

Kinds == {"create", "update", "verb", "delete"}
Terms == Ids \cup Words
Record == [name : Words, code : Terms \cup {None}, value : Ids \cup {None}]
Outcomes == {"proposal", "ambiguous", "invalid", "error",
             "unresolved", "failed", "drifted", "executed"}

ASSUME NamesAssumption ==
  /\ Ids \subseteq Nat /\ IsFiniteSet(Ids)
  /\ None \notin Terms /\ None \notin Outcomes
  /\ Words \cap Ids = {}
  /\ CodeLike \subseteq Words
  /\ DOMAIN Fold = Words
  /\ \A w \in Words : <<Fold[w], Fold[w]>> \in Within
  /\ \A d \in Directories : DOMAIN d \subseteq Ids /\ \A r \in DOMAIN d : d[r] \in Record
  /\ Requests \subseteq [kind : Kinds, who : Terms, ref : Terms]
  /\ {NameLimit, CodeLimit, ListLimit} \subseteq Nat \ {0}
  /\ MaxEdits \in Nat

VARIABLES
  dir,                  \* Odoo: id -> record
  req,                  \* what was asked
  phase,                \* PROPOSE or COMMIT
  pc,                   \* the call the handler is at
  val,                  \* the id `ref` was resolved to
  at,                   \* the id `who` was resolved to
  seen,                 \* the record PROPOSE took the witness of
  witness,              \* its field's value
  shown,                \* the record the preview names
  cands,                \* candidates of a refusal
  answer,               \* what the caller was told
  edits,                \* edits so far
  calm,                 \* no edit since PROPOSE (history)
  sound                 \* no call has failed (history)

vars == <<dir, req, phase, pc, val, at, seen, witness, shown, cands, answer,
          edits, calm, sound>>
told == <<seen, witness, shown>>
world == <<dir, edits, calm>>

Init ==
  /\ dir \in Directories
  /\ req \in Requests
  /\ phase = "propose"
  /\ pc = IF req.kind = "delete" THEN "done" ELSE "ref"
  /\ answer = IF req.kind = "delete" THEN "proposal" ELSE None
  /\ val = None /\ at = None /\ seen = None /\ witness = None /\ shown = None
  /\ cands = {}
  /\ edits = 0
  /\ calm = TRUE
  /\ sound = TRUE

-----------------------------------------------------------------------------
(* The first n of a set, in Odoo's order.                                  *)
First(n, s) == {r \in s : Cardinality({q \in s : q < r}) < n}

Like(v) == {r \in DOMAIN dir :
              v \in Words /\ <<Fold[v], Fold[dir[r].name]>> \in Within}
Named(v) == {r \in DOMAIN dir : v \in Words /\ Fold[dir[r].name] = Fold[v]}

(* A code is written in capitals, and the term is put into them.           *)
Coded(v) == {r \in DOMAIN dir : v \in CodeLike /\ dir[r].code = Fold[v]}

(* The candidates a search has left: those of that very name, if any.      *)
Pool(v, s) == IF s \cap Named(v) # {} THEN s \cap Named(v) ELSE s

(* What _resolve_reference makes of the rows: their one id, or an error.   *)
OnlyOne(s) == IF Cardinality(s) = 1 THEN CHOOSE r \in s : TRUE ELSE None

-----------------------------------------------------------------------------
(* The handler goes on to its next call, or answers.                       *)
Go(to) == pc' = to /\ UNCHANGED answer
Say(a) == pc' = "done" /\ answer' = a

(* After `ref`: PROPOSE of an update looks for the record it will witness; *)
(* other proposals go on to the preview.                                   *)
Resolved(r) ==
  /\ val' = r
  /\ Go(IF phase = "propose"
        THEN IF req.kind = "update" THEN "get" ELSE "label"
        ELSE IF req.kind = "create" THEN "write" ELSE "get")

(* Mutant: the gate lets pass what has no single record.                   *)
NotResolvedPassed ==
  /\ UNCHANGED val
  /\ IF phase = "propose" THEN Go("label") ELSE Say("unresolved")

(* UNRESOLVED, AMBIGUOUS: the gate asks for candidates, COMMIT gives up.   *)
NotResolved ==
  /\ UNCHANGED val
  /\ IF phase = "propose" THEN Go("candidates") ELSE Say("unresolved")

Settle(v, s) ==
  IF OnlyOne(Pool(v, s)) # None THEN Resolved(OnlyOne(Pool(v, s))) ELSE NotResolved

(* Digits are an id already; a short word is first tried as a code.        *)
Reference ==
  /\ pc = "ref"
  /\ IF req.ref \in Ids THEN Resolved(req.ref)
     ELSE Go(IF req.ref \in CodeLike THEN "code" ELSE "name") /\ UNCHANGED val
  /\ UNCHANGED <<world, req, phase, at, told, cands, sound>>

(* The search by code; without rows the name is tried.                     *)
ByCode ==
  /\ pc = "code"
  /\ LET s == First(CodeLimit, Coded(req.ref)) IN
     IF s = {} THEN Go("name") /\ UNCHANGED val ELSE Settle(req.ref, s)
  /\ UNCHANGED <<world, req, phase, at, told, cands, sound>>

ByName ==
  /\ pc = "name"
  /\ Settle(req.ref, First(NameLimit, Like(req.ref)))
  /\ UNCHANGED <<world, req, phase, at, told, cands, sound>>

(* _gate_relation's refusal: the rows that are like the name.              *)
Candidates ==
  /\ pc = "candidates"
  /\ cands' = First(NameLimit, Like(req.ref))
  /\ Say(IF cands' = {} THEN "invalid" ELSE "ambiguous")
  /\ UNCHANGED <<world, req, phase, val, at, told, sound>>

-----------------------------------------------------------------------------
(* _resolve_id: the id itself, if there is such a record ...               *)
Found(r) ==
  /\ at' = r
  /\ Go("read")

(* ... none at all: PROPOSE does without a witness, COMMIT fails.          *)
NotFound ==
  /\ at' = None
  /\ IF phase = "propose" THEN Go("label") ELSE Say("failed")

(* Mutant: COMMIT takes an id for an identifier.                           *)
GetNamed ==
  /\ pc = "get"
  /\ IF req.who \in DOMAIN dir /\ phase = "propose" THEN Found(req.who)
     ELSE Go("listCode") /\ UNCHANGED at
  /\ UNCHANGED <<world, req, phase, val, told, cands, sound>>

(* Is it an id?                                                            *)
GetRecord ==
  /\ pc = "get"
  /\ IF req.who \in DOMAIN dir THEN Found(req.who)
     ELSE Go("listCode") /\ UNCHANGED at
  /\ UNCHANGED <<world, req, phase, val, told, cands, sound>>

(* What `list` gives for a field, by ilike; a number is within itself.     *)
Listed(f, v) ==
  First(ListLimit,
        {r \in DOMAIN dir :
           LET x == dir[r][f] IN
             x = v \/ (x \in Words /\ v \in Words /\ <<Fold[v], Fold[x]>> \in Within)})

(* _ID_FIELDS, exact hits.                                                 *)
Hits(f, v) == {r \in Listed(f, v) : dir[r][f] = v}

(* Mutant: the name comes before the code.                                 *)
ListNameFirst ==
  /\ pc = "listCode"
  /\ LET r == OnlyOne(Hits("name", req.who))
         q == OnlyOne(Hits("code", req.who)) IN
     IF r # None THEN Found(r)
     ELSE IF q # None THEN Found(q) ELSE Go("listName") /\ UNCHANGED at
  /\ UNCHANGED <<world, req, phase, val, told, cands, sound>>

(* Of one field at a time; a field with no hit, or several, is passed over.*)
ListCode ==
  /\ pc = "listCode"
  /\ LET r == OnlyOne(Hits("code", req.who)) IN
     IF r # None THEN Found(r) ELSE Go("listName") /\ UNCHANGED at
  /\ UNCHANGED <<world, req, phase, val, told, cands, sound>>

ListName ==
  /\ pc = "listName"
  /\ LET r == OnlyOne(Hits("name", req.who)) IN
     IF r # None THEN Found(r) ELSE NotFound
  /\ UNCHANGED <<world, req, phase, val, told, cands, sound>>

ValueOf(r) == IF r \in DOMAIN dir THEN dir[r].value ELSE None

(* PROPOSE reads the record it previews; COMMIT reads the before-image and *)
(* rechecks the witness, if there is one.                                  *)
ReadRecord ==
  /\ pc = "read"
  /\ IF phase = "propose"
     THEN seen' = at /\ witness' = ValueOf(at) /\ Go("label")
     ELSE /\ UNCHANGED <<seen, witness>>
          /\ IF req.kind = "update" /\ seen # None /\ witness # ValueOf(at)
             THEN Say("drifted") ELSE Go("write")
  /\ UNCHANGED <<world, req, phase, val, at, shown, cands, sound>>

(* Mutant: the preview names the first record that is like the name.       *)
LabelFirst ==
  /\ pc = "label"
  /\ shown' = OnlyOne(First(1, Like(req.ref)))
  /\ Say("proposal")
  /\ UNCHANGED <<world, req, phase, val, at, seen, witness, cands, sound>>

(* _label_for: the record the preview names, if that is one only.          *)
Label ==
  /\ pc = "label"
  /\ shown' = IF req.ref \in Ids
              THEN IF req.ref \in DOMAIN dir THEN req.ref ELSE None
              ELSE OnlyOne(Pool(req.ref, First(NameLimit, Like(req.ref))))
  /\ Say("proposal")
  /\ UNCHANGED <<world, req, phase, val, at, seen, witness, cands, sound>>

-----------------------------------------------------------------------------
(* COMMIT of the proposal: what was resolved is not kept, the terms are.   *)
Commit ==
  /\ answer = "proposal"
  /\ phase' = "commit"
  /\ val' = None /\ at' = None
  /\ pc' = IF req.kind = "delete" THEN "get" ELSE "ref"
  /\ answer' = None
  /\ UNCHANGED <<world, req, told, cands, sound>>

(* Odoo takes the write, or refuses a record that is not there.  What a    *)
(* create makes is not followed.                                           *)
Write ==
  /\ pc = "write"
  /\ IF \/ req.kind # "create" /\ at \notin DOMAIN dir
        \/ req.kind # "delete" /\ val \notin DOMAIN dir
     THEN Say("failed") /\ UNCHANGED dir
     ELSE /\ Say("executed")
          /\ dir' = CASE req.kind = "create" -> dir
                      [] req.kind = "delete" -> [r \in DOMAIN dir \ {at} |-> dir[r]]
                      [] OTHER -> [dir EXCEPT ![at].value = val]
  /\ UNCHANGED <<req, phase, val, at, told, cands, edits, calm, sound>>

(* A call fails: the gate takes it for a value without a record, _label_for *)
(* and _resolve_id's lists for one without a hit; the rest ends the request.*)
Fails ==
  /\ pc \notin {"done", "ref"}
  /\ sound' = FALSE
  /\ CASE pc \in {"code", "name"} /\ phase = "propose" -> Go("candidates")
       [] pc = "listCode" -> Go("listName")
       [] pc = "listName" -> IF phase = "propose" THEN Go("label") ELSE Say("failed")
       [] pc = "label" -> Say("proposal")
       [] OTHER -> Say(IF phase = "propose" THEN "error" ELSE "failed")
  /\ UNCHANGED <<world, req, phase, val, at, told, cands>>

Handler ==
  \/ Reference \/ ByCode \/ ByName \/ Candidates
  \/ GetRecord \/ ListCode \/ ListName \/ ReadRecord \/ Label
  \/ Commit \/ Write \/ Fails

-----------------------------------------------------------------------------
(* Somebody else edits a record or deletes it.                             *)
Edited(d) ==
  /\ edits < MaxEdits
  /\ dir' = d
  /\ edits' = edits + 1
  /\ calm' = FALSE
  /\ UNCHANGED <<req, phase, pc, val, at, told, cands, answer, sound>>

Rename(r, w) == Edited([dir EXCEPT ![r].name = w])
Revalue(r, v) == Edited([dir EXCEPT ![r].value = v])
Remove(r) == Edited([q \in DOMAIN dir \ {r} |-> dir[q]])

Others ==
  \E r \in DOMAIN dir :
    \/ \E w \in Words : Rename(r, w)
    \/ \E v \in DOMAIN dir \cup {None} : Revalue(r, v)
    \/ Remove(r)

Next == Handler \/ Others

Spec == Init /\ [][Next]_vars

-----------------------------------------------------------------------------
TypeOK ==
  /\ DOMAIN dir \subseteq Ids /\ \A r \in DOMAIN dir : dir[r] \in Record
  /\ req \in Requests
  /\ phase \in {"propose", "commit"}
  /\ pc \in {"ref", "code", "name", "candidates", "get", "listCode", "listName",
             "read", "label", "write", "done"}
  /\ {val, at, seen, witness, shown} \subseteq Ids \cup {None}
  /\ cands \subseteq Ids
  /\ answer \in Outcomes \cup {None}
  /\ edits \in 0 .. MaxEdits
  /\ {calm, sound} \subseteq BOOLEAN

(* A preview that names a record is of the record that is written: nobody  *)
(* approves "country_id -> Qatar" and gets another.  This needs that no    *)
(* record's code is the name asked for, and that none was edited since.    *)
ApprovedIsWritten ==
  pc = "write" /\ calm /\ req.kind # "delete" /\ Coded(req.ref) = {} =>
    shown \in {val, None}

(* The gate "mirrors _resolve_writes": what it let through COMMIT resolves, *)
(* while nothing is edited and no call fails.                              *)
GateMirrors == calm /\ sound => answer # "unresolved"

(* The record an update writes is the one its PROPOSE took the witness of. *)
(* An id stays its record's as long as it exists; a name needs the calm.   *)
SameRecord ==
  pc = "write" /\ seen # None /\ ((calm /\ sound) \/ req.who \in DOMAIN dir) =>
    at = seen

(* The records that bear the identifier in a field, to the letter.         *)
Bearers(f) == {r \in DOMAIN dir : dir[r][f] = req.who}

(* What is deleted or written is the very record asked for: the id's, else *)
(* the only one with that code, else, where there are none or several, the *)
(* only one of that name.  A list that fails is passed over: then it is    *)
(* the only one in either field, and may be the one of that name although  *)
(* another has the code.  It needs lists that show all that is alike.      *)
RecordIsOnly ==
  Cardinality(DOMAIN dir) <= ListLimit =>
    CASE req.who \in DOMAIN dir -> at = req.who
      [] req.who \notin DOMAIN dir /\ sound ->
           {at} = IF Cardinality(Bearers("code")) = 1
                  THEN Bearers("code") ELSE Bearers("name")
      [] req.who \notin DOMAIN dir /\ ~sound ->
           {at} \in {Bearers("code"), Bearers("name")}

(* Nothing is guessed for a reference: of the records of that code, else   *)
(* of those like that name, it is the only one, or the only one that has   *)
(* the very name.  A search that fails ends the request.  It needs         *)
(* searches that show all there are.                                       *)
ReferenceIsOnly ==
  Cardinality(Like(req.ref)) <= NameLimit /\ Cardinality(Coded(req.ref)) <= CodeLimit =>
    LET s == IF Coded(req.ref) # {} THEN Coded(req.ref) ELSE Like(req.ref) IN
    {val} = IF s \cap Named(req.ref) # {} THEN s \cap Named(req.ref) ELSE s

(* In the calm, a COMMIT writes to the record named and the value named.   *)
NamedExactly ==
  pc = "write" /\ calm =>
    /\ req.kind # "create" => RecordIsOnly
    /\ req.kind # "delete" /\ req.ref \in Words => ReferenceIsOnly
=============================================================================
