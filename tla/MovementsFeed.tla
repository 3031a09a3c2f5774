---------------------------- MODULE MovementsFeed ---------------------------
(***************************************************************************)
(* history.movements_feed (translate.py): "what has Odoo moved since I     *)
(* last looked", oldest first, from a cursor the consumer keeps.  The      *)
(* adapter keeps nothing: a page is one search, of done moves behind the   *)
(* cursor (write_date, id), and the page's last row is the next cursor.    *)
(*                                                                         *)
(* The wire knows whole seconds (_odoo_dt_to_iso, _iso_to_odoo_dt).  What  *)
(* Odoo keeps is its own affair, so each behaviour has a world:            *)
(*   whole    write dates are kept in whole seconds;                       *)
(*   late     a transaction's rows are seen some time after the instant    *)
(*            they are dated by, which is when it began;                   *)
(*   settled  a second in which a page was read gets no more writes;       *)
(*   limit    the rows the consumer asks for.                              *)
(* Odoo and the consumer are external.                                     *)
(***************************************************************************)
EXTENDS Naturals, FiniteSets

CONSTANTS
  Moves,                \* ids of stock moves
  Limits,               \* how many rows a consumer may ask for
  Grain,                \* instants of a second
  Worlds,               \* the worlds to look at
  NoPage,               \* no page on its way
  MaxTime,              \* bound: instants
  MaxWrites             \* bound: transactions

ASSUME MovesAssumption == Moves \subseteq Nat \ {0} /\ IsFiniteSet(Moves)
ASSUME FeedAssumption ==
  /\ {MaxTime, MaxWrites} \subseteq Nat
  /\ Limits \cup {Grain} \subseteq Nat \ {0}
ASSUME WorldsAssumption ==
  Worlds \subseteq [whole : BOOLEAN, late : BOOLEAN, settled : BOOLEAN, limit : Limits]

Instants == 0 .. MaxTime
Row == [id : Moves, at : Instants]        \* a done move and its write_date
Cursor == [sec : Nat, id : Moves \cup {0}]
FeedPage == [rows : SUBSET Row, next : Cursor, complete : BOOLEAN]
ASSUME NoPageAssumption == NoPage \notin FeedPage

VARIABLES
  world,
  now,
  rows,                 \* done moves as a search sees them
  open,                 \* rows written by transactions that are not committed
  writes,               \* transactions begun
  asked,                \* the latest second a page was read in, and one more
  cursor,               \* the consumer's cursor
  page,                 \* the page on its way to the consumer
  delivered,            \* rows the consumer has (history)
  twice                 \* a row came to the consumer again (history)

feedVars == <<world, now, rows, open, writes, asked, cursor, page, delivered, twice>>

FeedInit ==
  /\ world \in Worlds
  /\ now = 0 /\ writes = 0 /\ asked = 0
  /\ rows = {} /\ open = {} /\ delivered = {}
  /\ cursor = [sec |-> 0, id |-> 0]
  /\ page = NoPage
  /\ twice = FALSE

-----------------------------------------------------------------------------
(* What of an instant goes over the wire: its second, fraction cut off.    *)
Second(i) == i \div Grain

(* What Odoo keeps of the present instant.                                 *)
Stamp == IF world.whole THEN Second(now) * Grain ELSE now

(* _FEED_ORDER: write_date, then id.                                       *)
Before(r, q) == r.at < q.at \/ (r.at = q.at /\ r.id < q.id)

(* Mutant: the rows of the cursor's own second are all behind it.          *)
AfterDate(c) == {r \in rows : r.at > c.sec * Grain}

(* Mutant: the cursor is not strict.                                       *)
AfterWeak(c) ==
  {r \in rows : r.at > c.sec * Grain \/ (r.at = c.sec * Grain /\ r.id >= c.id)}

(* The search's domain: done, and behind the cursor, strictly.             *)
After(c) ==
  {r \in rows : r.at > c.sec * Grain \/ (r.at = c.sec * Grain /\ r.id > c.id)}

(* The first rows in that order, as many as asked for.                     *)
FirstRows(s) == {r \in s : Cardinality({q \in s : Before(q, r)}) < world.limit}

LastRow(s) == CHOOSE r \in s : \A q \in s : q = r \/ Before(q, r)

(* Mutant: a cursor of the date alone.                                     *)
NextDate(c, s) == IF s = {} THEN c ELSE [sec |-> Second(LastRow(s).at), id |-> 0]

(* "next": the last row's date and id; without rows the cursor as it was.  *)
NextCursor(c, s) ==
  IF s = {} THEN c ELSE [sec |-> Second(LastRow(s).at), id |-> LastRow(s).id]

-----------------------------------------------------------------------------
(* Mutant: a full page counts as complete.                                 *)
LookLoose ==
  /\ page = NoPage
  /\ LET s == FirstRows(After(cursor)) IN
       page' = [rows |-> s, next |-> NextCursor(cursor, s),
                complete |-> Cardinality(s) <= world.limit]
  /\ asked' = Second(now) + 1
  /\ UNCHANGED <<world, now, rows, open, writes, cursor, delivered, twice>>

(* One page: one search.  `complete` is a page that is not full.           *)
Look ==
  /\ page = NoPage
  /\ LET s == FirstRows(After(cursor)) IN
       page' = [rows |-> s, next |-> NextCursor(cursor, s),
                complete |-> Cardinality(s) < world.limit]
  /\ asked' = Second(now) + 1
  /\ UNCHANGED <<world, now, rows, open, writes, cursor, delivered, twice>>

(* The consumer has the page and keeps its cursor.                         *)
Receive ==
  /\ page # NoPage
  /\ delivered' = delivered \cup page.rows
  /\ twice' = (twice \/ page.rows \cap delivered # {})
  /\ cursor' = page.next
  /\ page' = NoPage
  /\ UNCHANGED <<world, now, rows, open, writes, asked>>

(* The page is lost, or the search had failed: the cursor stays.           *)
Lose ==
  /\ page # NoPage
  /\ page' = NoPage
  /\ UNCHANGED <<world, now, rows, open, writes, asked, cursor, delivered, twice>>

-----------------------------------------------------------------------------
(* Moves written by one transaction: their rows give way to the new ones.  *)
Replaced(old, new) == {r \in old : ~\E q \in new : q.id = r.id} \cup new

(* A transaction writes moves that are done, or become it.                 *)
Write(ids) ==
  /\ writes < MaxWrites
  /\ world.settled => Second(now) >= asked
  /\ \A m \in ids : ~\E r \in open : r.id = m
  /\ writes' = writes + 1
  /\ LET new == {[id |-> m, at |-> Stamp] : m \in ids} IN
     IF world.late
     THEN open' = open \cup new /\ UNCHANGED rows
     ELSE rows' = Replaced(rows, new) /\ UNCHANGED open
  /\ UNCHANGED <<world, now, asked, cursor, page, delivered, twice>>

(* The transaction begun at an instant is committed.                       *)
Commit(i) ==
  LET new == {r \in open : r.at = i} IN
  /\ new # {}
  /\ rows' = Replaced(rows, new)
  /\ open' = open \ new
  /\ UNCHANGED <<world, now, writes, asked, cursor, page, delivered, twice>>

Tick ==
  /\ now < MaxTime
  /\ now' = now + 1
  /\ UNCHANGED <<world, rows, open, writes, asked, cursor, page, delivered, twice>>

FeedNext ==
  \/ Look \/ Receive \/ Lose \/ Tick
  \/ \E ids \in (SUBSET Moves) \ {{}} : Write(ids)
  \/ \E i \in Instants : Commit(i)

FeedSpec == FeedInit /\ [][FeedNext]_feedVars

(* A consumer that keeps asking, and does not lose every page.             *)
FairFeed == FeedSpec /\ WF_feedVars(Look) /\ SF_feedVars(Receive)

-----------------------------------------------------------------------------
FeedTypeOK ==
  /\ world \in Worlds
  /\ now \in Instants
  /\ rows \subseteq Row /\ open \subseteq Row /\ delivered \subseteq Row
  /\ writes \in 0 .. MaxWrites
  /\ asked \in Nat
  /\ cursor \in Cursor
  /\ page \in FeedPage \cup {NoPage}
  /\ twice \in BOOLEAN

Behind(c) == {r \in rows : r.at < c.sec * Grain \/ (r.at = c.sec * Grain /\ r.id <= c.id)}

(* No move is passed over, however dates are shared and pages cut: what a  *)
(* search no longer offers has been delivered.  This needs the second of a *)
(* page to be over: a row that comes into it later, or is seen later than  *)
(* it is dated, is beyond any such cursor.                                 *)
NothingSkipped ==
  ~world.late /\ world.settled => Behind(cursor) \subseteq delivered

(* "Paging inside one write_date neither skips nor repeats": a row comes   *)
(* once where the wire can tell its date.                                  *)
NothingRepeated == world.whole => ~twice

(* `complete` tells the consumer that it is up to date: after that page it *)
(* has every row there was, but for those written since it was asked for.  *)
CompleteIsTrue ==
  ~world.late /\ world.settled =>
    (page # NoPage /\ page.complete =>
       \A r \in rows : r \in delivered \cup page.rows \/ Second(r.at) >= asked)

(* Every done move reaches a consumer that keeps asking, once Odoo has     *)
(* written its last.  Where fractions are kept, pages must be larger than  *)
(* what a second can hold: its rows come back until one of the next second *)
(* is among them.                                                          *)
EveryMoveDelivered ==
  <>[](/\ ~world.late /\ world.settled
       /\ world.whole \/ Cardinality(Moves) < world.limit
       => rows \subseteq delivered)
=============================================================================
