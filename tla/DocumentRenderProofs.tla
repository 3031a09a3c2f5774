------------------------- MODULE DocumentRenderProofs ------------------------
(***************************************************************************)
(* Proofs about DocumentRender, for every number of threads and requests   *)
(* and every version, choice of open routes and rendering of the server.   *)
(***************************************************************************)
EXTENDS DocumentRender, TLAPS

(* The orders, and what is left of them.                                   *)
Orders == {<<"http", "portal", "xmlrpc">>, <<"portal", "xmlrpc">>, <<"xmlrpc">>,
           <<"xmlrpc", "http", "portal">>, <<"http", "portal">>, <<"portal">>}

Closed(r) ==
  IF r = "xmlrpc" THEN "xmlrpc" \in open => rendering = "nothing" ELSE r \notin open

(* The routes before the first that is left: those tried.                  *)
Tried(l) ==
  CASE l = <<"http", "portal", "xmlrpc">> -> {}
    [] l = <<"portal", "xmlrpc">> -> {"http"}
    [] l = <<"xmlrpc">> -> {"http", "portal"}
    [] l = <<"xmlrpc", "http", "portal">> -> {}
    [] l = <<"http", "portal">> -> {"xmlrpc"}
    [] l = <<"portal">> -> {"xmlrpc", "http"}

(* A request has no answer while it runs; without a mishap, the routes it  *)
(* has been through are closed, and all are once it is refused.            *)
Routing ==
  \A t \in Threads :
    /\ pc[t] # "idle" => answer[t] = None
    /\ pc[t] \in {"route", "mint", "get"} => left[t] \in Orders
    /\ pc[t] \in {"mint", "get"} => Head(left[t]) = "portal"
    /\ pc[t] \in {"route", "mint", "get"} /\ ~mishap[t] =>
         \A r \in Tried(left[t]) : Closed(r)
    /\ pc[t] = "idle" /\ answer[t] = Refusal /\ ~mishap[t] =>
         \A r \in Routes : Closed(r)

Inv == TypeOK /\ Routing

(* The part of TypeOK that a route's end touches.                          *)
ThreadTypes ==
  /\ pc \in [Threads -> {"idle", "look", "probe", "order", "route", "mint", "get"}]
  /\ left \in [Threads -> Lists]
  /\ held \in [Threads -> Tokens]
  /\ answer \in [Threads -> Answers \cup {None}]
  /\ mishap \in [Threads -> BOOLEAN]
  /\ \A t \in Threads : pc[t] \in {"route", "mint", "get"} => left[t] # <<>>

-----------------------------------------------------------------------------
(* Going from one route to the next.                                       *)
LEMMA OrdersShape ==
  ASSUME NEW l \in Orders
  PROVE  /\ l \in Lists /\ l # <<>>
         /\ Head(l) \in Routes
         /\ Tail(l) = <<>> => Tried(l) \cup {Head(l)} = Routes
         /\ Tail(l) # <<>> => /\ Tail(l) \in Orders
                              /\ Tried(Tail(l)) = Tried(l) \cup {Head(l)}
         /\ Head(l) = "portal" => "http" \in Tried(l)
<1>1. l = <<"http", "portal", "xmlrpc">> \/ l = <<"portal", "xmlrpc">> \/ l = <<"xmlrpc">>
      \/ l = <<"xmlrpc", "http", "portal">> \/ l = <<"http", "portal">> \/ l = <<"portal">>
  BY DEF Orders
<1>2. CASE l = <<"http", "portal", "xmlrpc">>
  BY <1>2 DEF Orders, Lists, Routes, Tried
<1>3. CASE l = <<"portal", "xmlrpc">>
  BY <1>3 DEF Orders, Lists, Routes, Tried
<1>4. CASE l = <<"xmlrpc">>
  BY <1>4 DEF Orders, Lists, Routes, Tried
<1>5. CASE l = <<"xmlrpc", "http", "portal">>
  BY <1>5 DEF Orders, Lists, Routes, Tried
<1>6. CASE l = <<"http", "portal">>
  BY <1>6 DEF Orders, Lists, Routes, Tried
<1>7. CASE l = <<"portal">>
  BY <1>7 DEF Orders, Lists, Routes, Tried
<1> QED BY <1>1, <1>2, <1>3, <1>4, <1>5, <1>6, <1>7
LEMMA AnswersShape ==
  /\ Refusal \in Answers
  /\ \A r \in Routes, c \in Contents :
       /\ [kind |-> "document", route |-> r, content |-> c] \in Answers
       /\ [kind |-> "document", route |-> r, content |-> c] # Refusal
BY DEF Refusal, Answers, Contents

LEMMA InitInv == Init => Inv
<1> SUFFICES ASSUME Init PROVE Inv
  OBVIOUS
<1>1. None # Refusal
  BY AnswersShape, NoneAssumption
<1>2. TypeOK
  <2>1. <<>> \in Lists
    BY DEF Lists
  <2>2. 0 \in 0 .. MaxRequests
    BY BoundAssumption
  <2>3. {} \subseteq 1 .. 0
    OBVIOUS
  <2> QED BY <2>1, <2>2, <2>3 DEF Init, TypeOK, Tokens
<1> QED BY <1>1, <1>2 DEF Init, Inv, Routing

(* A thread that answers, or goes on to its next route, does so rightly,   *)
(* if a route that failed was closed, or there was a mishap.               *)
LEMMA NextRouteInv ==
  ASSUME Inv, NEW t \in Threads, pc[t] \in {"route", "mint", "get"},
         NextRoute(t), NEW happened \in BOOLEAN, Mishap(t, happened),
         happened \/ Closed(Head(left[t])), UNCHANGED server
  PROVE  /\ Routing'
         /\ ThreadTypes'
         /\ \A u \in Threads : pc'[u] = "mint" => pc[u] = "mint" /\ u # t
<1>1. /\ left[t] \in Orders /\ mishap' = [mishap EXCEPT ![t] = @ \/ happened]
      /\ UNCHANGED <<open, rendering>>
  BY DEF Inv, Routing, Mishap, server
<1>2. /\ held' = [held EXCEPT ![t] = None] /\ held' \in [Threads -> Tokens]
      /\ mishap' \in [Threads -> BOOLEAN]
  BY <1>1 DEF Inv, TypeOK, NextRoute, Answer, Tokens
<1>3. ~mishap'[t] => \A r \in Tried(left[t]) \cup {Head(left[t])} : Closed(r)
  BY <1>1 DEF Inv, TypeOK, Routing
<1>4. \A r : Closed(r)' <=> Closed(r)
  BY <1>1 DEF Closed
<1>5. CASE Tail(left[t]) = <<>>
  <2>1. /\ answer' = [answer EXCEPT ![t] = Refusal]
        /\ left' = [left EXCEPT ![t] = <<>>]
        /\ pc' = [pc EXCEPT ![t] = "idle"]
    BY <1>5 DEF NextRoute, Answer, Goto
  <2>2. ~mishap'[t] => \A r \in Routes : Closed(r)
    BY <1>1, <1>3, <1>5, OrdersShape
  <2>3. Routing'
    BY <1>1, <1>4, <2>1, <2>2 DEF Inv, TypeOK, Routing
  <2> QED BY <1>2, <2>1, <2>3, AnswersShape DEF Inv, TypeOK, ThreadTypes, Lists
<1>6. CASE Tail(left[t]) # <<>>
  <2>1. /\ left' = [left EXCEPT ![t] = Tail(left[t])]
        /\ pc' = [pc EXCEPT ![t] = "route"]
        /\ UNCHANGED answer
    BY <1>6 DEF NextRoute, Goto
  <2>2. /\ Tail(left[t]) \in Orders /\ Tail(left[t]) \in Lists
        /\ Tried(Tail(left[t])) = Tried(left[t]) \cup {Head(left[t])}
    BY <1>1, <1>6, OrdersShape
  <2>3. ~mishap'[t] => \A r \in Tried(Tail(left[t])) : Closed(r)
    BY <1>3, <2>2
  <2>4. answer[t] = None
    BY DEF Inv, Routing
  <2>5. Routing'
    BY <1>1, <1>4, <2>1, <2>2, <2>3, <2>4 DEF Inv, TypeOK, Routing
  <2> QED BY <1>2, <1>6, <2>1, <2>2, <2>5 DEF Inv, TypeOK, ThreadTypes
<1> QED BY <1>5, <1>6

LEMMA DocumentInv ==
  ASSUME Inv, NEW t \in Threads, NEW r \in Routes, NEW c \in Contents,
         Document(t, r, c), UNCHANGED server
  PROVE  /\ Routing'
         /\ ThreadTypes'
         /\ \A u \in Threads : pc'[u] = "mint" => pc[u] = "mint" /\ u # t
<1> DEFINE a == [kind |-> "document", route |-> r, content |-> c]
<1>1. a \in Answers /\ a # Refusal
  BY AnswersShape
<1>2. /\ answer' = [answer EXCEPT ![t] = a]
      /\ left' = [left EXCEPT ![t] = <<>>]
      /\ held' = [held EXCEPT ![t] = None]
      /\ pc' = [pc EXCEPT ![t] = "idle"]
      /\ UNCHANGED <<mishap, open, rendering>>
  BY DEF Document, Answer, Goto, server
<1> HIDE DEF a
<1>3. \A x : Closed(x)' <=> Closed(x)
  BY <1>2 DEF Closed
<1>4. Routing'
  BY <1>1, <1>2, <1>3 DEF Inv, TypeOK, Routing
<1> QED BY <1>1, <1>2, <1>4 DEF Inv, TypeOK, ThreadTypes, Lists, Tokens
(* A token appears.                                                        *)
LEMMA NewTokenType ==
  ASSUME TypeOK, NEW others, NewToken(others)
  PROVE  /\ token' = tokens + 1 /\ tokens' = tokens + 1
         /\ token' \in 1 .. tokens' /\ tokens' \in Nat /\ raced' \in BOOLEAN
         /\ 1 .. tokens \subseteq 1 .. tokens'
BY DEF TypeOK, NewToken, Tokens

LEMMA StepInv == Inv /\ [Next]_vars => Inv'
<1> SUFFICES ASSUME Inv, [Next]_vars PROVE Inv'
  OBVIOUS
<1> USE DEF Inv
<1>1. ASSUME NEW t \in Threads, Request(t) PROVE Inv'
  <2>1. TypeOK'
    BY <1>1, BoundAssumption DEF Request, TypeOK, Goto, server, record
  <2>2. Routing'
    BY <1>1 DEF Request, TypeOK, Routing, Goto, server, Closed
  <2> QED BY <2>1, <2>2
<1>2. ASSUME NEW t \in Threads, Look(t) \/ Probe(t) PROVE Inv'
  <2>1. TypeOK'
    BY <1>2 DEF Look, Probe, TypeOK, Goto, server, record
  <2>2. Routing'
    BY <1>2 DEF Look, Probe, TypeOK, Routing, Goto, server, Closed
  <2> QED BY <2>1, <2>2
<1>3. ASSUME NEW t \in Threads, LookFails(t) PROVE Inv'
  <2>1. TypeOK'
    BY <1>3, AnswersShape
       DEF LookFails, Answer, Mishap, TypeOK, Goto, server, record, Lists, Tokens
  <2>2. Routing'
    BY <1>3 DEF LookFails, Answer, Mishap, TypeOK, Routing, Goto, server, Closed
  <2> QED BY <2>1, <2>2
<1>4. ASSUME NEW t \in Threads, Order(t) PROVE Inv'
  <2>1. PICK l \in {<<"http", "portal", "xmlrpc">>, <<"xmlrpc", "http", "portal">>} :
          left' = [left EXCEPT ![t] = l]
    BY <1>4 DEF Order
  <2>2. l \in Orders /\ l \in Lists /\ l # <<>> /\ Tried(l) = {}
    <3>1. l \in Orders
      BY DEF Orders
    <3>2. Tried(l) = {}
      BY DEF Tried
    <3> QED BY <3>1, <3>2, OrdersShape
  <2>3. TypeOK'
    BY <1>4, <2>1, <2>2 DEF Order, TypeOK, Goto, server, record
  <2>4. Routing'
    BY <1>4, <2>1, <2>2 DEF Order, TypeOK, Routing, Goto, server, Closed
  <2> QED BY <2>3, <2>4
<1>5. ASSUME NEW t \in Threads, ByHttp(t) \/ ByXmlRpc(t) PROVE Inv'
  <2>1. UNCHANGED <<server, record, versionMajor, requests, minted>>
        /\ pc[t] = "route"
    BY <1>5 DEF ByHttp, ByXmlRpc, Trying
  <2>2. Routing' /\ ThreadTypes'
    <3>1. CASE \E r \in Routes, c \in Contents : Document(t, r, c)
      BY <2>1, <3>1, DocumentInv
    <3>2. ASSUME NEW happened, happened \in BOOLEAN,
                 NextRoute(t), Mishap(t, happened), happened \/ Closed(Head(left[t]))
          PROVE  Routing' /\ ThreadTypes'
      BY <2>1, <3>2, NextRouteInv
    <3>3. CASE ByHttp(t)
      <4>1. \/ Document(t, "http", "pdf")
            \/ NextRoute(t) /\ Mishap(t, "http" \in open)
        BY <3>3 DEF ByHttp
      <4>2. "http" \in open \/ Closed(Head(left[t]))
        BY <3>3 DEF ByHttp, Trying, Closed
      <4>3. ("http" \in open) \in BOOLEAN
        OBVIOUS
      <4>4. "http" \in Routes /\ "pdf" \in Contents
        BY DEF Routes, Contents
      <4>5. CASE NextRoute(t) /\ Mishap(t, "http" \in open)
        BY <3>2, <4>2, <4>3, <4>5
      <4> QED BY <3>1, <4>1, <4>4, <4>5
    <3>4. CASE ByXmlRpc(t)
      <4> DEFINE gives == "xmlrpc" \in open /\ rendering # "nothing"
      <4>1. \/ Document(t, "xmlrpc", rendering)
            \/ NextRoute(t) /\ Mishap(t, gives)
        BY <3>4 DEF ByXmlRpc
      <4>2. gives \/ Closed(Head(left[t]))
        BY <3>4 DEF ByXmlRpc, Trying, Closed
      <4>3. gives \in BOOLEAN
        OBVIOUS
      <4> HIDE DEF gives
      <4>4. "xmlrpc" \in Routes /\ rendering \in Contents
        BY DEF Routes, TypeOK
      <4>5. CASE NextRoute(t) /\ Mishap(t, gives)
        BY <3>2, <4>2, <4>3, <4>5
      <4> QED BY <3>1, <4>1, <4>4, <4>5
    <3> QED BY <1>5, <3>3, <3>4
  <2>3. TypeOK'
    BY <2>1, <2>2 DEF TypeOK, ThreadTypes, server, record
  <2> QED BY <2>2, <2>3
<1>6. ASSUME NEW t \in Threads, ReadToken(t) PROVE Inv'
  <2>1. TypeOK'
    <3>1. token \in Tokens
      BY DEF TypeOK, Tokens
    <3> QED BY <1>6, <3>1 DEF ReadToken, Trying, TypeOK, Goto, server, record
  <2>2. Routing'
    BY <1>6 DEF ReadToken, Trying, TypeOK, Routing, Goto, server, Closed
  <2> QED BY <2>1, <2>2
<1>7. ASSUME NEW t \in Threads, ReadTokenFails(t) \/ Page(t) PROVE Inv'
  <2>1. /\ UNCHANGED <<server, record, versionMajor, requests, minted>>
        /\ pc[t] \in {"route", "get"} /\ Head(left[t]) = "portal"
    BY <1>7 DEF ReadTokenFails, Page, Trying, Routing
  <2>2. Routing' /\ ThreadTypes'
    <3>1. CASE Document(t, "portal", "pdf")
      BY <2>1, <3>1, DocumentInv DEF Routes, Contents
    <3>2. CASE NextRoute(t) /\ Mishap(t, "portal" \in open)
      <4>1. "portal" \in open \/ Closed(Head(left[t]))
        BY <2>1 DEF Closed
      <4>2. ("portal" \in open) \in BOOLEAN /\ UNCHANGED server
        BY <2>1
      <4>3. pc[t] \in {"route", "mint", "get"}
        BY <2>1
      <4> QED BY <3>2, <4>1, <4>2, <4>3, NextRouteInv
    <3> QED BY <1>7, <3>1, <3>2 DEF ReadTokenFails, Page
  <2>3. TypeOK'
    BY <2>1, <2>2 DEF TypeOK, ThreadTypes, server, record
  <2> QED BY <2>2, <2>3
<1>8. ASSUME NEW t \in Threads, Mint(t) PROVE Inv'
  <2>1. NewToken(Threads \ {t}) /\ UNCHANGED <<server, links, requests, versionMajor>>
    BY <1>8 DEF Mint
  <2>2. TypeOK'
    <3>1. /\ token' \in 1 .. tokens' /\ tokens' \in Nat /\ raced' \in BOOLEAN
          /\ links' \subseteq 1 .. tokens'
      BY <2>1, NewTokenType DEF TypeOK
    <3>2. tokens + 1 \in Tokens
      BY DEF TypeOK, Tokens
    <3>3. /\ pc' = [pc EXCEPT ![t] = "get"] /\ pc[t] = "mint"
          /\ held' = [held EXCEPT ![t] = tokens + 1]
          /\ minted' = [minted EXCEPT ![t] = TRUE]
          /\ UNCHANGED <<major, open, rendering, versionMajor, left, answer, requests, mishap>>
      BY <1>8 DEF Mint, Goto, server
    <3>4. \A u \in Threads : pc'[u] \in {"route", "mint", "get"} => left'[u] # <<>>
      BY <3>3 DEF TypeOK
    <3>5. /\ pc' \in [Threads -> {"idle", "look", "probe", "order", "route", "mint", "get"}]
          /\ held' \in [Threads -> Tokens] /\ minted' \in [Threads -> BOOLEAN]
      BY <3>2, <3>3 DEF TypeOK
    <3> QED BY <3>1, <3>3, <3>4, <3>5 DEF TypeOK
  <2>3. Routing'
    BY <1>8, <2>1 DEF Mint, TypeOK, Routing, Goto, server, Closed
  <2> QED BY <2>2, <2>3
<1>9. ASSUME NEW t \in Threads, MintFails(t) PROVE Inv'
  <2>1. /\ UNCHANGED <<server, versionMajor, requests, links>>
        /\ NewToken(Threads \ {t}) \/ UNCHANGED <<token, tokens, raced>>
        /\ pc[t] = "mint" /\ Head(left[t]) = "portal"
        /\ minted' \in [Threads -> BOOLEAN]
    BY <1>9 DEF MintFails, Routing, record, TypeOK
  <2>2. Routing' /\ ThreadTypes'
    <3>1. NextRoute(t) /\ Mishap(t, "portal" \in open)
      BY <1>9 DEF MintFails
    <3>2. "portal" \in open \/ Closed(Head(left[t]))
      BY <2>1 DEF Closed
    <3>3. ("portal" \in open) \in BOOLEAN /\ UNCHANGED server
      BY <2>1
    <3>4. pc[t] \in {"route", "mint", "get"}
      BY <2>1
    <3> QED BY <3>1, <3>2, <3>3, <3>4, NextRouteInv
  <2>3. /\ token' \in (1 .. tokens') \cup {None} /\ tokens' \in Nat /\ raced' \in BOOLEAN
        /\ links' \subseteq 1 .. tokens'
    <3>1. CASE NewToken(Threads \ {t})
      BY <2>1, <3>1, NewTokenType DEF TypeOK
    <3>2. CASE UNCHANGED <<token, tokens, raced>>
      BY <2>1, <3>2 DEF TypeOK
    <3> QED BY <2>1, <3>1, <3>2
  <2>4. TypeOK'
    BY <2>1, <2>2, <2>3 DEF TypeOK, ThreadTypes, server
  <2> QED BY <2>2, <2>4
<1>10. CASE MailLink
  <2>1. TypeOK'
    <3>1. /\ token' \in (1 .. tokens') \cup {None} /\ tokens' \in Nat /\ raced' \in BOOLEAN
          /\ links' \subseteq 1 .. tokens'
      <4>1. CASE token = None
        BY <1>10, <4>1, NewTokenType DEF MailLink, TypeOK
      <4>2. CASE token # None
        BY <1>10, <4>2 DEF MailLink, TypeOK
      <4> QED BY <4>1, <4>2
    <3> QED BY <1>10, <3>1 DEF MailLink, TypeOK, server
  <2>2. Routing'
    BY <1>10 DEF MailLink, Routing, server, Closed
  <2> QED BY <2>1, <2>2
<1>11. CASE UNCHANGED vars
  BY <1>11 DEF vars, server, record, TypeOK, Routing, Closed
<1> QED BY <1>1, <1>2, <1>3, <1>4, <1>5, <1>6, <1>7, <1>8, <1>9, <1>10, <1>11
        DEF Next, Step
LEMMA Invariance == Spec => []Inv
BY InitInv, StepInv, PTL DEF Spec

-----------------------------------------------------------------------------
(* Routes, tokens and answers have their types, and a request that looks   *)
(* for a route has one to try.                                             *)
THEOREM TypeCorrect == Spec => []TypeOK
<1>1. Inv => TypeOK
  BY DEF Inv
<1> QED BY <1>1, Invariance, PTL

(* Whatever the order of the routes and whoever else asks: a refusal with  *)
(* no failed call and no lost token means that no route was open.          *)
THEOREM AvailableServed == Spec => []AvailableIsServed
<1>1. Inv => AvailableIsServed
  <2> SUFFICES ASSUME Inv, NEW t \in Threads, answer[t] = Refusal, ~mishap[t]
               PROVE  /\ open \cap {"http", "portal"} = {}
                      /\ "xmlrpc" \in open => rendering = "nothing"
    BY DEF AvailableIsServed
  <2>1. pc[t] = "idle"
    BY AnswersShape, NoneAssumption DEF Inv, Routing
  <2>2. \A r \in Routes : Closed(r)
    BY <2>1 DEF Inv, Routing
  <2> QED BY <2>2 DEF Closed, Routes
<1> QED BY <1>1, Invariance, PTL

(* A token is written only for a portal that the report controller could   *)
(* not stand in for: a read writes nothing else.                           *)
THEOREM ReadsWriteNothing == Spec => []ReadWritesNothing
<1>1. Init => ReadWritesNothing
  BY DEF Init, ReadWritesNothing
<1>2. Inv /\ ReadWritesNothing /\ [Next]_vars => ReadWritesNothing'
  <2> SUFFICES ASSUME Inv, ReadWritesNothing, [Next]_vars PROVE ReadWritesNothing'
    OBVIOUS
  <2>1. mishap \in [Threads -> BOOLEAN] /\ minted \in [Threads -> BOOLEAN]
    BY DEF Inv, TypeOK
  <2>2. ASSUME NEW t \in Threads, Request(t) PROVE ReadWritesNothing'
    BY <2>1, <2>2 DEF ReadWritesNothing, Request, server
  <2>3. ASSUME NEW t \in Threads, Mint(t) \/ MintFails(t) PROVE ReadWritesNothing'
    <3>1. left[t] \in Orders /\ Head(left[t]) = "portal"
      BY <2>3 DEF Mint, MintFails, Inv, Routing
    <3>2. "http" \in Tried(left[t])
      BY <3>1, OrdersShape
    <3>3. mishap[t] \/ "http" \notin open
      BY <2>3, <3>2 DEF Mint, MintFails, Inv, Routing, Closed
    <3>4. mishap[t] => mishap'[t]
      BY <2>1, <2>3 DEF Mint, MintFails, Mishap
    <3>5. /\ \A u \in Threads \ {t} : minted'[u] = minted[u] /\ mishap'[u] = mishap[u]
          /\ open' = open
      BY <2>1, <2>3 DEF Mint, MintFails, Mishap, server
    <3> QED BY <3>3, <3>4, <3>5 DEF ReadWritesNothing
  <2>4. ASSUME NEW t \in Threads,
               Look(t) \/ Probe(t) \/ Order(t) \/ ReadToken(t)
        PROVE  ReadWritesNothing'
    BY <2>4 DEF ReadWritesNothing, Look, Probe, Order, ReadToken, server
  <2>5. ASSUME NEW t \in Threads,
               LookFails(t) \/ ByHttp(t) \/ ByXmlRpc(t) \/ ReadTokenFails(t) \/ Page(t)
        PROVE  ReadWritesNothing'
    <3>1. UNCHANGED <<open, minted>>
          /\ (UNCHANGED mishap \/ \E h \in BOOLEAN : Mishap(t, h))
      BY <2>5 DEF LookFails, ByHttp, ByXmlRpc, ReadTokenFails, Page, Document, server, Mishap
    <3> QED BY <2>1, <3>1 DEF ReadWritesNothing, Mishap
  <2>6. CASE MailLink \/ UNCHANGED vars
    BY <2>6 DEF ReadWritesNothing, MailLink, vars, server
  <2> QED BY <2>2, <2>3, <2>4, <2>5, <2>6 DEF Next, Step
<1> QED BY <1>1, <1>2, Invariance, PTL DEF Spec

(* Unless a token appeared under a request that was about to write one,    *)
(* whoever is about to write has found none, and there are no links yet.   *)
Unraced == ~raced => \A t \in Threads : pc[t] = "mint" => token = None

(* No link that was mailed is broken by a document, short of that race.    *)
THEOREM LinksAreKept == Spec => []LinksKept
<1>1. Init => Unraced /\ LinksKept
  BY DEF Init, Unraced, LinksKept
<1>2. Inv /\ Unraced /\ LinksKept /\ [Next]_vars => Unraced' /\ LinksKept'
  <2> SUFFICES ASSUME Inv, Unraced, LinksKept, [Next]_vars PROVE Unraced' /\ LinksKept'
    OBVIOUS
  <2>1. /\ pc \in [Threads -> {"idle", "look", "probe", "order", "route", "mint", "get"}]
        /\ links \subseteq 1 .. tokens /\ tokens \in Nat /\ None \notin Nat
        /\ raced \in BOOLEAN
    BY NoneAssumption DEF Inv, TypeOK
  <2>2. ASSUME NEW t \in Threads, NewToken(Threads \ {t}), UNCHANGED links, pc[t] = "mint",
               \A u \in Threads : pc'[u] = "mint" => pc[u] = "mint" /\ u # t
        PROVE  Unraced' /\ LinksKept'
    <3>1. ~raced => links = {}
      BY <2>1, <2>2 DEF Unraced, LinksKept
    <3>2. ~raced' => ~raced /\ \A u \in Threads : pc'[u] # "mint"
      BY <2>2 DEF NewToken
    <3> QED BY <2>2, <3>1, <3>2 DEF Unraced, LinksKept
  <2>3. ASSUME NEW t \in Threads, UNCHANGED record,
               \A u \in Threads : pc'[u] = "mint" => pc[u] = "mint" \/ token = None
        PROVE  Unraced' /\ LinksKept'
    BY <2>3 DEF Unraced, LinksKept, record
  <2>4. ASSUME NEW t \in Threads, Mint(t) PROVE Unraced' /\ LinksKept'
    <3>1. \A u \in Threads : pc'[u] = "mint" => pc[u] = "mint" /\ u # t
      BY <2>1, <2>4 DEF Mint, Goto
    <3> QED BY <2>2, <2>4, <3>1 DEF Mint
  <2>5. ASSUME NEW t \in Threads, MintFails(t) PROVE Unraced' /\ LinksKept'
    <3>1. \A u \in Threads : pc'[u] = "mint" => pc[u] = "mint" /\ u # t
      BY <2>1, <2>5 DEF MintFails, NextRoute, Answer, Goto
    <3> QED BY <2>2, <2>3, <2>5, <3>1 DEF MintFails
  <2>6. ASSUME NEW t \in Threads,
               Request(t) \/ Look(t) \/ LookFails(t) \/ Probe(t) \/ Order(t) \/ ReadToken(t)
        PROVE  Unraced' /\ LinksKept'
    <3>1. \A u \in Threads : pc'[u] = "mint" => pc[u] = "mint" \/ token = None
      BY <2>1, <2>6
         DEF Request, Look, LookFails, Probe, Order, ReadToken, Answer, Goto
    <3>2. UNCHANGED record
      BY <2>6 DEF Request, Look, LookFails, Probe, Order, ReadToken
    <3> QED BY <2>3, <3>1, <3>2
  <2>7. ASSUME NEW t \in Threads,
               ByHttp(t) \/ ByXmlRpc(t) \/ ReadTokenFails(t) \/ Page(t)
        PROVE  Unraced' /\ LinksKept'
    <3>1. \A u \in Threads : pc'[u] = "mint" => pc[u] = "mint" \/ token = None
      BY <2>1, <2>7 DEF ByHttp, ByXmlRpc, ReadTokenFails, Page, Document,
                        NextRoute, Answer, Goto
    <3>2. UNCHANGED record
      BY <2>7 DEF ByHttp, ByXmlRpc, ReadTokenFails, Page
    <3> QED BY <2>3, <3>1, <3>2
  <2>8. CASE MailLink
    <3>1. CASE token = None
      <4>1. links = {} \/ raced
        BY <2>1, <3>1 DEF LinksKept
      <4> QED BY <2>8, <3>1, <4>1 DEF MailLink, NewToken, Unraced, LinksKept
    <3>2. CASE token # None
      BY <2>8, <3>2 DEF MailLink, Unraced, LinksKept
    <3> QED BY <3>1, <3>2
  <2>9. CASE UNCHANGED vars
    BY <2>9 DEF vars, Unraced, LinksKept
  <2> QED BY <2>4, <2>5, <2>6, <2>7, <2>8, <2>9 DEF Next, Step
<1> QED BY <1>1, <1>2, Invariance, PTL DEF Spec
=============================================================================
