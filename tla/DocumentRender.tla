--------------------------- MODULE DocumentRender ---------------------------
(***************************************************************************)
(* The ERP's own document of one record: _document (translate.py) and      *)
(* render_report (system.py) with its three routes to Odoo's PDF, called   *)
(* by threads that share one client.                                       *)
(*                                                                         *)
(* A request looks the record up, takes the order of the routes from the   *)
(* server's version, which the client probes once and keeps, and tries one *)
(* route after the other until one gives a document.  The portal route     *)
(* needs the record's access token and gives it one if it has none, in two *)
(* calls: the one thing that is written here.  A call may fail anywhere.   *)
(*                                                                         *)
(* The record exists and its target has a portal page.  Odoo, which routes *)
(* of it are open and what its old render_qweb_pdf gives are external, and *)
(* so are the people who mail a link to the record's portal page.          *)
(***************************************************************************)
EXTENDS Naturals, Sequences

CONSTANTS
  Threads,
  Majors,               \* versions a server may have
  MaxRequests,          \* bound: requests
  None                  \* not probed, no token, no answer

(* _version_major of a server that could not be probed is 0.               *)
ASSUME MajorsAssumption == Majors \subseteq Nat \ {0}
ASSUME BoundAssumption == MaxRequests \in Nat

Routes == {"http", "portal", "xmlrpc"}
Contents == {"pdf", "other", "nothing"}

(* What a request comes to: bytes by a route, or DOCUMENT_UNAVAILABLE.     *)
Answers == [kind : {"document"}, route : Routes, content : Contents]
           \cup [kind : {"refused"}, route : {None}, content : {"nothing"}]

ASSUME NoneAssumption == None \notin Nat \cup Answers

VARIABLES
  major,                \* the server's version
  open,                 \* the routes it serves
  rendering,            \* what its render_qweb_pdf gives
  token,                \* the record's access_token
  tokens,               \* tokens there have been: the next one's name
  links,                \* tokens in links that were mailed
  versionMajor,         \* the client's _version_major
  pc,
  left,                 \* the routes a request has yet to try
  held,                 \* the token a request read or made
  answer,               \* a thread's last answer
  requests,
  mishap,               \* an open route failed this request (history)
  minted,               \* this request wrote a token (history)
  raced                 \* a token appeared before a request's write (history)

vars == <<major, open, rendering, token, tokens, links, versionMajor, pc, left,
          held, answer, requests, mishap, minted, raced>>
server == <<major, open, rendering>>
record == <<token, tokens, links, raced>>

Init ==
  /\ major \in Majors
  /\ open \in SUBSET Routes
  /\ rendering \in Contents
  /\ token = None /\ tokens = 0 /\ links = {}
  /\ versionMajor = None
  /\ pc = [t \in Threads |-> "idle"]
  /\ left = [t \in Threads |-> <<>>]
  /\ held = [t \in Threads |-> None]
  /\ answer = [t \in Threads |-> None]
  /\ requests = 0
  /\ mishap = [t \in Threads |-> FALSE]
  /\ minted = [t \in Threads |-> FALSE]
  /\ raced = FALSE

Goto(t, l) == pc' = [pc EXCEPT ![t] = l]

Answer(t, a) ==
  /\ answer' = [answer EXCEPT ![t] = a]
  /\ left' = [left EXCEPT ![t] = <<>>]
  /\ held' = [held EXCEPT ![t] = None]
  /\ Goto(t, "idle")

Refusal == [kind |-> "refused", route |-> None, content |-> "nothing"]

Mishap(t, happened) == mishap' = [mishap EXCEPT ![t] = @ \/ happened]

-----------------------------------------------------------------------------
Request(t) ==
  /\ pc[t] = "idle" /\ requests < MaxRequests
  /\ requests' = requests + 1
  /\ answer' = [answer EXCEPT ![t] = None]
  /\ mishap' = [mishap EXCEPT ![t] = FALSE]
  /\ minted' = [minted EXCEPT ![t] = FALSE]
  /\ Goto(t, "look")
  /\ UNCHANGED <<server, record, versionMajor, left, held>>

(* The search for the record; what fails refuses.                          *)
Look(t) ==
  /\ pc[t] = "look"
  /\ Goto(t, IF versionMajor = None THEN "probe" ELSE "order")
  /\ UNCHANGED <<server, record, versionMajor, left, held, answer, requests, mishap, minted>>

LookFails(t) ==
  /\ pc[t] = "look"
  /\ Answer(t, Refusal)
  /\ Mishap(t, TRUE)
  /\ UNCHANGED <<server, record, versionMajor, requests, minted>>

(* _server_major: two threads may both probe, and either answer is kept.   *)
Probe(t) ==
  /\ pc[t] = "probe"
  /\ versionMajor' \in {major, 0}
  /\ Goto(t, "order")
  /\ UNCHANGED <<server, record, left, held, answer, requests, mishap, minted>>

(* Mutant: the route that modern servers serve is tried first.             *)
OrderPortalFirst(t) ==
  /\ pc[t] = "order"
  /\ left' = [left EXCEPT ![t] = IF versionMajor = 0 \/ versionMajor >= 15
                                 THEN <<"portal", "http", "xmlrpc">>
                                 ELSE <<"xmlrpc", "http", "portal">>]
  /\ Goto(t, "route")
  /\ UNCHANGED <<server, record, versionMajor, held, answer, requests, mishap, minted>>

(* Mutant: an old server is not asked for its portal.                      *)
OrderShort(t) ==
  /\ pc[t] = "order"
  /\ left' = [left EXCEPT ![t] = IF versionMajor = 0 \/ versionMajor >= 15
                                 THEN <<"http", "portal", "xmlrpc">>
                                 ELSE <<"xmlrpc", "http">>]
  /\ Goto(t, "route")
  /\ UNCHANGED <<server, record, versionMajor, held, answer, requests, mishap, minted>>

(* The order of the routes.                                                *)
Order(t) ==
  /\ pc[t] = "order"
  /\ left' = [left EXCEPT ![t] = IF versionMajor = 0 \/ versionMajor >= 15
                                 THEN <<"http", "portal", "xmlrpc">>
                                 ELSE <<"xmlrpc", "http", "portal">>]
  /\ Goto(t, "route")
  /\ UNCHANGED <<server, record, versionMajor, held, answer, requests, mishap, minted>>

Trying(t, r) == pc[t] = "route" /\ left[t] # <<>> /\ Head(left[t]) = r

(* A route that failed leaves it to the next one, the last one refuses.    *)
NextRoute(t) ==
  IF Tail(left[t]) = <<>>
  THEN Answer(t, Refusal)
  ELSE /\ left' = [left EXCEPT ![t] = Tail(@)]
       /\ held' = [held EXCEPT ![t] = None]
       /\ Goto(t, "route")
       /\ UNCHANGED answer

Document(t, r, content) ==
  /\ Answer(t, [kind |-> "document", route |-> r, content |-> content])
  /\ UNCHANGED mishap

(* _render_via_http and _render_via_xmlrpc.  The controller's bytes must   *)
(* be a PDF, the XML-RPC method's only must be bytes and be there.         *)
ByHttp(t) ==
  /\ Trying(t, "http")
  /\ \/ "http" \in open /\ Document(t, "http", "pdf")
     \/ NextRoute(t) /\ Mishap(t, "http" \in open)
  /\ UNCHANGED <<server, record, versionMajor, requests, minted>>

ByXmlRpc(t) ==
  /\ Trying(t, "xmlrpc")
  /\ LET gives == "xmlrpc" \in open /\ rendering # "nothing" IN
     \/ gives /\ Document(t, "xmlrpc", rendering)
     \/ NextRoute(t) /\ Mishap(t, gives)
  /\ UNCHANGED <<server, record, versionMajor, requests, minted>>

(* Mutant: every portal document has a token of its own.                   *)
ReadTokenAnew(t) ==
  /\ Trying(t, "portal")
  /\ held' = [held EXCEPT ![t] = token]
  /\ Goto(t, "mint")
  /\ UNCHANGED <<server, record, versionMajor, left, answer, requests, mishap, minted>>

(* _render_via_portal: read the token, write one if there is none, get the *)
(* page.                                                                   *)
ReadToken(t) ==
  /\ Trying(t, "portal")
  /\ held' = [held EXCEPT ![t] = token]
  /\ Goto(t, IF token = None THEN "mint" ELSE "get")
  /\ UNCHANGED <<server, record, versionMajor, left, answer, requests, mishap, minted>>

ReadTokenFails(t) ==
  /\ Trying(t, "portal")
  /\ NextRoute(t)
  /\ Mishap(t, "portal" \in open)
  /\ UNCHANGED <<server, record, versionMajor, requests, minted>>

(* A token appears: who has read that there is none will write all the     *)
(* same.                                                                   *)
NewToken(others) ==
  /\ tokens' = tokens + 1
  /\ token' = tokens + 1
  /\ raced' = (raced \/ \E u \in others : pc[u] = "mint")

Mint(t) ==
  /\ pc[t] = "mint"
  /\ NewToken(Threads \ {t})
  /\ held' = [held EXCEPT ![t] = tokens + 1]
  /\ minted' = [minted EXCEPT ![t] = TRUE]
  /\ Goto(t, "get")
  /\ UNCHANGED <<server, links, versionMajor, left, answer, requests, mishap>>

(* The write gets no answer, or a refusal: it may have been applied.       *)
MintFails(t) ==
  /\ pc[t] = "mint"
  /\ \/ NewToken(Threads \ {t}) /\ minted' = [minted EXCEPT ![t] = TRUE] /\ UNCHANGED links
     \/ UNCHANGED <<record, minted>>
  /\ NextRoute(t)
  /\ Mishap(t, "portal" \in open)
  /\ UNCHANGED <<server, versionMajor, requests>>

(* A closed portal or a token that is not the record's (any more) gets a   *)
(* page that is no PDF, and the route fails.                               *)
Page(t) ==
  /\ pc[t] = "get"
  /\ \/ "portal" \in open /\ held[t] = token /\ Document(t, "portal", "pdf")
     \/ NextRoute(t) /\ Mishap(t, "portal" \in open)
  /\ UNCHANGED <<server, record, versionMajor, requests, minted>>

(* Somebody mails a link to the portal page; Odoo gives the record a token *)
(* if it has none.                                                         *)
MailLink ==
  /\ IF token = None
     THEN NewToken(Threads) /\ links' = links \cup {tokens + 1}
     ELSE links' = links \cup {token} /\ UNCHANGED <<token, tokens, raced>>
  /\ UNCHANGED <<server, versionMajor, pc, left, held, answer, requests, mishap, minted>>

Step(t) ==
  \/ Look(t) \/ LookFails(t) \/ Probe(t) \/ Order(t)
  \/ ByHttp(t) \/ ByXmlRpc(t)
  \/ ReadToken(t) \/ ReadTokenFails(t) \/ Mint(t) \/ MintFails(t) \/ Page(t)

Next == MailLink \/ \E t \in Threads : Request(t) \/ Step(t)

Spec == Init /\ [][Next]_vars

-----------------------------------------------------------------------------
Tokens == Nat \cup {None}
Lists == {<<>>} \cup UNION {[1 .. n -> Routes] : n \in 1 .. 3}

TypeOK ==
  /\ major \in Majors /\ open \subseteq Routes /\ rendering \in Contents
  /\ tokens \in Nat /\ token \in (1 .. tokens) \cup {None} /\ links \subseteq 1 .. tokens
  /\ versionMajor \in Majors \cup {0, None}
  /\ pc \in [Threads -> {"idle", "look", "probe", "order", "route", "mint", "get"}]
  /\ left \in [Threads -> Lists]
  /\ held \in [Threads -> Tokens]
  /\ answer \in [Threads -> Answers \cup {None}]
  /\ requests \in 0 .. MaxRequests
  /\ mishap \in [Threads -> BOOLEAN] /\ minted \in [Threads -> BOOLEAN]
  /\ raced \in BOOLEAN
  /\ \A t \in Threads : pc[t] \in {"route", "mint", "get"} => left[t] # <<>>

(* A refusal says that the document could not be had: if none of its calls *)
(* failed and no token was taken from under it, no route was open.         *)
AvailableIsServed ==
  \A t \in Threads :
    answer[t] = Refusal /\ ~mishap[t] =>
      /\ open \cap {"http", "portal"} = {}
      /\ "xmlrpc" \in open => rendering = "nothing"

(* A read that Odoo's report controller can serve writes nothing.          *)
ReadWritesNothing ==
  \A t \in Threads : minted[t] => "http" \notin open \/ mishap[t]

(* "An existing token is reused": links that people were sent stay good,   *)
(* whoever fetches documents, unless a token appeared after a request had  *)
(* read that there was none and before it wrote.                           *)
LinksKept == ~raced => links \subseteq {token}
=============================================================================
