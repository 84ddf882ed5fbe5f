------------------------------- MODULE HttpApi ------------------------------
(***************************************************************************)
(* Clients that list keys or documents over HTTP, page by page, while      *)
(* others change the table. Every request passes the rate limiter (secure  *)
(* in internal/storeapi and internal/docapi) before its handler asks the   *)
(* store; a client that is refused asks for the same page again. Requests  *)
(* of other kinds share the limiter.                                       *)
(***************************************************************************)
EXTENDS RateLimiter, Paging

CONSTANTS
    Kinds,          \* listings to model: "scan", "list" and "find"
    Walkers,        \* the callers that list; the others do something else
    KeyOf           \* rateLimitKey: the token each of Callers sends, else its IP

ASSUME HttpAssumption ==
    /\ Kinds \subseteq {"scan", "list", "find"}
    /\ Walkers \subseteq Callers
    /\ KeyOf \in [Callers -> Clients]

VARIABLES
    table,      \* each name: no row, a row the query shows, or one it does not
    walk        \* the listing of each walker

httpVars == <<limiterVars, table, walk>>

Visible == {n \in Names : table[n] = "visible"}
Indexed == {n \in Names : table[n] # "absent"}

(* got has the rows of each page received. steady and hidden are history:  *)
(* the names that matched from the start, and whether an index row without *)
(* a matching document was met.                                            *)
NoWalk == [at |-> "idle", kind |-> "none", cursor |-> Origin, ids |-> {}, got |-> <<>>,
           steady |-> {}, hidden |-> FALSE]

-----------------------------------------------------------------------------
(* A listing *)

Begin(p, kind) ==
    /\ walk[p] = NoWalk
    /\ walk' = [walk EXCEPT ![p] = [NoWalk EXCEPT !.at = "ready", !.kind = kind,
                                                  !.steady = Visible]]
    /\ UNCHANGED <<limiterVars, table>>

Request(p) ==
    /\ walk[p].at = "ready"
    /\ Call(p, KeyOf[p])
    /\ walk' = [walk EXCEPT ![p].at = "secure"]
    /\ UNCHANGED table

Admitted(p) ==
    /\ Grant(p)
    /\ walk' = [walk EXCEPT ![p].at = "handler"]
    /\ UNCHANGED table

TooManyRequests(p) ==
    /\ Refuse(p)
    /\ walk' = [walk EXCEPT ![p].at = "ready"]
    /\ UNCHANGED table

(* The answer: the client asks for the next page, or has all. *)
Receive(p, page, hid) ==
    /\ walk' = [walk EXCEPT ![p] =
                  [walk[p] EXCEPT !.at = IF page.next = Origin THEN "done" ELSE "ready",
                                  !.cursor = page.next,
                                  !.ids = {},
                                  !.got = Append(walk[p].got, page.rows),
                                  !.hidden = walk[p].hidden \/ hid]]
    /\ UNCHANGED <<limiterVars, table>>

Scan(p) ==
    /\ walk[p].at = "handler" /\ walk[p].kind = "scan"
    /\ Receive(p, ScanPage(Visible, walk[p].cursor), FALSE)

List(p) ==
    /\ walk[p].at = "handler" /\ walk[p].kind = "list"
    /\ Receive(p, ListPage(Visible, walk[p].cursor), FALSE)

(* The two SELECTs of queryDocsByIndex. *)
FindIds(p) ==
    /\ walk[p].at = "handler" /\ walk[p].kind = "find"
    /\ walk' = [walk EXCEPT ![p].at = "ids", ![p].ids = IndexPage(Indexed, walk[p].cursor)]
    /\ UNCHANGED <<limiterVars, table>>

FindDocs(p) ==
    /\ walk[p].at = "ids"
    /\ Receive(p, FindPage(walk[p].ids, Visible), ~(walk[p].ids \subseteq Visible))

(* Other clients write, delete and let expire. *)
Change(n, state) ==
    /\ table[n] # state
    /\ table' = [table EXCEPT ![n] = state]
    /\ walk' = IF state = "visible" THEN walk
               ELSE [p \in Walkers |-> [walk[p] EXCEPT !.steady = @ \ {n}]]
    /\ UNCHANGED limiterVars

Quiet == UNCHANGED <<table, walk>>
Other(p) == (Call(p, KeyOf[p]) \/ Grant(p) \/ Refuse(p)) /\ Quiet

-----------------------------------------------------------------------------
HttpInit ==
    /\ LimiterInit
    /\ table = [n \in Names |-> "absent"]
    /\ walk = [p \in Walkers |-> NoWalk]

HttpNext ==
    \/ Tick /\ Quiet
    \/ \E k \in Clients : Mark(k) /\ Quiet
    \/ \E n \in Names, state \in {"absent", "hidden", "visible"} : Change(n, state)
    \/ \E p \in Callers \ Walkers : Other(p)
    \/ \E p \in Walkers :
          \/ \E kind \in Kinds : Begin(p, kind)
          \/ Request(p) \/ Admitted(p) \/ TooManyRequests(p)
          \/ Scan(p) \/ List(p) \/ FindIds(p) \/ FindDocs(p)

HttpSpec == HttpInit /\ [][HttpNext]_httpVars

-----------------------------------------------------------------------------
(* Properties *)

Walk == [at : {"idle", "ready", "secure", "handler", "ids", "done"},
         kind : {"none", "scan", "list", "find"},
         cursor : Names \cup {Origin},
         ids : SUBSET Names,
         got : Seq(SUBSET Names),
         steady : SUBSET Names,
         hidden : BOOLEAN]

HttpTypeOK ==
    /\ LimiterTypeOK
    /\ table \in [Names -> {"absent", "hidden", "visible"}]
    /\ walk \in [Walkers -> Walk]

(* However the table changes under a listing, its pages come in order and  *)
(* no name comes twice (Scan, QueryDocs, queryDocsByIndex).                *)
NoNameTwice ==
    \A p \in Walkers : \A i, j \in DOMAIN walk[p].got :
        i < j => \A x \in walk[p].got[i], y \in walk[p].got[j] : x < y

Seen(w, n) == \E i \in DOMAIN w.got : n \in w.got[i]

(* The last page of a SCAN was full and ended with the key "0", which as a *)
(* cursor says that the listing is complete.                               *)
EndsWithZero(rows) ==
    ~(Cardinality(rows) < Count) /\ Zero \in rows /\ \A x \in rows : x <= Zero
CutOff(w) == w.kind = "scan" /\ w.got # <<>> /\ EndsWithZero(w.got[Len(w.got)])

(* A name that matched all the time a listing took is in it, whatever else *)
(* came and went and however often the limiter refused a page: unless this *)
(* SCAN was cut off by a page that ended with the key "0" and the name     *)
(* comes after it, or an index row met had no document (Scan, QueryDocs,   *)
(* queryDocsByIndex).                                                      *)
NothingMissed ==
    \A p \in Walkers :
        walk[p].at = "done" /\ ~walk[p].hidden =>
            \A n \in walk[p].steady :
                \/ Seen(walk[p], n)
                \/ CutOff(walk[p]) /\ Zero < n

(* The pages of an index query hold every document that matched all the    *)
(* time (docs/document-api.md: keyset pagination with has_more).           *)
FindComplete ==
    \A p \in Walkers :
        walk[p].at = "done" /\ walk[p].kind = "find" =>
            \A n \in walk[p].steady : Seen(walk[p], n)
=============================================================================
