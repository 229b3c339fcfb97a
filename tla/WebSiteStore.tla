---------------------------- MODULE WebSiteStore ----------------------------
(***************************************************************************)
(* WebSiteDBWorker: a table of web sites with an automatic id, and the     *)
(* search that combines optional conditions, orders and cuts pages.  A     *)
(* client scrolls through a search page by page while others add sites.    *)
(*                                                                         *)
(* A name is a number, for its place in the order, with the words it       *)
(* contains; Nil stands for an absent value or argument.                   *)
(***************************************************************************)
EXTENDS Integers, Sequences, FiniteSets, Functions, SequencesExt

CONSTANTS
    Batches,        \* the lists of sites clients add: records of a name and a rank (alexa)
    WordsIn,        \* WordsIn[name]: the words in a name
    Requests,       \* the arguments of the searches, without pageNum
    PlainRequests,  \* the arguments of getWebSites
    Nil,
    MaxRows         \* bound: rows in the table

WebSiteAssumption ==
    /\ MaxRows \in Nat /\ Nil \notin Nat
    /\ \A batch \in Batches :
        /\ batch \in Seq(Range(batch)) \ {<<>>}
        /\ \A k \in DOMAIN batch :
            /\ batch[k].name \in (Nat \cap DOMAIN WordsIn) \cup {Nil}
            /\ batch[k].alexa \in Nat \cup {Nil}
    /\ \A req \in Requests : req.pageSize \in Nat \ {0}

VARIABLES
    rows,       \* rows[i]: the site with id i; the table gives out one id after the other
    plain,      \* the last answer of getWebSites and what it was asked
    scroll      \* a client's scroll through a search

vars == <<rows, plain, scroll>>

NoScroll == [at |-> "none"]

Init ==
    /\ rows = <<>>
    /\ plain = [limit |-> Nil, ids |-> <<>>]
    /\ scroll = NoScroll

-----------------------------------------------------------------------------
\* The search.

Present(list) == list # Nil /\ list # {}

\* name LIKE '%words%', false for a null.
Like(i, words) == rows[i].name # Nil /\ words \in WordsIn[rows[i].name]

\* The ids matter only beside keywords.
KeywordsOrUids(i, req) ==
    req.keywords # Nil =>
        \/ Like(i, req.keywords)
        \/ Present(req.inUids) /\ i \in req.inUids

\* Only a range with both ends is one.
InRange(i, req) ==
    req.idStart # Nil /\ req.idEnd # Nil => req.idStart <= i /\ i <= req.idEnd

NotExcluded(i, req) == Present(req.notInIds) => i \notin req.notInIds

Matching(req) ==
    {i \in DOMAIN rows : KeywordsOrUids(i, req) /\ InRange(i, req) /\ NotExcluded(i, req)}

\* SQL orders a null before every value.
Place(v) == IF v = Nil THEN -1 ELSE v

\* order by name ascending, alexa descending
Before(i, j) ==
    \/ Place(rows[i].name) < Place(rows[j].name)
    \/ /\ rows[i].name = rows[j].name
       /\ Place(rows[i].alexa) > Place(rows[j].alexa)

\* Mutant of Orders: no order is asked for.
OrdersAny(ids) == SetToSeqs(ids)

\* Rows that tie come in whatever order the query finds them.
Orders(ids) ==
    {s \in SetToSeqs(ids) : \A a, b \in DOMAIN s : a < b => ~Before(s[b], s[a])}

\* Mutant of Offset: the row after it.
OffsetAfter(size, num) == IF num > 0 THEN num * size + 1 ELSE 0

\* Pages are counted from zero; the first has no offset.
Offset(size, num) == IF num > 0 /\ size # Nil /\ size > 0 THEN num * size ELSE 0

\* LIMIT and OFFSET.
Cut(s, limit, offset) ==
    SubSeq(s, offset + 1, IF limit = Nil \/ offset + limit > Len(s) THEN Len(s) ELSE offset + limit)

\* searchWebsites, when it does not fail: the answers it may give.
Searched(req, num) ==
    {Cut(s, req.pageSize, Offset(req.pageSize, num)) : s \in Orders(Matching(req))}

Tied(ids) == \E i, j \in ids : i # j /\ ~Before(i, j) /\ ~Before(j, i)

-----------------------------------------------------------------------------
Noted(grew, replaced) ==
    IF scroll.at = "none" THEN scroll
    ELSE [scroll EXCEPT !.grew = @ \/ grew, !.replaced = @ \/ replaced]

\* addWebSites of new sites: each is given an id.
AddWebSites(batch) ==
    /\ Len(rows) + Len(batch) <= MaxRows
    /\ rows' = rows \o batch
    /\ scroll' = Noted(TRUE, FALSE)
    /\ UNCHANGED plain

\* addWebSites of a site that was read before and changed: it replaces its row.
ReplaceWebSite(i, site) ==
    /\ rows[i] # site
    /\ rows' = [rows EXCEPT ![i] = site]
    /\ scroll' = Noted(FALSE, TRUE)
    /\ UNCHANGED plain

\* The limit is always the same.
LimitOf(limit) == 10

\* getWebSites: without an order, so by id; nothing when it fails.
GetWebSites(req) ==
    /\ \E ids \in {<<>>, Cut([i \in DOMAIN rows |-> i], LimitOf(req.limit), req.offset)} :
        plain' = [limit |-> req.limit, ids |-> ids]
    /\ UNCHANGED <<rows, scroll>>

\* A client asks for page after page until one is not full.
StartScroll(req) ==
    /\ scroll.at = "none"
    /\ scroll' = [at |-> "page", req |-> req, num |-> 0, shown |-> <<>>, start |-> Matching(req),
                  grew |-> FALSE, replaced |-> FALSE, tied |-> FALSE]
    /\ UNCHANGED <<rows, plain>>

\* A query that fails answers nil and is asked again.
LoadPage ==
    /\ scroll.at = "page"
    /\ \E page \in Searched(scroll.req, scroll.num) :
        scroll' = [scroll EXCEPT !.at = IF Len(page) < scroll.req.pageSize THEN "done" ELSE "page",
                                 !.num = @ + 1,
                                 !.shown = @ \o page,
                                 !.tied = @ \/ Tied(Matching(scroll.req))]
    /\ UNCHANGED <<rows, plain>>

Next ==
    \/ \E batch \in Batches :
        \/ AddWebSites(batch)
        \/ \E i \in DOMAIN rows : ReplaceWebSite(i, batch[1])
    \/ \E req \in PlainRequests : GetWebSites(req)
    \/ \E req \in Requests : StartScroll(req)
    \/ LoadPage

Spec == Init /\ [][Next]_vars

-----------------------------------------------------------------------------
Shown == Range(scroll.shown)

\* Sites added while a client scrolls only push rows to later pages: whoever scrolls to
\* the end has seen every row that matched when it began, unless rows that tie in the
\* order were passed, or a row was replaced.
NothingSkipped ==
    scroll.at = "done" /\ ~scroll.replaced /\ ~scroll.tied => scroll.start \subseteq Shown

\* On a table that does not change the pages, put together, are the search without
\* pages: those that match, all of them at the end, by name and rank, none twice.
PagesAreTheSearch ==
    scroll.at # "none" /\ ~scroll.grew /\ ~scroll.replaced /\ ~scroll.tied =>
        /\ Shown \subseteq scroll.start
        /\ scroll.at = "done" => Shown = scroll.start
        /\ \A a, b \in DOMAIN scroll.shown : a < b => Before(scroll.shown[a], scroll.shown[b])
=============================================================================
