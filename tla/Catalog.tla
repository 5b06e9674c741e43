------------------------------- MODULE Catalog -------------------------------
(***************************************************************************)
(* The campaign catalog: catalog/loader.rs builds it from Postgres at the  *)
(* start and then again every refresh_interval_secs, seeds the budget      *)
(* pacer and swaps it in; a request takes the current snapshot in          *)
(* UserEnrichmentStage and picks its candidates from it with               *)
(* candidates_for (catalog/campaign_catalog.rs) in CandidateRetrievalStage.*)
(*                                                                         *)
(* The queries of one build run concurrently, each on a connection of its  *)
(* own, so each sees the database at a moment of its own.  Campaigns are   *)
(* activated and paused meanwhile, and hours pass; the rows of a campaign  *)
(* stay.  The segment registry is built and swapped too, but nothing reads *)
(* it.  consecutive_failures only chooses what is logged.                  *)
(***************************************************************************)
EXTENDS Naturals

CONSTANTS
    Campaigns,
    Values,     \* segments, geo keys, devices, formats and hours alike
    Rows,       \* the rows a campaign may have in each table
    Requests,
    Asked,      \* the requests that come in: the values of each dimension
    MaxEdits,   \* bound: changes of status and hour
    Strict,     \* dimensions where a campaign without rows matches nothing
    Open        \* dimensions where it matches every request

Dimensions == Strict \cup Open
Tables == Dimensions \cup {"creative", "daypart"}
Queries == Tables \cup {"campaign"}

ASSUME RowsAssumption ==
    /\ Rows \subseteq [Tables -> SUBSET Values]
    /\ Asked \subseteq [Dimensions -> SUBSET Values]
    /\ MaxEdits \in Nat
    /\ Strict \subseteq {"segment", "geo"}
    /\ "format" \in Open /\ Open \subseteq {"device", "format"}

VARIABLES
    rows,       \* Postgres: the targeting, creative and daypart rows of a campaign
    active,     \* Postgres: the campaigns whose status is active
    hour,       \* the hour of the week
    pg,         \* Postgres answers
    edits,      \* changes so far
    phase,      \* where the refresh loop is
    got,        \* the answers this build has so far
    asof,       \* history: status and hour when this build began
    torn,       \* history: one of them has changed since
    catalog,    \* the shared snapshot
    budgeted,   \* the campaigns that have a counter in the pacer
    at, snap, ask, cands    \* the requests: place, snapshot, what it asks, candidates

database == <<rows, active, hour, pg, edits>>
loader == <<phase, got, asof>>
request == <<at, snap, ask, cands>>
vars == <<database, loader, torn, catalog, budgeted, request>>

NoAnswers == [q \in {} |-> {}]
NoAsk == [d \in Dimensions |-> {}]

-----------------------------------------------------------------------------
(* Building a catalog                                                      *)

Listed(t, v) == {c \in active : v \in rows[c][t]}

(* What Postgres answers to a query now.  All of them join on status.      *)
Answer(q) ==
    CASE q = "campaign" -> active
      [] q = "daypart" -> Listed("daypart", hour)
      [] OTHER -> [v \in Values |-> Listed(q, v)]

(* build: the indices as they were answered, and for device and format the *)
(* campaigns that are listed under no value.                               *)
Build(answers) ==
    [all |-> answers["campaign"],
     index |-> [t \in Tables \ {"daypart"} |-> answers[t]],
     unrestricted |-> [d \in Open |-> answers["campaign"] \ UNION {answers[d][v] : v \in Values}],
     daypart |-> answers["daypart"],
     asof |-> asof,
     torn |-> torn]

Init ==
    /\ rows \in [Campaigns -> Rows]
    /\ active \in SUBSET Campaigns /\ hour \in Values
    /\ pg = TRUE /\ edits = 0
    /\ phase = "sleep" /\ got = NoAnswers
    /\ asof = [active |-> active, hour |-> hour] /\ torn = FALSE
    /\ catalog = Build([q \in Queries |-> Answer(q)])
    /\ budgeted = active
    /\ at = [r \in Requests |-> "idle"]
    /\ snap = [r \in Requests |-> NoAnswers]
    /\ ask = [r \in Requests |-> NoAsk]
    /\ cands = [r \in Requests |-> {}]

-----------------------------------------------------------------------------
(* The refresh loop                                                        *)

BeginBuild ==
    /\ phase = "sleep"
    /\ phase' = "query"
    /\ asof' = [active |-> active, hour |-> hour]
    /\ torn' = FALSE
    /\ UNCHANGED <<database, got, catalog, budgeted, request>>

Query(q) ==
    /\ phase = "query" /\ pg /\ q \notin DOMAIN got
    /\ got' = [x \in DOMAIN got \cup {q} |-> IF x = q THEN Answer(q) ELSE got[x]]
    /\ UNCHANGED <<database, phase, asof, torn, catalog, budgeted, request>>

(* Mutant: the answers of a failed build are kept for the next one.        *)
QueryFailsKeeps ==
    /\ phase = "query" /\ ~pg /\ DOMAIN got # Queries
    /\ phase' = "sleep"
    /\ UNCHANGED <<database, got, asof, torn, catalog, budgeted, request>>

(* One query fails and with it the build; the old catalog stays.           *)
QueryFails ==
    /\ phase = "query" /\ ~pg /\ DOMAIN got # Queries
    /\ phase' = "sleep" /\ got' = NoAnswers
    /\ UNCHANGED <<database, asof, torn, catalog, budgeted, request>>

(* Mutant: a refresh updates the counters there are and adds none.         *)
ReloadKnown ==
    /\ phase = "query" /\ DOMAIN got = Queries
    /\ phase' = "store"
    /\ UNCHANGED <<database, got, asof, torn, catalog, budgeted, request>>

(* The pacer first: a counter for every campaign of the new catalog.  Old  *)
(* counters are never removed.                                             *)
Reload ==
    /\ phase = "query" /\ DOMAIN got = Queries
    /\ phase' = "store"
    /\ budgeted' = budgeted \cup Build(got).all
    /\ UNCHANGED <<database, got, asof, torn, catalog, request>>

(* Mutant: a catalog with the campaigns of the old one is not swapped in.  *)
StoreIfChanged ==
    /\ phase = "store"
    /\ phase' = "sleep" /\ got' = NoAnswers
    /\ catalog' = IF Build(got).all = catalog.all THEN catalog ELSE Build(got)
    /\ UNCHANGED <<database, asof, torn, budgeted, request>>

Store ==
    /\ phase = "store"
    /\ phase' = "sleep" /\ got' = NoAnswers
    /\ catalog' = Build(got)
    /\ UNCHANGED <<database, asof, torn, budgeted, request>>

-----------------------------------------------------------------------------
(* A request picks its candidates                                          *)

(* The campaigns that match one dimension of the request.                  *)
Eligible(cat, q, d) ==
    (UNION {cat.index[d][v] : v \in q[d]})
        \cup (IF d \in Open THEN cat.unrestricted[d] ELSE {})

(* candidates_for: a dimension the request does not have, and a daypart    *)
(* index without a campaign, filter nothing.                               *)
CandidatesFor(cat, q) ==
    LET filters == {Eligible(cat, q, d) : d \in {x \in Dimensions : q[x] # {}}}
                       \cup (IF cat.daypart = {} THEN {} ELSE {cat.daypart})
    IN  CASE cat.all = {} -> {}
          [] filters = {} -> cat.all
          [] OTHER -> {c \in UNION filters : \A f \in filters : c \in f}

(* The stage keeps the campaigns it can look up and has a creative for.    *)
Candidates(cat, q) ==
    {c \in CandidatesFor(cat, q) \cap cat.all :
        \E f \in Values : /\ c \in cat.index["creative"][f]
                          /\ q["format"] # {} => f \in q["format"]}

Enrich(r) ==
    /\ at[r] = "idle"
    /\ at' = [at EXCEPT ![r] = "retrieve"]
    /\ snap' = [snap EXCEPT ![r] = catalog]
    /\ UNCHANGED <<database, loader, torn, catalog, budgeted, ask, cands>>

Retrieve(r) ==
    /\ at[r] = "retrieve"
    /\ at' = [at EXCEPT ![r] = "pace"]
    /\ \E q \in Asked :
          /\ ask' = [ask EXCEPT ![r] = q]
          /\ cands' = [cands EXCEPT ![r] = Candidates(snap[r], q)]
    /\ snap' = [snap EXCEPT ![r] = NoAnswers]
    /\ UNCHANGED <<database, loader, torn, catalog, budgeted>>

(* The rest of the pipeline, which asks the pacer about every candidate    *)
(* (BidPipeline), and the end of the request.                              *)
Finish(r) ==
    /\ at[r] = "pace"
    /\ at' = [at EXCEPT ![r] = "idle"]
    /\ ask' = [ask EXCEPT ![r] = NoAsk]
    /\ cands' = [cands EXCEPT ![r] = {}]
    /\ UNCHANGED <<database, loader, torn, catalog, budgeted, snap>>

-----------------------------------------------------------------------------
(* The database                                                            *)

SetStatus(c) ==
    /\ edits < MaxEdits
    /\ edits' = edits + 1
    /\ active' = IF c \in active THEN active \ {c} ELSE active \cup {c}
    /\ torn' = TRUE
    /\ UNCHANGED <<rows, hour, pg, loader, catalog, budgeted, request>>

HourPasses ==
    /\ edits < MaxEdits
    /\ edits' = edits + 1
    /\ hour' \in Values \ {hour}
    /\ torn' = TRUE
    /\ UNCHANGED <<rows, active, pg, loader, catalog, budgeted, request>>

PostgresChanges ==
    /\ pg' = ~pg
    /\ UNCHANGED <<rows, active, hour, edits, loader, torn, catalog, budgeted, request>>

-----------------------------------------------------------------------------
Refresh == BeginBuild \/ QueryFails \/ Reload \/ Store \/ \E q \in Queries : Query(q)

Next ==
    \/ Refresh
    \/ \E r \in Requests : Enrich(r) \/ Retrieve(r) \/ Finish(r)
    \/ \E c \in Campaigns : SetStatus(c)
    \/ HourPasses
    \/ PostgresChanges

Spec == Init /\ [][Next]_vars

(* The loop's timer fires and its queries return; requests run and finish. *)
Fairness ==
    /\ WF_vars(Refresh)
    /\ \A r \in Requests : WF_vars(Enrich(r) \/ Retrieve(r) \/ Finish(r))

FairSpec == Spec /\ Fairness

-----------------------------------------------------------------------------
(* Properties                                                              *)

(* The snapshots that can still be read: the shared one and those of       *)
(* requests that have not picked their candidates.                         *)
Live == {catalog} \cup {snap[r] : r \in {x \in Requests : at[x] = "retrieve"}}

(* Every variable stays in its type; a snapshot's unrestricted campaigns   *)
(* are campaigns of that snapshot.                                         *)
TypeOK ==
    /\ rows \in [Campaigns -> Rows]
    /\ active \subseteq Campaigns /\ hour \in Values
    /\ pg \in BOOLEAN /\ torn \in BOOLEAN /\ edits \in 0..MaxEdits
    /\ phase \in {"sleep", "query", "store"}
    /\ DOMAIN got \subseteq Queries
    /\ \A s \in Live :
          /\ s.all \cup s.daypart \subseteq Campaigns
          /\ \A d \in Open : s.unrestricted[d] \subseteq s.all
    /\ budgeted \subseteq Campaigns
    /\ at \in [Requests -> {"idle", "retrieve", "pace"}]
    /\ ask \in [Requests -> Asked \cup {NoAsk}]
    /\ cands \in [Requests -> SUBSET Campaigns]

(* The pacer is reloaded before the catalog is swapped and keeps the       *)
(* counters of campaigns that are gone, so that whichever snapshot a       *)
(* request holds, check_and_reserve finds a counter for each candidate     *)
(* ("no budget entry for campaign" is never logged).                       *)
CandidatesBudgeted == \A r \in Requests : cands[r] \subseteq budgeted

(* What the rows mean to whoever writes them, a campaign at a time: an     *)
(* active campaign with a creative for the format, that targets the        *)
(* request in each dimension or has no row in it, and is in its hours if   *)
(* any active campaign is.  docker/seed-postgres.py says so of segments    *)
(* ("running on any audience") and of geo ("no rows = serve everywhere").  *)
Meant(act, h, q) ==
    {c \in act :
        /\ rows[c]["creative"] # {}
        /\ q["format"] # {} => rows[c]["creative"] \cap q["format"] # {}
        /\ \A d \in Dimensions : q[d] # {} => rows[c][d] \cap q[d] # {} \/ rows[c][d] = {}
        /\ (\E x \in act : h \in rows[x]["daypart"]) => h \in rows[c]["daypart"]}

(* Where the code departs from that: build keeps no bitmap of the          *)
(* campaigns without a segment or a geo row, so a request that names       *)
(* segments or a place never finds them.                                   *)
Overlooked(act, q) == {c \in act : \E d \in Strict : q[d] # {} /\ rows[c][d] = {}}

Offered(act, h, q) == Meant(act, h, q) \ Overlooked(act, q)

(* build's inverted indices and candidates_for's intersections offer a     *)
(* request what the rows mean but for the campaigns they overlook, no      *)
(* other and no less, whenever the database did not change while the eight *)
(* queries ran: for every request, from the shared snapshot and from one   *)
(* it took before later refreshes swapped the catalog.                     *)
SnapshotIsExact ==
    \A s \in Live : ~s.torn =>
        \A q \in Asked : Candidates(s, q) = Offered(s.asof.active, s.asof.hour, q)

(* "Old catalog stays live" only while refreshes fail: once Postgres is    *)
(* back and its campaigns and the hour rest, a catalog torn between two    *)
(* states of the database is replaced, and requests are offered what its   *)
(* rows mean, less the campaigns that candidates_for overlooks.            *)
CatalogConverges ==
    <>[]pg /\ <>[][active' = active /\ hour' = hour]_vars =>
        <>[](\A r \in Requests :
                at[r] = "pace" => cands[r] = Offered(active, hour, ask[r]))

=============================================================================
