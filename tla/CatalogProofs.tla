--------------------------- MODULE CatalogProofs ---------------------------
(***************************************************************************)
(* Whatever snapshot a request holds, the pacer knows its candidates: for  *)
(* any campaigns, rows, requests and dimensions, however refreshes, failed *)
(* queries and changes of the database interleave with the requests.       *)
(*                                                                         *)
(* A catalog built while the database stood still is exact: the answers of *)
(* an undisturbed build are those of one state of the database (BuildFresh)*)
(* and what the indices compute from such answers is what a look at each   *)
(* campaign's rows computes (BuildIsExact, ExactOffers).                   *)
(***************************************************************************)
EXTENDS Catalog, TLAPS

WellFormed(s) ==
    /\ s.all \cup s.daypart \subseteq Campaigns
    /\ \A d \in Open : s.unrestricted[d] \subseteq s.all

(* The answers a build has so far, whole once it goes on to the pacer.     *)
AnswersOK ==
    /\ DOMAIN got \subseteq Queries
    /\ \A q \in {"campaign", "daypart"} : q \in DOMAIN got => got[q] \subseteq Campaigns
    /\ phase = "store" => DOMAIN got = Queries

(* refresh_loop reloads the pacer before it stores the catalog, so a       *)
(* campaign has its counter before the first snapshot that names it.       *)
Budgeted ==
    /\ \A s \in Live : s.all \subseteq budgeted
    /\ phase = "store" => got["campaign"] \subseteq budgeted

IsMap(f) == f = [r \in Requests |-> f[r]]

Inv == TypeOK /\ IsMap(snap) /\ AnswersOK /\ Budgeted /\ CandidatesBudgeted

(* What a build makes of well-formed answers.                              *)
LEMMA BuildOK ==
    ASSUME NEW answers,
           answers["campaign"] \subseteq Campaigns, answers["daypart"] \subseteq Campaigns
    PROVE  /\ WellFormed(Build(answers))
           /\ Build(answers).all = answers["campaign"]
  BY DEF Build, WellFormed

(* The queries that list campaigns name active ones.                       *)
LEMMA AnswerOK ==
    ASSUME active \subseteq Campaigns
    PROVE  Answer("campaign") = active /\ Answer("daypart") \subseteq active
  BY DEF Answer, Listed

(* candidates_for and the stage pick from the snapshot's campaigns.        *)
LEMMA CandidatesKnown == ASSUME NEW s, NEW q PROVE Candidates(s, q) \subseteq s.all
  BY DEF Candidates

(* Both are among the queries of a build.                                  *)
LEMMA QueriesNamed == "campaign" \in Queries /\ "daypart" \in Queries
  BY DEF Queries, Tables

(* The snapshots that can be read are well formed.                         *)
LEMMA LiveTyped == TypeOK => \A s \in Live : WellFormed(s)
  BY DEF TypeOK, Live, WellFormed

-----------------------------------------------------------------------------
(* The first build runs before anything else.                              *)
LEMMA InitInv == Init => Inv
<1> SUFFICES ASSUME Init PROVE Inv
  OBVIOUS
<1> DEFINE a == [q \in Queries |-> Answer(q)]
<1>1. active \subseteq Campaigns
  BY DEF Init
<1>2. a["campaign"] = active /\ a["daypart"] \subseteq Campaigns
  BY <1>1, AnswerOK, QueriesNamed
<1>3. catalog = Build(a)
  BY DEF Init
<1>4. WellFormed(catalog) /\ catalog.all = active
  <2> HIDE DEF a
  <2>1. QED BY <1>1, <1>2, <1>3, BuildOK
<1>5. Live = {catalog}
  BY DEF Init, Live
<1>6. TypeOK
  <2>1. \A s \in Live : WellFormed(s)
    BY <1>4, <1>5
  <2>2. /\ rows \in [Campaigns -> Rows] /\ hour \in Values
        /\ pg \in BOOLEAN /\ torn \in BOOLEAN
        /\ phase \in {"sleep", "query", "store"}
        /\ budgeted \subseteq Campaigns
    BY <1>1 DEF Init
  <2>3. edits \in 0..MaxEdits
    BY RowsAssumption DEF RowsAssumption, Init
  <2>4. DOMAIN got \subseteq Queries
    BY DEF Init, NoAnswers
  <2>5. /\ at \in [Requests -> {"idle", "retrieve", "pace"}]
        /\ ask \in [Requests -> Asked \cup {NoAsk}]
        /\ cands \in [Requests -> SUBSET Campaigns]
    BY DEF Init
  <2>6. QED BY <1>1, <2>1, <2>2, <2>3, <2>4, <2>5 DEF TypeOK, Live, WellFormed
<1>7. IsMap(snap) /\ AnswersOK
  BY DEF Init, IsMap, AnswersOK, NoAnswers
<1>8. Budgeted /\ CandidatesBudgeted
  BY <1>4, <1>5 DEF Init, Budgeted, CandidatesBudgeted
<1>9. QED BY <1>6, <1>7, <1>8 DEF Inv

(* A step that leaves the snapshots, the pacer and the requests alone      *)
(* keeps all that is said of them.                                         *)
LEMMA RequestsKept ==
    ASSUME Inv, UNCHANGED <<catalog, budgeted, request>>
    PROVE  /\ Live' = Live /\ (IsMap(snap) /\ CandidatesBudgeted)'
           /\ (\A s \in Live : WellFormed(s) /\ s.all \subseteq budgeted)'
  BY LiveTyped DEF Inv, Live, request, IsMap, CandidatesBudgeted, Budgeted

(* The type invariant, a part at a time.                                   *)
DatabaseTyped ==
    /\ rows \in [Campaigns -> Rows]
    /\ active \subseteq Campaigns /\ hour \in Values
    /\ pg \in BOOLEAN /\ edits \in 0..MaxEdits

RequestsTyped ==
    /\ at \in [Requests -> {"idle", "retrieve", "pace"}]
    /\ ask \in [Requests -> Asked \cup {NoAsk}]
    /\ cands \in [Requests -> SUBSET Campaigns]

(* The parts follow from the whole,                                        *)
LEMMA TypeParts == TypeOK => DatabaseTyped /\ RequestsTyped
  BY DEF TypeOK, DatabaseTyped, RequestsTyped

(* and, after a step, the whole from the parts.                            *)
LEMMA TypeJoin ==
    ASSUME DatabaseTyped', RequestsTyped', torn' \in BOOLEAN,
           phase' \in {"sleep", "query", "store"}, AnswersOK',
           budgeted' \subseteq Campaigns, (\A s \in Live : WellFormed(s))'
    PROVE  TypeOK'
  BY DEF TypeOK, DatabaseTyped, RequestsTyped, AnswersOK, Live, WellFormed

(* The database keeps its type while it is left alone,                     *)
LEMMA DatabaseKept == ASSUME TypeOK, UNCHANGED database PROVE DatabaseTyped'
  BY TypeParts DEF DatabaseTyped, database

(* and so do the requests.                                                 *)
LEMMA RequestsTypeKept == ASSUME TypeOK, UNCHANGED request PROVE RequestsTyped'
  BY TypeParts DEF RequestsTyped, request

-----------------------------------------------------------------------------
(* The steps of the refresh loop                                           *)

(* A refresh seeds the pacer, then swaps, or leaves both as they are.      *)
LEMMA RefreshStep == ASSUME Inv, Refresh PROVE Inv'
<1>t. /\ TypeOK /\ torn \in BOOLEAN /\ phase \in {"sleep", "query", "store"}
      /\ AnswersOK /\ Budgeted /\ IsMap(snap) /\ CandidatesBudgeted
      /\ active \subseteq Campaigns /\ budgeted \subseteq Campaigns
  BY DEF Inv, TypeOK
<1>1. ASSUME BeginBuild \/ QueryFails PROVE Inv'
  <2>1. UNCHANGED <<catalog, budgeted, request>>
    BY <1>1 DEF BeginBuild, QueryFails
  <2>2. /\ got' = got \/ got' = NoAnswers
        /\ phase' \in {"sleep", "query"}
        /\ torn' \in {torn, FALSE} /\ UNCHANGED database
    BY <1>1 DEF BeginBuild, QueryFails
  <2>3. AnswersOK'
    BY <1>t, <2>2 DEF AnswersOK, NoAnswers
  <2>4. Budgeted'
    BY <2>1, <2>2, RequestsKept DEF Budgeted
  <2>5. torn' \in BOOLEAN
    BY <1>t, <2>2 DEF TypeOK
  <2>6. TypeOK'
    BY <1>t, <2>1, <2>2, <2>3, <2>5, RequestsKept, DatabaseKept, RequestsTypeKept, TypeJoin
  <2>7. QED BY <2>1, <2>3, <2>4, <2>6, RequestsKept DEF Inv
<1>2. ASSUME NEW q \in Queries, Query(q) PROVE Inv'
  <2>1. /\ UNCHANGED <<database, phase, torn, catalog, budgeted, request>>
        /\ phase = "query"
        /\ got' = [x \in DOMAIN got \cup {q} |-> IF x = q THEN Answer(q) ELSE got[x]]
    BY <1>2 DEF Query
  <2>2. Answer("campaign") \subseteq Campaigns /\ Answer("daypart") \subseteq Campaigns
    BY <1>t, AnswerOK
  <2>3. AnswersOK'
    BY <1>t, <2>1, <2>2 DEF AnswersOK
  <2>4. Budgeted'
    BY <2>1, RequestsKept DEF Budgeted
  <2>5. TypeOK'
    BY <1>t, <2>1, <2>3, RequestsKept, DatabaseKept, RequestsTypeKept, TypeJoin
  <2>6. QED BY <2>1, <2>3, <2>4, <2>5, RequestsKept DEF Inv
<1>3. ASSUME Reload PROVE Inv'
  <2>1. /\ UNCHANGED <<database, got, asof, torn, catalog, request>>
        /\ phase' = "store" /\ DOMAIN got = Queries
        /\ budgeted' = budgeted \cup Build(got).all
    BY <1>3 DEF Reload
  <2>2. got["campaign"] \subseteq Campaigns /\ got["daypart"] \subseteq Campaigns
    BY <1>t, <2>1, QueriesNamed DEF AnswersOK
  <2>3. budgeted' = budgeted \cup got["campaign"]
    BY <2>1, <2>2, BuildOK
  <2>4. Live' = Live /\ IsMap(snap)'
    BY <1>t, <2>1 DEF Live, IsMap, request
  <2>5. AnswersOK'
    BY <1>t, <2>1 DEF AnswersOK
  <2>6. Budgeted'
    BY <1>t, <2>1, <2>3, <2>4 DEF Budgeted
  <2>7. CandidatesBudgeted'
    BY <1>t, <2>1, <2>3 DEF CandidatesBudgeted, request
  <2>8. (\A s \in Live : WellFormed(s))'
    BY <1>t, <2>4, LiveTyped DEF WellFormed
  <2>9. TypeOK'
    BY <1>t, <2>1, <2>2, <2>3, <2>5, <2>8, DatabaseKept, RequestsTypeKept, TypeJoin
  <2>10. QED BY <2>4, <2>5, <2>6, <2>7, <2>9 DEF Inv
<1>4. ASSUME Store PROVE Inv'
  <2>1. /\ UNCHANGED <<database, asof, torn, budgeted, request>>
        /\ phase = "store" /\ phase' = "sleep" /\ got' = NoAnswers
        /\ catalog' = Build(got)
    BY <1>4 DEF Store
  <2>2. /\ got["campaign"] \subseteq Campaigns /\ got["daypart"] \subseteq Campaigns
        /\ got["campaign"] \subseteq budgeted
    BY <1>t, <2>1, QueriesNamed DEF AnswersOK, Budgeted
  <2>3. WellFormed(Build(got)) /\ Build(got).all \subseteq budgeted
    BY <2>2, BuildOK
  <2>4. WellFormed(catalog') /\ catalog'.all \subseteq budgeted
    BY <2>1, <2>3
  <2>5. \A s \in Live' : s = catalog' \/ s \in Live
    BY <2>1 DEF Live, request
  <2>6. \A s \in Live' : WellFormed(s) /\ s.all \subseteq budgeted'
    BY <1>t, <2>1, <2>4, <2>5, LiveTyped DEF Budgeted
  <2>7. AnswersOK'
    BY <2>1 DEF AnswersOK, NoAnswers
  <2>8. Budgeted'
    BY <2>1, <2>6 DEF Budgeted
  <2>9. IsMap(snap)' /\ CandidatesBudgeted'
    BY <1>t, <2>1 DEF IsMap, CandidatesBudgeted, request
  <2>10. (\A s \in Live : WellFormed(s))'
    BY <2>6 DEF WellFormed
  <2>11. TypeOK'
    BY <1>t, <2>1, <2>7, <2>10, DatabaseKept, RequestsTypeKept, TypeJoin
  <2>12. QED BY <2>7, <2>8, <2>9, <2>11 DEF Inv
<1>5. QED BY <1>1, <1>2, <1>3, <1>4 DEF Refresh

-----------------------------------------------------------------------------
(* The steps of a request                                                  *)

(* A request reads no snapshot but the ones that are live.                 *)
LEMMA NoNewSnapshot ==
    ASSUME Inv, NEW r \in Requests, Enrich(r) \/ Retrieve(r) \/ Finish(r)
    PROVE  Live' \subseteq Live
<1>t. IsMap(snap) /\ RequestsTyped
  BY TypeParts DEF Inv
<1>u. catalog' = catalog
  BY DEF Enrich, Retrieve, Finish
<1>1. CASE Enrich(r)
  <2>1. snap' = [snap EXCEPT ![r] = catalog] /\ at' = [at EXCEPT ![r] = "retrieve"]
    BY <1>1 DEF Enrich
  <2>2. \A x \in Requests : at'[x] = "retrieve" =>
            snap'[x] = catalog \/ (at[x] = "retrieve" /\ snap'[x] = snap[x])
    BY <1>t, <2>1 DEF IsMap, RequestsTyped
  <2>3. QED BY <1>u, <2>2 DEF Live
<1>2. CASE Retrieve(r) \/ Finish(r)
  <2>1. /\ snap' = [snap EXCEPT ![r] = NoAnswers] \/ snap' = snap
        /\ \E p \in {"pace", "idle"} : at' = [at EXCEPT ![r] = p]
    BY <1>2 DEF Retrieve, Finish
  <2>2. \A x \in Requests : at'[x] = "retrieve" => at[x] = "retrieve" /\ snap'[x] = snap[x]
    BY <1>t, <2>1 DEF IsMap, RequestsTyped
  <2>3. QED BY <1>u, <2>2 DEF Live
<1>3. QED BY <1>1, <1>2

(* A request takes a live snapshot and candidates that it knows.           *)
LEMMA RequestStep ==
    ASSUME Inv, NEW r \in Requests, Enrich(r) \/ Retrieve(r) \/ Finish(r)
    PROVE  Inv'
<1>t. /\ TypeOK /\ torn \in BOOLEAN /\ phase \in {"sleep", "query", "store"}
      /\ AnswersOK /\ Budgeted /\ IsMap(snap) /\ CandidatesBudgeted
      /\ RequestsTyped /\ budgeted \subseteq Campaigns
  BY TypeParts DEF Inv, TypeOK
<1>u. UNCHANGED <<database, loader, torn, catalog, budgeted>>
  BY DEF Enrich, Retrieve, Finish
<1>a. AnswersOK'
  BY <1>t, <1>u DEF AnswersOK, loader
<1>c. catalog \in Live /\ \A s \in Live : WellFormed(s) /\ s.all \subseteq budgeted
  BY <1>t, LiveTyped DEF Live, Budgeted
<1>1. \A s \in Live' : s \in Live
  BY NoNewSnapshot
<1>2. Budgeted' /\ (\A s \in Live : WellFormed(s))'
  BY <1>t, <1>u, <1>c, <1>1 DEF Budgeted, loader, WellFormed
<1>3. IsMap(snap)'
  BY <1>t DEF Enrich, Retrieve, Finish, IsMap
<1>4. RequestsTyped' /\ CandidatesBudgeted'
  <2>1. CASE Enrich(r)
    BY <1>t, <2>1 DEF Enrich, RequestsTyped, CandidatesBudgeted
  <2>2. CASE Retrieve(r)
    <3>1. PICK q \in Asked : /\ ask' = [ask EXCEPT ![r] = q]
                             /\ cands' = [cands EXCEPT ![r] = Candidates(snap[r], q)]
      BY <2>2 DEF Retrieve
    <3>2. snap[r] \in Live
      BY <2>2 DEF Retrieve, Live
    <3>3. Candidates(snap[r], q) \subseteq budgeted
      BY <1>c, <3>2, CandidatesKnown
    <3>4. RequestsTyped'
      BY <1>t, <2>2, <3>1, <3>3 DEF Retrieve, RequestsTyped
    <3>5. CandidatesBudgeted'
      BY <1>t, <1>u, <3>1, <3>3 DEF RequestsTyped, CandidatesBudgeted
    <3>6. QED BY <3>4, <3>5
  <2>3. CASE Finish(r)
    BY <1>t, <2>3 DEF Finish, RequestsTyped, CandidatesBudgeted
  <2>4. QED BY <2>1, <2>2, <2>3
<1>5. TypeOK'
  BY <1>t, <1>u, <1>a, <1>2, <1>4, DatabaseKept, TypeJoin DEF loader
<1>6. QED BY <1>a, <1>2, <1>3, <1>4, <1>5 DEF Inv

(* Changes of the database reach a catalog only through a query.           *)
LEMMA DatabaseStep ==
    ASSUME Inv, \/ \E c \in Campaigns : SetStatus(c)
                \/ HourPasses
                \/ PostgresChanges
    PROVE  Inv'
<1>t. /\ TypeOK /\ torn \in BOOLEAN /\ phase \in {"sleep", "query", "store"}
      /\ AnswersOK /\ Budgeted /\ DatabaseTyped /\ budgeted \subseteq Campaigns
      /\ MaxEdits \in Nat
  BY TypeParts, RowsAssumption DEF Inv, TypeOK, RowsAssumption
<1>u. UNCHANGED <<loader, catalog, budgeted, request>> /\ torn' \in {torn, TRUE}
  BY DEF SetStatus, HourPasses, PostgresChanges
<1>1. DatabaseTyped'
  <2>1. rows' = rows /\ active' \subseteq Campaigns /\ hour' \in Values
    BY <1>t DEF SetStatus, HourPasses, PostgresChanges, DatabaseTyped
  <2>2. pg' \in BOOLEAN
    BY <1>t DEF SetStatus, HourPasses, PostgresChanges, DatabaseTyped
  <2>3. edits' = edits \/ (edits < MaxEdits /\ edits' = edits + 1)
    BY DEF SetStatus, HourPasses, PostgresChanges
  <2>4. edits' \in 0..MaxEdits
    BY <1>t, <2>3 DEF DatabaseTyped
  <2>5. QED BY <1>t, <2>1, <2>2, <2>4 DEF DatabaseTyped
<1>2. AnswersOK'
  BY <1>t, <1>u DEF AnswersOK, loader
<1>3. Budgeted'
  BY <1>t, <1>u, RequestsKept DEF Budgeted, loader
<1>4. torn' \in BOOLEAN
  BY <1>t, <1>u
<1>5. TypeOK'
  BY <1>t, <1>u, <1>1, <1>2, <1>4, RequestsKept, RequestsTypeKept, TypeJoin DEF loader
<1>6. QED BY <1>u, <1>2, <1>3, <1>5, RequestsKept DEF Inv

(* Nothing changes when nothing happens.                                   *)
LEMMA StutterStep == ASSUME Inv, UNCHANGED vars PROVE Inv'
  BY DEF vars, database, loader, request, Inv, TypeOK, IsMap, AnswersOK, Budgeted, Live,
         CandidatesBudgeted

(* The invariant holds in every reachable state.                           *)
LEMMA Inductive == Spec => []Inv
<1>1. Inv /\ [Next]_vars => Inv'
  BY RefreshStep, RequestStep, DatabaseStep, StutterStep DEF Next
<1>2. QED BY InitInv, <1>1, PTL DEF Spec

-----------------------------------------------------------------------------
(* The catalog, the loader and the requests of catalog/loader.rs keep      *)
(* their types, and no snapshot has an unrestricted campaign it does not   *)
(* know.                                                                   *)
THEOREM CatalogTypeCorrect == Spec => []TypeOK
<1>1. Inv => TypeOK
  BY DEF Inv
<1>2. QED BY Inductive, <1>1, PTL

(* refresh_loop seeds the pacer before it swaps the catalog: whichever     *)
(* snapshot a request holds, check_and_reserve finds a counter for each of *)
(* its candidates.                                                         *)
THEOREM CandidatesHaveCounters == Spec => []CandidatesBudgeted
<1>1. Inv => CandidatesBudgeted
  BY DEF Inv
<1>2. QED BY Inductive, <1>1, PTL

-----------------------------------------------------------------------------
(* A snapshot that is not torn offers what the database says               *)

(* The campaigns of act with a row for v in table t.                       *)
ListedIn(act, t, v) == {c \in act : v \in rows[c][t]}

(* The snapshot holds the database as it was at s.asof.                    *)
Exact(s) ==
    LET act == s.asof.active
    IN  /\ act \subseteq Campaigns /\ s.asof.hour \in Values
        /\ s.all = act
        /\ s.daypart = ListedIn(act, "daypart", s.asof.hour)
        /\ \A t \in Tables \ {"daypart"} : \A v \in Values :
              s.index[t][v] = ListedIn(act, t, v)
        /\ \A d \in Open : s.unrestricted[d] = {c \in act : rows[c][d] = {}}

(* A build starts with no answers; while nothing has changed since it      *)
(* began, each answer it has is the one Postgres would give now.           *)
BuildFresh ==
    /\ phase = "sleep" => got = NoAnswers
    /\ phase # "sleep" /\ ~torn =>
          /\ asof = [active |-> active, hour |-> hour]
          /\ \A q \in DOMAIN got : got[q] = Answer(q)

(* So is every snapshot that can still be read, however many refreshes and *)
(* changes of the database have come since it was built.                   *)
SnapshotsExact == \A s \in Live : ~s.torn => Exact(s)

ExactInv == Inv /\ BuildFresh /\ SnapshotsExact

(* The names of the tables, and what is in a row.                          *)
LEMMA TableFacts ==
    /\ "creative" \in Tables \ {"daypart"} /\ "daypart" \in Tables
    /\ "format" \in Dimensions
    /\ \A d \in Dimensions : d \in Tables \ {"daypart"}
    /\ \A d \in Open : d \in Dimensions
    /\ \A t \in Tables \ {"daypart"} : t \in Queries /\ t # "campaign"
  BY RowsAssumption DEF Tables, Dimensions, Queries

(* A campaign's rows are sets of values.                                   *)
LEMMA RowFacts ==
    ASSUME rows \in [Campaigns -> Rows], NEW c \in Campaigns, NEW t \in Tables
    PROVE  rows[c][t] \subseteq Values
<1>1. rows[c] \in [Tables -> SUBSET Values]
  BY RowsAssumption
<1>2. QED BY <1>1

(* What build makes of the answers Postgres gives at one moment is the     *)
(* database of that moment.                                                *)
LEMMA BuildIsExact ==
    ASSUME rows \in [Campaigns -> Rows], active \subseteq Campaigns, hour \in Values,
           NEW answers, \A q \in Queries : answers[q] = Answer(q),
           asof = [active |-> active, hour |-> hour]
    PROVE  Exact(Build(answers))
<1> DEFINE s == Build(answers)
<1>1. s.asof.active = active /\ s.asof.hour = hour
  BY DEF Build
<1>2. s.all = active
  BY QueriesNamed DEF Build, Answer
<1>3. s.daypart = ListedIn(active, "daypart", hour)
  BY QueriesNamed DEF Build, Answer, Listed, ListedIn
<1>4. ASSUME NEW t \in Tables \ {"daypart"}, NEW v \in Values
      PROVE  answers[t][v] = ListedIn(active, t, v)
  <2>1. t \in Queries /\ t # "campaign" /\ t # "daypart"
    BY TableFacts
  <2>2. answers[t] = [x \in Values |-> Listed(t, x)]
    BY <2>1 DEF Answer
  <2>3. QED BY <2>2 DEF Listed, ListedIn
<1>5. ASSUME NEW t \in Tables \ {"daypart"}, NEW v \in Values
      PROVE  s.index[t][v] = ListedIn(active, t, v)
  BY <1>4 DEF Build
<1>6. ASSUME NEW d \in Open
      PROVE  s.unrestricted[d] = {c \in active : rows[c][d] = {}}
  <2>1. s.unrestricted[d] = active \ UNION {answers[d][v] : v \in Values}
    BY QueriesNamed DEF Build, Answer
  <2>2. d \in Tables \ {"daypart"}
    BY TableFacts
  <2>3. \A c \in active : (\E v \in Values : c \in answers[d][v]) <=> rows[c][d] # {}
    <3> SUFFICES ASSUME NEW c \in active
                 PROVE  (\E v \in Values : c \in answers[d][v]) <=> rows[c][d] # {}
      OBVIOUS
    <3>1. rows[c][d] \subseteq Values
      BY <2>2, RowFacts
    <3>2. \A v \in Values : c \in answers[d][v] <=> v \in rows[c][d]
      BY <1>4, <2>2 DEF ListedIn
    <3>3. QED BY <3>1, <3>2
  <2>4. QED BY <2>1, <2>3
<1>7. QED
  <2> HIDE DEF s
  <2>1. Exact(s)
    BY <1>1, <1>2, <1>3, <1>5, <1>6 DEF Exact
  <2>2. QED BY <2>1 DEF s

(* candidates_for and the creative check pick from an exact snapshot just  *)
(* the campaigns the database offers: the intersection of the indices is   *)
(* the conjunction of what each campaign targets.                          *)
LEMMA ExactOffers ==
    ASSUME rows \in [Campaigns -> Rows], NEW s, Exact(s), NEW q \in Asked
    PROVE  Candidates(s, q) = Offered(s.asof.active, s.asof.hour, q)
<1> DEFINE act == s.asof.active
           h == s.asof.hour
           Targets(c, d) == rows[c][d] \cap q[d] # {} \/ (d \in Open /\ rows[c][d] = {})
           InHours(c) == (\E x \in act : h \in rows[x]["daypart"]) => h \in rows[c]["daypart"]
<1>1. q \in [Dimensions -> SUBSET Values]
  BY RowsAssumption
<1>2. /\ act \subseteq Campaigns /\ s.all = act
      /\ s.daypart = ListedIn(act, "daypart", h)
      /\ \A t \in Tables \ {"daypart"} : \A v \in Values : s.index[t][v] = ListedIn(act, t, v)
      /\ \A d \in Open : s.unrestricted[d] = {c \in act : rows[c][d] = {}}
  BY DEF Exact
<1>3. ASSUME NEW c \in act, NEW d \in Dimensions
      PROVE  c \in Eligible(s, q, d) <=> Targets(c, d)
  <2>1. \A v \in q[d] : s.index[d][v] = ListedIn(act, d, v)
    BY <1>1, <1>2, TableFacts
  <2>2. c \in UNION {s.index[d][v] : v \in q[d]} <=> rows[c][d] \cap q[d] # {}
    BY <2>1 DEF ListedIn
  <2>3. d \in Open => (c \in s.unrestricted[d] <=> rows[c][d] = {})
    BY <1>2
  <2>4. QED BY <2>2, <2>3 DEF Eligible
<1>4. ASSUME NEW c \in act
      PROVE  (s.daypart = {} \/ c \in s.daypart) <=> InHours(c)
  BY <1>2 DEF ListedIn
<1>5. ASSUME NEW c \in act
      PROVE  c \in CandidatesFor(s, q) <=>
                /\ \A d \in Dimensions : q[d] # {} => c \in Eligible(s, q, d)
                /\ s.daypart = {} \/ c \in s.daypart
  <2> DEFINE known == {Eligible(s, q, d) : d \in {x \in Dimensions : q[x] # {}}}
             filters == known \cup (IF s.daypart = {} THEN {} ELSE {s.daypart})
  <2>1. (\A f \in filters : c \in f) <=>
            /\ \A d \in Dimensions : q[d] # {} => c \in Eligible(s, q, d)
            /\ s.daypart = {} \/ c \in s.daypart
    OBVIOUS
  <2>2. CandidatesFor(s, q) =
            CASE s.all = {} -> {}
              [] filters = {} -> s.all
              [] OTHER -> {x \in UNION filters : \A f \in filters : x \in f}
    BY DEF CandidatesFor
  <2>3. c \in CandidatesFor(s, q) <=> \A f \in filters : c \in f
    <3> HIDE DEF filters
    <3>1. CASE filters = {}
      BY <1>2, <2>2, <3>1
    <3>2. CASE filters # {}
      BY <1>2, <2>2, <3>2
    <3>3. QED BY <3>1, <3>2
  <2>4. QED BY <2>1, <2>3
<1>6. ASSUME NEW c \in act
      PROVE  (\E f \in Values : /\ c \in s.index["creative"][f]
                                /\ q["format"] # {} => f \in q["format"])
             <=> /\ rows[c]["creative"] # {}
                 /\ q["format"] # {} => rows[c]["creative"] \cap q["format"] # {}
  <2>1. rows[c]["creative"] \subseteq Values
    BY <1>2, TableFacts, RowFacts
  <2>2. \A f \in Values : c \in s.index["creative"][f] <=> f \in rows[c]["creative"]
    BY <1>2, TableFacts DEF ListedIn
  <2>3. QED BY <2>1, <2>2
<1>7. \A c \in act : c \in Offered(act, h, q) <=>
          /\ rows[c]["creative"] # {}
          /\ q["format"] # {} => rows[c]["creative"] \cap q["format"] # {}
          /\ \A d \in Dimensions : q[d] # {} => Targets(c, d)
          /\ InHours(c)
  <2>1. \A d \in Dimensions : d \in Open <=> d \notin Strict
    BY RowsAssumption DEF Dimensions
  <2>2. ASSUME NEW c \in act, NEW d \in Dimensions
        PROVE  Targets(c, d) <=> /\ rows[c][d] \cap q[d] # {} \/ rows[c][d] = {}
                                 /\ ~(d \in Strict /\ rows[c][d] = {})
    <3>1. rows[c][d] = {} => rows[c][d] \cap q[d] = {}
      OBVIOUS
    <3>2. QED BY <2>1, <3>1
  <2>3. Strict \subseteq Dimensions
    BY DEF Dimensions
  <2> HIDE DEF Targets
  <2>4. QED BY <2>2, <2>3 DEF Offered, Meant, Overlooked
<1>8. \A c \in act : c \in Candidates(s, q) <=> c \in Offered(act, h, q)
  BY <1>2, <1>3, <1>4, <1>5, <1>6, <1>7 DEF Candidates
<1>9. Candidates(s, q) \subseteq act /\ Offered(act, h, q) \subseteq act
  BY <1>2 DEF Candidates, Offered, Meant
<1>10. QED BY <1>8, <1>9

(* An exact snapshot stays exact while the rows stay: it speaks of the     *)
(* status and the hour of its own build.                                   *)
LEMMA ExactKept == ASSUME rows' = rows, NEW s, Exact(s) PROVE Exact(s)'
  BY DEF Exact, ListedIn

(* The snapshots stay exact while no new one can be read.                  *)
LEMMA SnapshotsKept ==
    ASSUME SnapshotsExact, rows' = rows, Live' \subseteq Live PROVE SnapshotsExact'
  BY ExactKept DEF SnapshotsExact

(* No new one can be read while the catalog and the requests stay.         *)
LEMMA LiveKept == ASSUME UNCHANGED <<catalog, request>> PROVE Live' = Live
  BY DEF Live, request

(* The answers stay fresh while the database and the build stay.           *)
LEMMA FreshKept ==
    ASSUME BuildFresh, UNCHANGED <<rows, active, hour, loader, torn>> PROVE BuildFresh'
  BY DEF BuildFresh, loader, Answer, Listed

(* The first build runs while nothing else does.                           *)
LEMMA ExactInit == Init => ExactInv
<1> SUFFICES ASSUME Init PROVE ExactInv
  OBVIOUS
<1> DEFINE a == [q \in Queries |-> Answer(q)]
<1>1. /\ rows \in [Campaigns -> Rows] /\ active \subseteq Campaigns /\ hour \in Values
      /\ asof = [active |-> active, hour |-> hour] /\ catalog = Build(a)
  BY DEF Init
<1>2. \A q \in Queries : a[q] = Answer(q)
  OBVIOUS
<1>3. Exact(catalog)
  <2> HIDE DEF a
  <2>1. QED BY <1>1, <1>2, BuildIsExact
<1>4. BuildFresh
  BY DEF Init, BuildFresh
<1>5. Live = {catalog}
  BY DEF Init, Live
<1>6. QED BY <1>3, <1>4, <1>5, InitInv DEF ExactInv, SnapshotsExact

(* A build that nothing disturbed stores an exact catalog.                 *)
LEMMA ExactRefresh ==
    ASSUME ExactInv, Refresh PROVE BuildFresh' /\ SnapshotsExact'
<1>t. /\ rows \in [Campaigns -> Rows] /\ active \subseteq Campaigns /\ hour \in Values
      /\ BuildFresh /\ SnapshotsExact /\ AnswersOK
  BY DEF ExactInv, Inv, TypeOK
<1>1. ASSUME BeginBuild PROVE BuildFresh' /\ SnapshotsExact'
  <2>1. /\ phase = "sleep" /\ UNCHANGED <<rows, active, hour, got, catalog, request>>
        /\ asof' = [active |-> active, hour |-> hour]
        /\ phase' = "query"
    BY <1>1 DEF BeginBuild, database
  <2>2. DOMAIN got' = {}
    BY <1>t, <2>1 DEF BuildFresh, NoAnswers
  <2>3. BuildFresh'
    BY <2>1, <2>2 DEF BuildFresh
  <2>4. QED BY <1>t, <2>1, <2>3, LiveKept, SnapshotsKept
<1>2. ASSUME QueryFails PROVE BuildFresh' /\ SnapshotsExact'
  BY <1>t, <1>2, LiveKept, SnapshotsKept DEF QueryFails, database, BuildFresh, NoAnswers
<1>3. ASSUME NEW q \in Queries, Query(q) PROVE BuildFresh' /\ SnapshotsExact'
  <2>1. /\ phase = "query" /\ UNCHANGED <<rows, active, hour, phase, asof, torn, catalog, request>>
        /\ got' = [x \in DOMAIN got \cup {q} |-> IF x = q THEN Answer(q) ELSE got[x]]
    BY <1>3 DEF Query, database
  <2>2. \A x : Answer(x)' = Answer(x)
    BY <2>1 DEF Answer, Listed
  <2>3. BuildFresh'
    BY <1>t, <2>1, <2>2 DEF BuildFresh
  <2>4. QED BY <1>t, <2>1, <2>3, LiveKept, SnapshotsKept
<1>4. ASSUME Reload PROVE BuildFresh' /\ SnapshotsExact'
  <2>1. /\ phase = "query" /\ phase' = "store"
        /\ UNCHANGED <<rows, active, hour, got, asof, torn, catalog, request>>
    BY <1>4 DEF Reload, database
  <2>2. \A x : Answer(x)' = Answer(x)
    BY <2>1 DEF Answer, Listed
  <2>3. BuildFresh'
    BY <1>t, <2>1, <2>2 DEF BuildFresh
  <2>4. QED BY <1>t, <2>1, <2>3, LiveKept, SnapshotsKept
<1>5. ASSUME Store PROVE BuildFresh' /\ SnapshotsExact'
  <2>1. /\ phase = "store" /\ phase' = "sleep" /\ got' = NoAnswers
        /\ UNCHANGED <<rows, asof, torn>> /\ catalog' = Build(got)
    BY <1>5 DEF Store, database
  <2>2. BuildFresh'
    BY <2>1 DEF BuildFresh
  <2>3. catalog'.torn = torn
    BY <2>1 DEF Build
  <2>4. ASSUME ~torn PROVE Exact(Build(got))
    <3>1. asof = [active |-> active, hour |-> hour] /\ \A q \in Queries : got[q] = Answer(q)
      BY <1>t, <2>1, <2>4 DEF BuildFresh, AnswersOK
    <3>2. QED BY <1>t, <3>1, BuildIsExact
  <2>5. \A s \in Live' : s = catalog' \/ s \in Live
    BY <1>5 DEF Store, Live, request
  <2>6. ASSUME NEW s \in Live', ~s.torn PROVE Exact(s)'
    <3>1. CASE s = catalog'
      <4>1. Exact(s)
        BY <2>1, <2>3, <2>4, <2>6, <3>1
      <4>2. QED BY <2>1, <4>1, ExactKept
    <3>2. CASE s \in Live
      BY <1>t, <2>1, <2>6, <3>2, ExactKept DEF SnapshotsExact
    <3>3. QED BY <2>5, <3>1, <3>2
  <2>7. SnapshotsExact'
    BY <2>6 DEF SnapshotsExact
  <2>8. QED BY <2>2, <2>7
<1>6. QED BY <1>1, <1>2, <1>3, <1>4, <1>5 DEF Refresh

(* A change of the database marks the build under way as torn.             *)
LEMMA ExactStep == ASSUME ExactInv, [Next]_vars PROVE ExactInv'
<1>1. Inv'
  BY RefreshStep, RequestStep, DatabaseStep, StutterStep DEF Next, ExactInv
<1>2. BuildFresh /\ SnapshotsExact
  BY DEF ExactInv
<1>3. CASE Refresh
  BY <1>1, <1>3, ExactRefresh DEF ExactInv
<1>4. CASE UNCHANGED vars \/ PostgresChanges
             \/ \E r \in Requests : Enrich(r) \/ Retrieve(r) \/ Finish(r)
  <2>1. UNCHANGED <<rows, active, hour, loader, torn, catalog>>
    BY <1>4 DEF vars, PostgresChanges, Enrich, Retrieve, Finish, database
  <2>2. Live' \subseteq Live
    <3>1. CASE UNCHANGED vars \/ PostgresChanges
      BY <3>1, LiveKept DEF vars, PostgresChanges
    <3>2. CASE \E r \in Requests : Enrich(r) \/ Retrieve(r) \/ Finish(r)
      BY <3>2, NoNewSnapshot DEF ExactInv
    <3>3. QED BY <1>4, <3>1, <3>2
  <2>3. QED BY <1>1, <1>2, <2>1, <2>2, SnapshotsKept, FreshKept DEF ExactInv
<1>5. CASE HourPasses \/ \E c \in Campaigns : SetStatus(c)
  <2>1. UNCHANGED <<rows, loader, catalog, request>> /\ torn' = TRUE
    BY <1>5 DEF HourPasses, SetStatus
  <2>2. BuildFresh'
    BY <1>2, <2>1 DEF BuildFresh, loader
  <2>3. QED BY <1>1, <1>2, <2>1, <2>2, LiveKept, SnapshotsKept DEF ExactInv
<1>6. QED BY <1>3, <1>4, <1>5 DEF Next

(* build and candidates_for are right: for any campaigns, rows and         *)
(* requests, a snapshot whose eight queries saw one state of the database  *)
(* offers each request exactly the campaigns that state says it should     *)
(* have, for as long as a request holds it.                                *)
THEOREM SnapshotsAreExact == Spec => []SnapshotIsExact
<1>1. ExactInv => SnapshotIsExact
  BY ExactOffers DEF ExactInv, Inv, TypeOK, SnapshotsExact, SnapshotIsExact
<1>2. QED BY ExactInit, ExactStep, <1>1, PTL DEF Spec

=============================================================================
