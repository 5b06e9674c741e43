----------------------------- MODULE BidPipeline -----------------------------
(***************************************************************************)
(* The bid path: POST /rtb/openrtb/bid runs a request through the nine     *)
(* stages of bidder-core/src/pipeline, in the order main.rs adds them, and *)
(* the handler turns the outcome into a response.  The stages that matter  *)
(* to other requests are BudgetPacing and Ranking, which share the         *)
(* counters of LocalBudgetPacer; the catalog refresh task reseeds those    *)
(* counters while requests are under way.                                  *)
(*                                                                         *)
(* A step is one stage, or one atomic access to a pacer counter.  What a   *)
(* stage computes from data the properties do not look at (which campaigns *)
(* match, what they score, which are capped) is a free choice.             *)
(***************************************************************************)
EXTENDS Integers, FiniteSets

CONSTANTS
    Requests,       \* bid requests
    Imps,           \* the impressions of a request, by position
    Campaigns,      \* campaign ids (numbers: CandidateLimit breaks ties by id)
    Price,          \* Campaign::bid_floor_cents, the price of every bid
    DailyBudget,    \* Campaign::daily_budget_cents
    TopK,           \* [pipeline] max_candidates_per_imp
    Droppable,      \* requests that may run into a deadline, a timeout or an error
    MaxReloads      \* bound: catalog refreshes in a behaviour

(* The schema allows a floor of 0 and a budget of 0.  A campaign with both *)
(* never bids, and "less than one bid" says nothing of it.                 *)
ASSUME BudgetAssumption ==
    /\ IsFiniteSet(Campaigns) /\ Campaigns \subseteq Nat
    /\ Price \in [Campaigns -> Nat]
    /\ DailyBudget \in [Campaigns -> Nat]
    /\ \A c \in Campaigns : DailyBudget[c] + Price[c] > 0

ASSUME RequestAssumption ==
    /\ IsFiniteSet(Requests)
    /\ IsFiniteSet(Imps) /\ Imps \subseteq Nat
    /\ Droppable \subseteq Requests
    /\ TopK \in Nat
    /\ MaxReloads \in Nat

Slots == Imps \X Campaigns          \* an impression and a candidate for it
NoSlot == <<>>

Stages == {"validate", "enrich", "retrieve", "limit", "score", "cap", "pace",
           "rank", "build"}
Places == Stages \cup {"pacing", "ranking", "handler", "done"}

VARIABLES
    counter,    \* LocalBudgetPacer::counters
    at,         \* the stage a request is about to run, or the loop it is in
    outcome,    \* BidContext::outcome
    cands,      \* BidContext::candidates, as slots
    winners,    \* BidContext::winners, as slots
    response,   \* BidContext::bid_response is Some
    todo,       \* the slots the loop of the current stage has still to visit
    undo,       \* the slot whose fetch_sub found nothing and awaits its fetch_add
    status,     \* the HTTP status answered
    reloads,    \* catalog refreshes so far
    held,       \* history: slots reserved by a request and not released
    spent       \* history: cents bid in 200 responses, per campaign

ctx == <<outcome, cands, winners, response>>
loop == <<todo, undo>>
vars == <<counter, at, ctx, loop, status, reloads, held, spent>>

Init ==
    /\ counter = DailyBudget
    /\ at = [r \in Requests |-> "validate"]
    /\ outcome = [r \in Requests |-> "Pending"]
    /\ cands = [r \in Requests |-> {}]
    /\ winners = [r \in Requests |-> {}]
    /\ response = [r \in Requests |-> FALSE]
    /\ todo = [r \in Requests |-> {}]
    /\ undo = [r \in Requests |-> NoSlot]
    /\ status = [r \in Requests |-> 0]
    /\ reloads = 0
    /\ held = [r \in Requests |-> {}]
    /\ spent = [c \in Campaigns |-> 0]

-----------------------------------------------------------------------------
(* Pipeline::execute                                                       *)

Goto(r, place) == at' = [at EXCEPT ![r] = place]

(* A stage that sets NoBid ends the pipeline, another hands on.            *)
NoBidOr(r, none, next) ==
    /\ outcome' = [outcome EXCEPT ![r] = IF none THEN "NoBid" ELSE @]
    /\ Goto(r, IF none THEN "handler" ELSE next)

(* The deadline check before a stage: NoBid, and nothing else is done.     *)
DeadlineExceeded(r) ==
    /\ r \in Droppable
    /\ at[r] \in Stages
    /\ outcome' = [outcome EXCEPT ![r] = "NoBid"]
    /\ Goto(r, "handler")
    /\ UNCHANGED <<counter, cands, winners, response, loop, status, reloads, held, spent>>

-----------------------------------------------------------------------------
(* The stages before pacing                                                *)

ValidateRequest(r) ==
    /\ at[r] = "validate"
    /\ \E invalid \in BOOLEAN : NoBidOr(r, invalid, "enrich")
    /\ UNCHANGED <<counter, cands, winners, response, loop, status, reloads, held, spent>>

(* The catalog snapshot and the user's segments only steer the retrieval.  *)
EnrichUser(r) ==
    /\ at[r] = "enrich"
    /\ Goto(r, "retrieve")
    /\ UNCHANGED <<counter, ctx, loop, status, reloads, held, spent>>

(* At most one candidate per campaign and impression.                      *)
RetrieveCandidates(r) ==
    /\ at[r] = "retrieve"
    /\ \E s \in SUBSET Slots : cands' = [cands EXCEPT ![r] = s]
    /\ Goto(r, "limit")
    /\ UNCHANGED <<counter, outcome, winners, response, loop, status, reloads, held, spent>>

(* HeapEntry::cmp: dearer first, then the smaller id.                      *)
Outranks(c, d) == Price[c] > Price[d] \/ (Price[c] = Price[d] /\ c < d)

(* The TopK greatest entries of each impression survive the min-heap.      *)
Limit(s) ==
    {x \in s : Cardinality({y \in s : y[1] = x[1] /\ Outranks(y[2], x[2])}) < TopK}

LimitCandidates(r) ==
    /\ at[r] = "limit"
    /\ cands' = [cands EXCEPT ![r] = Limit(@)]
    /\ Goto(r, "score")
    /\ UNCHANGED <<counter, outcome, winners, response, loop, status, reloads, held, spent>>

(* Scores decide who wins: see BeginRanking.                               *)
ScoreCandidates(r) ==
    /\ at[r] = "score"
    /\ Goto(r, "cap")
    /\ UNCHANGED <<counter, ctx, loop, status, reloads, held, spent>>

(* Any candidates may be capped; none is when the check was skipped.       *)
FreqCap(r) ==
    /\ at[r] = "cap"
    /\ \E s \in SUBSET cands[r] : cands' = [cands EXCEPT ![r] = s]
    /\ Goto(r, "pace")
    /\ UNCHANGED <<counter, outcome, winners, response, loop, status, reloads, held, spent>>

-----------------------------------------------------------------------------
(* BudgetPacingStage over LocalBudgetPacer::check_and_reserve              *)

BeginPacing(r) ==
    /\ at[r] = "pace"
    /\ todo' = [todo EXCEPT ![r] = cands[r]]
    /\ Goto(r, "pacing")
    /\ UNCHANGED <<counter, ctx, undo, status, reloads, held, spent>>

(* The loops go through the impressions in order, and through the          *)
(* candidates of one in whatever order the heap left them.                 *)
NextSlots(r) == {x \in todo[r] : \A y \in todo[r] : x[1] <= y[1]}

(* Mutant: a counter that stands at zero still has budget.                 *)
CheckAndReserveAtZero(r) ==
    /\ at[r] = "pacing" /\ undo[r] = NoSlot
    /\ \E x \in NextSlots(r) :
          /\ counter' = [counter EXCEPT ![x[2]] = @ - Price[x[2]]]
          /\ todo' = [todo EXCEPT ![r] = @ \ {x}]
          /\ \/ /\ counter[x[2]] >= 0
                /\ held' = [held EXCEPT ![r] = @ \cup {x}]
                /\ UNCHANGED undo
             \/ /\ counter[x[2]] < 0
                /\ undo' = [undo EXCEPT ![r] = x]
                /\ UNCHANGED held
    /\ UNCHANGED <<at, ctx, status, reloads, spent>>

(* fetch_sub, and HasBudget when the counter was positive before it.       *)
CheckAndReserve(r) ==
    /\ at[r] = "pacing" /\ undo[r] = NoSlot
    /\ \E x \in NextSlots(r) :
          /\ counter' = [counter EXCEPT ![x[2]] = @ - Price[x[2]]]
          /\ todo' = [todo EXCEPT ![r] = @ \ {x}]
          /\ \/ /\ counter[x[2]] > 0
                /\ held' = [held EXCEPT ![r] = @ \cup {x}]
                /\ UNCHANGED undo
             \/ /\ counter[x[2]] <= 0
                /\ undo' = [undo EXCEPT ![r] = x]
                /\ UNCHANGED held
    /\ UNCHANGED <<at, ctx, status, reloads, spent>>

(* Mutant: a refused reservation is not given back.                        *)
ExhaustedKept(r) ==
    /\ undo[r] # NoSlot
    /\ cands' = [cands EXCEPT ![r] = @ \ {undo[r]}]
    /\ undo' = [undo EXCEPT ![r] = NoSlot]
    /\ UNCHANGED <<counter, at, outcome, winners, response, todo, status, reloads, held, spent>>

(* The compensating fetch_add; the stage drops the exhausted candidate.    *)
Exhausted(r) ==
    /\ undo[r] # NoSlot
    /\ counter' = [counter EXCEPT ![undo[r][2]] = @ + Price[undo[r][2]]]
    /\ cands' = [cands EXCEPT ![r] = @ \ {undo[r]}]
    /\ undo' = [undo EXCEPT ![r] = NoSlot]
    /\ UNCHANGED <<at, outcome, winners, response, todo, status, reloads, held, spent>>

EndPacing(r) ==
    /\ at[r] = "pacing" /\ undo[r] = NoSlot /\ todo[r] = {}
    /\ NoBidOr(r, cands[r] = {}, "rank")
    /\ UNCHANGED <<counter, cands, winners, response, loop, status, reloads, held, spent>>

-----------------------------------------------------------------------------
(* RankingStage and ResponseBuildStage                                     *)

(* One winner for each impression that still has a candidate.              *)
Winners(s) ==
    {w \in SUBSET s : /\ \A x \in s : \E y \in w : y[1] = x[1]
                      /\ \A x, y \in w : x[1] = y[1] => x = y}

(* Mutant: a campaign that won one impression is released for none.        *)
BeginRankingByCampaign(r) ==
    /\ at[r] = "rank"
    /\ \E w \in Winners(cands[r]) :
          /\ winners' = [winners EXCEPT ![r] = w]
          /\ todo' = [todo EXCEPT ![r] = {x \in cands[r] : \A y \in w : x[2] # y[2]}]
    /\ Goto(r, "ranking")
    /\ UNCHANGED <<counter, outcome, cands, response, undo, status, reloads, held, spent>>

BeginRanking(r) ==
    /\ at[r] = "rank"
    /\ \E w \in Winners(cands[r]) :
          /\ winners' = [winners EXCEPT ![r] = w]
          /\ todo' = [todo EXCEPT ![r] = cands[r] \ w]
    /\ Goto(r, "ranking")
    /\ UNCHANGED <<counter, outcome, cands, response, undo, status, reloads, held, spent>>

(* LocalBudgetPacer::release of a candidate that did not win.              *)
Release(r) ==
    /\ at[r] = "ranking"
    /\ \E x \in NextSlots(r) :
          /\ counter' = [counter EXCEPT ![x[2]] = @ + Price[x[2]]]
          /\ todo' = [todo EXCEPT ![r] = @ \ {x}]
          /\ held' = [held EXCEPT ![r] = @ \ {x}]
    /\ UNCHANGED <<at, ctx, undo, status, reloads, spent>>

(* Mutant: the pipeline stops at any outcome, not only at NoBid.           *)
EndRankingStops(r) ==
    /\ at[r] = "ranking" /\ todo[r] = {}
    /\ outcome' = [outcome EXCEPT ![r] = IF winners[r] = {} THEN "NoBid" ELSE "Bid"]
    /\ Goto(r, "handler")
    /\ UNCHANGED <<counter, cands, winners, response, loop, status, reloads, held, spent>>

EndRanking(r) ==
    /\ at[r] = "ranking" /\ todo[r] = {}
    /\ outcome' = [outcome EXCEPT ![r] = IF winners[r] = {} THEN "NoBid" ELSE "Bid"]
    /\ Goto(r, IF winners[r] = {} THEN "handler" ELSE "build")
    /\ UNCHANGED <<counter, cands, winners, response, loop, status, reloads, held, spent>>

BuildResponse(r) ==
    /\ at[r] = "build"
    /\ outcome' = [outcome EXCEPT ![r] = IF @ = "Pending" THEN "NoBid" ELSE @]
    /\ response' = [response EXCEPT ![r] = TRUE]
    /\ Goto(r, "handler")
    /\ UNCHANGED <<counter, cands, winners, loop, status, reloads, held, spent>>

-----------------------------------------------------------------------------
(* The handler, the HTTP timeout and the catalog refresh                   *)

Answer(r, code) ==
    /\ Goto(r, "done")
    /\ status' = [status EXCEPT ![r] = code]
    /\ UNCHANGED <<counter, ctx, loop, reloads, held>>

BidCents(r, c) == Cardinality({x \in winners[r] : x[2] = c}) * Price[c]

(* handlers::bid after the pipeline: 204, the bid, or 500 when there is no *)
(* response or it cannot be encoded.                                       *)
Handle(r) ==
    /\ at[r] = "handler"
    /\ \/ /\ outcome[r] = "NoBid"
          /\ Answer(r, 204) /\ UNCHANGED spent
       \/ /\ outcome[r] = "Bid" /\ response[r]
          /\ Answer(r, 200)
          /\ spent' = [c \in Campaigns |-> spent[c] + BidCents(r, c)]
       \/ /\ outcome[r] = "Bid"
          /\ r \in Droppable \/ ~response[r]
          /\ Answer(r, 500) /\ UNCHANGED spent

(* Mutant: there is an await between the fetch_sub and its fetch_add.      *)
AwaitsInside(r) ==
    \/ at[r] \in {"enrich", "score", "cap"}
    \/ at[r] \in {"pacing", "ranking"} /\ todo[r] # {}

(* The request waits for Redis, for the scorer, or for the pacer's lock.   *)
Awaits(r) ==
    \/ at[r] \in {"enrich", "score", "cap"}
    \/ at[r] \in {"pacing", "ranking"} /\ todo[r] # {} /\ undo[r] = NoSlot

(* timeout_middleware drops the handler's future at an await.              *)
HttpTimeout(r) ==
    /\ r \in Droppable /\ Awaits(r)
    /\ Answer(r, 503) /\ UNCHANGED spent

(* Mutant: the budgets are stored without waiting for anyone.              *)
ReloadUnlocked ==
    /\ reloads < MaxReloads
    /\ counter' = DailyBudget
    /\ reloads' = reloads + 1
    /\ UNCHANGED <<at, ctx, loop, status, held, spent>>

(* refresh_loop: LocalBudgetPacer::reload stores the daily budgets under   *)
(* the write lock, which waits for every check_and_reserve to finish.      *)
Reload ==
    /\ reloads < MaxReloads
    /\ \A r \in Requests : undo[r] = NoSlot
    /\ counter' = DailyBudget
    /\ reloads' = reloads + 1
    /\ UNCHANGED <<at, ctx, loop, status, held, spent>>

-----------------------------------------------------------------------------

Step(r) ==
    \/ ValidateRequest(r) \/ EnrichUser(r) \/ RetrieveCandidates(r)
    \/ LimitCandidates(r) \/ ScoreCandidates(r) \/ FreqCap(r)
    \/ BeginPacing(r) \/ CheckAndReserve(r) \/ Exhausted(r) \/ EndPacing(r)
    \/ BeginRanking(r) \/ Release(r) \/ EndRanking(r) \/ BuildResponse(r)
    \/ Handle(r)

Next ==
    \/ \E r \in Requests : Step(r) \/ DeadlineExceeded(r) \/ HttpTimeout(r)
    \/ Reload

Spec == Init /\ [][Next]_vars

-----------------------------------------------------------------------------
(* Properties                                                              *)

(* Every variable stays in its type, and only a candidate wins.            *)
TypeOK ==
    /\ counter \in [Campaigns -> Int]
    /\ at \in [Requests -> Places]
    /\ outcome \in [Requests -> {"Pending", "NoBid", "Bid"}]
    /\ cands \in [Requests -> SUBSET Slots]
    /\ winners \in [Requests -> SUBSET Slots]
    /\ response \in [Requests -> BOOLEAN]
    /\ todo \in [Requests -> SUBSET Slots]
    /\ undo \in [Requests -> Slots \cup {NoSlot}]
    /\ status \in [Requests -> {0, 200, 204, 500, 503}]
    /\ reloads \in 0..MaxReloads
    /\ held \in [Requests -> SUBSET Slots]
    /\ spent \in [Campaigns -> Nat]
    /\ \A r \in Requests : winners[r] \subseteq cands[r]

(* The reservations of a campaign that some request still holds, in cents. *)
Reserved(c) ==
    Price[c] * Cardinality({p \in Requests \X Slots :
                               p[2] \in held[p[1]] /\ p[2][2] = c})

InTransit(c) == Cardinality({r \in Requests : undo[r] # NoSlot /\ undo[r][2] = c})

(* check_and_reserve under concurrency: each time the budgets are seeded,  *)
(* the reservations of a campaign overshoot its daily budget by less than  *)
(* one bid.  A fetch_sub that will be refused may hide budget from other   *)
(* requests, never add any; nor does a release after a reload.             *)
OneBidOvershoot ==
    \A c \in Campaigns : Reserved(c) <= (reloads + 1) * (DailyBudget[c] + Price[c] - 1)

(* "under N concurrent in-flight bids ... the counter can transiently dip  *)
(* below zero by up to N bids before the compensating adds catch up": less *)
(* than one bid for the reservation that overshot, and one for each        *)
(* request between its fetch_sub and its fetch_add.                        *)
BoundedDip ==
    \A c \in Campaigns : counter[c] > -(Price[c] * (1 + InTransit(c)))

(* RankingStage releases every candidate but the winners: a request that   *)
(* answers with a bid holds exactly its winning reservations, one for each *)
(* impression it bids on, and a request without a bid that was neither     *)
(* dropped nor failed holds none.                                          *)
SettledReservations ==
    \A r \in Requests :
        /\ status[r] = 200 => held[r] = winners[r]
        /\ status[r] = 204 /\ r \notin Droppable => held[r] = {}

(* The handler's "unreachable!" on Pending, and its error "Bid but         *)
(* bid_response is None", cannot happen, whichever stage ended the         *)
(* pipeline.                                                               *)
HandlerSeesOutcome ==
    \A r \in Requests :
        at[r] = "handler" => /\ outcome[r] # "Pending"
                             /\ outcome[r] = "Bid" => response[r] /\ winners[r] # {}

(* What is left of each budget once the pending fetch_adds are back.       *)
Left == [c \in Campaigns |-> counter[c] + Price[c] * InTransit(c)]

Account == INSTANCE BudgetAccount WITH left <- Left

(* check_and_reserve and release act on a campaign's budget as on an       *)
(* account with atomic operations, although each is made of single         *)
(* accesses to an atomic: a refused reservation leaves no trace, and       *)
(* nothing is released that is not held, or twice.                         *)
AtomicBudget == Account!Spec

(* The reservations of a campaign kept by requests that a deadline, the    *)
(* timeout or an encoding error stopped short of a bid.                    *)
Leaked(c) ==
    {p \in Requests \X Slots : /\ p[1] \in Droppable /\ status[p[1]] # 200
                               /\ p[2] \in held[p[1]] /\ p[2][2] = c}

(* Where the budget went: until a refresh seeds it anew, and with every    *)
(* request answered, a counter is the daily budget less what was bid in    *)
(* 200 responses and less the reservations of requests stopped on the way. *)
(* No refusal, no lost auction and no race takes a cent.                   *)
LeaksExplained ==
    reloads = 0 /\ (\A r \in Requests : at[r] = "done") =>
        \A c \in Campaigns :
            counter[c] = DailyBudget[c] - spent[c] - Price[c] * Cardinality(Leaked(c))

(* Ranking "releases the reserved budget for every non-winning candidate   *)
(* so the pacer counters reflect actual spend, not speculative             *)
(* reservations": with every request answered, a counter is the daily      *)
(* budget less what was bid.                                               *)
CountersReflectSpend ==
    (\A r \in Requests : at[r] = "done") =>
        \A c \in Campaigns : counter[c] = DailyBudget[c] - spent[c]

=============================================================================
