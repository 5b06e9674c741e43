------------------------- MODULE BidPipelineProofs -------------------------
(***************************************************************************)
(* The bid path for any requests, impressions, campaigns, prices and       *)
(* budgets: a request settles its reservations, the handler never meets an *)
(* outcome it does not expect, concurrent reservations overshoot a daily   *)
(* budget by less than one bid, and the pacer is an account with atomic    *)
(* operations, which lacks in the end what was bid or leaked.              *)
(***************************************************************************)
EXTENDS BidPipeline, FiniteSetTheorems, TLAPS

Early == {"validate", "enrich", "retrieve", "limit", "score", "cap", "pace"}

(* What a request holds, by where it is.                                   *)
PacingOK(r) ==
    at[r] = "pacing" =>
        /\ winners[r] = {} /\ todo[r] \subseteq cands[r]
        /\ undo[r] = NoSlot => held[r] = cands[r] \ todo[r]
        /\ undo[r] # NoSlot => /\ undo[r] \in cands[r] \ todo[r]
                               /\ held[r] = cands[r] \ (todo[r] \cup {undo[r]})

RankingOK(r) ==
    /\ at[r] = "rank" => held[r] = cands[r]
    /\ at[r] = "ranking" => held[r] = winners[r] \cup todo[r] /\ winners[r] \cap todo[r] = {}
    /\ at[r] = "build" => outcome[r] = "Bid" /\ winners[r] # {} /\ held[r] = winners[r]

HandlerOK(r) ==
    at[r] = "handler" =>
        /\ outcome[r] # "Pending"
        /\ outcome[r] = "Bid" => response[r] /\ winners[r] # {} /\ held[r] = winners[r]
        /\ outcome[r] = "NoBid" /\ r \notin Droppable => held[r] = {}

DoneOK(r) ==
    /\ status[r] # 0 <=> at[r] = "done"
    /\ status[r] \in {500, 503} => r \in Droppable
    /\ status[r] = 200 => held[r] = winners[r]
    /\ status[r] = 204 /\ r \notin Droppable => held[r] = {}

Progress(r) ==
    /\ at[r] \in Early => winners[r] = {} /\ held[r] = {}
    /\ undo[r] # NoSlot => at[r] = "pacing"
    /\ PacingOK(r) /\ RankingOK(r) /\ HandlerOK(r) /\ DoneOK(r)

Settled == \A r \in Requests : Progress(r)

-----------------------------------------------------------------------------
(* Types                                                                   *)

(* A catalog and a request are finite.                                     *)
LEMMA SlotsFinite == IsFiniteSet(Slots)
  BY FS_Product, BudgetAssumption, RequestAssumption
     DEF BudgetAssumption, RequestAssumption, Slots

(* No candidate looks like the absence of one.                             *)
LEMMA NoSlotIsNone == NoSlot \notin Slots
  BY DEF NoSlot, Slots

(* What a response bids for a campaign is a number of cents.               *)
LEMMA BidCentsType ==
    ASSUME TypeOK, NEW r \in Requests, NEW c \in Campaigns
    PROVE  BidCents(r, c) \in Nat
<1> DEFINE S == {x \in winners[r] : x[2] = c}
<1>1. S \in SUBSET Slots
  BY DEF TypeOK
<1>2. Cardinality(S) \in Nat
  BY <1>1, SlotsFinite, FS_Subset, FS_CardinalityType
<1>3. Price[c] \in Nat
  BY BudgetAssumption DEF BudgetAssumption
<1>4. QED BY <1>2, <1>3 DEF BidCents

(* A counter goes down or up by the price of a bid.                        *)
LEMMA CounterType ==
    ASSUME TypeOK, NEW c \in Campaigns,
           \/ counter' = [counter EXCEPT ![c] = @ - Price[c]]
           \/ counter' = [counter EXCEPT ![c] = @ + Price[c]]
    PROVE  counter' \in [Campaigns -> Int]
<1>1. counter \in [Campaigns -> Int] /\ counter[c] \in Int
  BY DEF TypeOK
<1>2. Price[c] \in Nat
  BY BudgetAssumption DEF BudgetAssumption
<1>3. counter[c] - Price[c] \in Int /\ counter[c] + Price[c] \in Int
  BY <1>1, <1>2
<1>4. QED BY <1>1, <1>3

(* A request starts with nothing.                                          *)
LEMMA InitInv == Init => TypeOK /\ Settled
<1> SUFFICES ASSUME Init PROVE TypeOK /\ Settled
  OBVIOUS
<1>1. TypeOK
  BY BudgetAssumption, RequestAssumption
     DEF BudgetAssumption, RequestAssumption, Init, TypeOK, Places, Stages
<1>2. Settled
  BY DEF Init, Settled, Progress, PacingOK, RankingOK, HandlerOK, DoneOK
<1>3. QED BY <1>1, <1>2

(* The variables a step of a request may change, all but the counters.     *)
Ctx(r) == <<at[r], outcome[r], cands[r], winners[r], response[r], todo[r], undo[r],
            status[r], held[r]>>

(* What is said of a request only depends on its own variables.            *)
LEMMA OthersKept == ASSUME NEW r \in Requests, Progress(r), UNCHANGED Ctx(r) PROVE Progress(r)'
  BY DEF Ctx, Progress, PacingOK, RankingOK, HandlerOK, DoneOK

(* A stage goes to a place of the pipeline.                                *)
LEMMA GotoType ==
    ASSUME TypeOK, NEW r \in Requests, NEW p \in Places, Goto(r, p)
    PROVE  /\ at' \in [Requests -> Places] /\ at'[r] = p
           /\ \A q \in Requests \ {r} : at'[q] = at[q]
  BY DEF TypeOK, Goto

(* A step of one request leaves what the others hold.                      *)
LEMMA OneMoves ==
    ASSUME Settled, NEW r \in Requests, Progress(r)',
           \A q \in Requests \ {r} : UNCHANGED Ctx(q)
    PROVE  Settled'
  BY OthersKept DEF Settled

-----------------------------------------------------------------------------
(* The stages before pacing, and the deadline check                        *)

(* Nothing is held before pacing, and a deadline only stops a Droppable one. *)
LEMMA StageStep ==
    ASSUME TypeOK, Settled, NEW r \in Requests,
           \/ DeadlineExceeded(r) \/ ValidateRequest(r) \/ EnrichUser(r)
           \/ RetrieveCandidates(r) \/ LimitCandidates(r) \/ ScoreCandidates(r)
           \/ FreqCap(r) \/ BeginPacing(r)
    PROVE  TypeOK' /\ Settled'
<1>p. Progress(r)
  BY DEF Settled
<1>1. CASE DeadlineExceeded(r)
  <2>1. TypeOK'
    BY <1>1 DEF DeadlineExceeded, Goto, TypeOK, Places, loop
  <2>2. Progress(r)'
    BY <1>1, <1>p DEF DeadlineExceeded, Goto, TypeOK, Stages, loop, Early,
                      Progress, PacingOK, RankingOK, HandlerOK, DoneOK
  <2>3. \A q \in Requests \ {r} : UNCHANGED Ctx(q)
    BY <1>1 DEF DeadlineExceeded, Goto, TypeOK, Ctx, loop
  <2>4. QED BY <2>1, <2>2, <2>3, OneMoves
<1>2. CASE ValidateRequest(r)
  <2>1. TypeOK'
    BY <1>2 DEF ValidateRequest, NoBidOr, Goto, TypeOK, Places, Stages, loop
  <2>2. Progress(r)'
    BY <1>2, <1>p DEF ValidateRequest, NoBidOr, Goto, TypeOK, loop, Early,
                      Progress, PacingOK, RankingOK, HandlerOK, DoneOK
  <2>3. \A q \in Requests \ {r} : UNCHANGED Ctx(q)
    BY <1>2 DEF ValidateRequest, NoBidOr, Goto, TypeOK, Ctx, loop
  <2>4. QED BY <2>1, <2>2, <2>3, OneMoves
<1>3. CASE EnrichUser(r) \/ ScoreCandidates(r)
  <2>1. TypeOK'
    BY <1>3 DEF EnrichUser, ScoreCandidates, Goto, TypeOK, Places, Stages, ctx, loop
  <2>2. Progress(r)'
    BY <1>3, <1>p DEF EnrichUser, ScoreCandidates, Goto, TypeOK, ctx, loop, Early,
                      Progress, PacingOK, RankingOK, HandlerOK, DoneOK
  <2>3. \A q \in Requests \ {r} : UNCHANGED Ctx(q)
    BY <1>3 DEF EnrichUser, ScoreCandidates, Goto, TypeOK, Ctx, ctx, loop
  <2>4. QED BY <2>1, <2>2, <2>3, OneMoves
<1>4. CASE RetrieveCandidates(r) \/ LimitCandidates(r) \/ FreqCap(r)
  <2>1. PICK s \in SUBSET Slots, p \in {"limit", "score", "pace"} :
            cands' = [cands EXCEPT ![r] = s] /\ at' = [at EXCEPT ![r] = p]
    <3>1. CASE RetrieveCandidates(r)
      BY <3>1, ZenonT(30) DEF RetrieveCandidates, Goto
    <3>2. CASE LimitCandidates(r)
      <4>1. Limit(cands[r]) \in SUBSET Slots
        BY DEF Limit, TypeOK
      <4>2. QED BY <3>2, <4>1, ZenonT(30) DEF LimitCandidates, Goto
    <3>3. CASE FreqCap(r)
      <4>1. PICK s \in SUBSET cands[r] : cands' = [cands EXCEPT ![r] = s]
        BY <3>3, ZenonT(30) DEF FreqCap
      <4>2. s \in SUBSET Slots
        BY <4>1 DEF TypeOK
      <4>3. QED BY <3>3, <4>1, <4>2, ZenonT(30) DEF FreqCap, Goto
    <3>4. QED BY <1>4, <3>1, <3>2, <3>3
  <2>2. /\ at[r] \in Early
        /\ UNCHANGED <<counter, outcome, winners, response, loop, status, reloads, held, spent>>
    BY <1>4 DEF RetrieveCandidates, LimitCandidates, FreqCap, Early
  <2>3. winners[r] = {}
    BY <1>p, <2>2 DEF Progress
  <2>4. TypeOK'
    BY <2>1, <2>2, <2>3 DEF TypeOK, Places, Stages, loop
  <2>5. Progress(r)'
    BY <1>p, <2>1, <2>2 DEF TypeOK, loop, Early,
                      Progress, PacingOK, RankingOK, HandlerOK, DoneOK
  <2>6. \A q \in Requests \ {r} : UNCHANGED Ctx(q)
    BY <2>1, <2>2 DEF TypeOK, Ctx, loop
  <2>7. QED BY <2>4, <2>5, <2>6, OneMoves
<1>5. CASE BeginPacing(r)
  <2>1. TypeOK'
    BY <1>5 DEF BeginPacing, Goto, TypeOK, Places, ctx
  <2>2. Progress(r)'
    BY <1>5, <1>p DEF BeginPacing, Goto, TypeOK, ctx, Early,
                      Progress, PacingOK, RankingOK, HandlerOK, DoneOK
  <2>3. \A q \in Requests \ {r} : UNCHANGED Ctx(q)
    BY <1>5 DEF BeginPacing, Goto, TypeOK, Ctx, ctx
  <2>4. QED BY <2>1, <2>2, <2>3, OneMoves
<1>6. QED BY <1>1, <1>2, <1>3, <1>4, <1>5

-----------------------------------------------------------------------------
(* Pacing: a candidate is visited, then held or dropped                    *)

(* A visited candidate is held, or awaits its fetch_add.                   *)
LEMMA ReserveStep ==
    ASSUME TypeOK, Settled, NEW r \in Requests, CheckAndReserve(r)
    PROVE  TypeOK' /\ Settled'
<1>p. Progress(r) /\ at[r] = "pacing" /\ undo[r] = NoSlot
  BY DEF Settled, CheckAndReserve
<1>1. PICK x \in NextSlots(r) :
          /\ counter' = [counter EXCEPT ![x[2]] = @ - Price[x[2]]]
          /\ todo' = [todo EXCEPT ![r] = @ \ {x}]
          /\ \/ /\ held' = [held EXCEPT ![r] = @ \cup {x}]
                /\ UNCHANGED undo
             \/ /\ undo' = [undo EXCEPT ![r] = x]
                /\ UNCHANGED held
  BY ZenonT(30) DEF CheckAndReserve
<1>2. UNCHANGED <<at, ctx, status, reloads, spent>>
  BY DEF CheckAndReserve
<1>3. x \in todo[r] /\ x \in Slots /\ x[2] \in Campaigns /\ x # NoSlot
  BY NoSlotIsNone DEF NextSlots, TypeOK, Slots
<1>4. TypeOK'
  <2>1. counter' \in [Campaigns -> Int]
    BY <1>1, <1>3, CounterType, ZenonT(30)
  <2>2. /\ todo' \in [Requests -> SUBSET Slots] /\ held' \in [Requests -> SUBSET Slots]
        /\ undo' \in [Requests -> Slots \cup {NoSlot}]
    BY <1>1, <1>3 DEF TypeOK
  <2>3. QED BY <1>2, <2>1, <2>2 DEF TypeOK, ctx
<1>5. PacingOK(r)'
  <2>1. /\ winners[r] = {} /\ todo[r] \subseteq cands[r] /\ held[r] = cands[r] \ todo[r]
        /\ winners'[r] = winners[r] /\ cands'[r] = cands[r]
    BY <1>p, <1>2 DEF Progress, PacingOK, ctx
  <2>2. todo'[r] = todo[r] \ {x}
    BY <1>1 DEF TypeOK
  <2>3. CASE held' = [held EXCEPT ![r] = @ \cup {x}] /\ UNCHANGED undo
    <3>1. held'[r] = held[r] \cup {x} /\ undo'[r] = NoSlot
      BY <1>p, <2>3 DEF TypeOK
    <3>2. QED BY <1>3, <2>1, <2>2, <3>1 DEF PacingOK
  <2>4. CASE undo' = [undo EXCEPT ![r] = x] /\ UNCHANGED held
    <3>1. held'[r] = held[r] /\ undo'[r] = x
      BY <2>4 DEF TypeOK
    <3>2. QED BY <1>3, <2>1, <2>2, <3>1 DEF PacingOK
  <2>5. QED BY <1>1, <2>3, <2>4
<1>6. Progress(r)'
  BY <1>p, <1>2, <1>5 DEF Progress, RankingOK, HandlerOK, DoneOK, Early
<1>7. \A q \in Requests \ {r} : UNCHANGED Ctx(q)
  BY <1>1, <1>2 DEF TypeOK, Ctx, ctx
<1>8. QED BY <1>4, <1>6, <1>7, OneMoves

(* The exhausted candidate is dropped.                                     *)
LEMMA ExhaustedStep ==
    ASSUME TypeOK, Settled, NEW r \in Requests, Exhausted(r)
    PROVE  TypeOK' /\ Settled'
<1>p. Progress(r) /\ at[r] = "pacing" /\ undo[r] # NoSlot
  BY DEF Settled, Exhausted, Progress
<1>1. /\ counter' = [counter EXCEPT ![undo[r][2]] = @ + Price[undo[r][2]]]
      /\ cands' = [cands EXCEPT ![r] = @ \ {undo[r]}]
      /\ undo' = [undo EXCEPT ![r] = NoSlot]
      /\ UNCHANGED <<at, outcome, winners, response, todo, status, reloads, held, spent>>
  BY DEF Exhausted
<1>2. undo[r] \in Slots /\ undo[r][2] \in Campaigns /\ winners[r] = {}
  BY <1>p DEF TypeOK, Slots, Progress, PacingOK
<1>3. TypeOK'
  <2>1. counter' \in [Campaigns -> Int]
    BY <1>1, <1>2, CounterType, ZenonT(30)
  <2>2. /\ cands' \in [Requests -> SUBSET Slots]
        /\ undo' \in [Requests -> Slots \cup {NoSlot}]
    BY <1>1 DEF TypeOK
  <2>3. \A q \in Requests : winners'[q] \subseteq cands'[q]
    BY <1>1, <1>2 DEF TypeOK
  <2>4. QED BY <1>1, <2>1, <2>2, <2>3 DEF TypeOK
<1>4. PacingOK(r)'
  <2>1. cands'[r] = cands[r] \ {undo[r]} /\ undo'[r] = NoSlot
    BY <1>1 DEF TypeOK
  <2>2. QED BY <1>p, <1>1, <2>1 DEF Progress, PacingOK
<1>5. Progress(r)'
  <2>1. undo'[r] = NoSlot
    BY <1>1 DEF TypeOK
  <2>2. QED BY <1>p, <1>1, <1>4, <2>1 DEF Progress, RankingOK, HandlerOK, DoneOK, Early
<1>6. \A q \in Requests \ {r} : UNCHANGED Ctx(q)
  BY <1>1 DEF TypeOK, Ctx
<1>7. QED BY <1>3, <1>5, <1>6, OneMoves

(* After the loop exactly the remaining candidates are held.               *)
LEMMA EndPacingStep ==
    ASSUME TypeOK, Settled, NEW r \in Requests, EndPacing(r)
    PROVE  TypeOK' /\ Settled'
<1>p. Progress(r)
  BY DEF Settled
<1>1. TypeOK'
  BY DEF EndPacing, NoBidOr, Goto, TypeOK, Places, Stages, loop
<1>2. Progress(r)'
  BY <1>p DEF EndPacing, NoBidOr, Goto, TypeOK, loop, Early,
              Progress, PacingOK, RankingOK, HandlerOK, DoneOK
<1>3. \A q \in Requests \ {r} : UNCHANGED Ctx(q)
  BY DEF EndPacing, NoBidOr, Goto, TypeOK, Ctx, loop
<1>4. QED BY <1>1, <1>2, <1>3, OneMoves

-----------------------------------------------------------------------------
(* Ranking, the response and the handler                                   *)

(* The candidates are split into winners and those to release.             *)
LEMMA BeginRankingStep ==
    ASSUME TypeOK, Settled, NEW r \in Requests, BeginRanking(r)
    PROVE  TypeOK' /\ Settled'
<1>p. Progress(r) /\ at[r] = "rank"
  BY DEF Settled, BeginRanking
<1>1. PICK w \in SUBSET cands[r] : /\ winners' = [winners EXCEPT ![r] = w]
                                  /\ todo' = [todo EXCEPT ![r] = cands[r] \ w]
  BY ZenonT(30) DEF BeginRanking, Winners
<1>2. /\ at' = [at EXCEPT ![r] = "ranking"]
      /\ UNCHANGED <<counter, outcome, cands, response, undo, status, reloads, held, spent>>
  BY DEF BeginRanking, Goto
<1>3. TypeOK'
  BY <1>1, <1>2 DEF TypeOK, Places
<1>4. Progress(r)'
  BY <1>p, <1>1, <1>2 DEF TypeOK, Early, Progress, PacingOK, RankingOK, HandlerOK, DoneOK
<1>5. \A q \in Requests \ {r} : UNCHANGED Ctx(q)
  BY <1>1, <1>2 DEF TypeOK, Ctx
<1>6. QED BY <1>3, <1>4, <1>5, OneMoves

(* A candidate that lost is released and no longer held.                   *)
LEMMA ReleaseStep ==
    ASSUME TypeOK, Settled, NEW r \in Requests, Release(r)
    PROVE  TypeOK' /\ Settled'
<1>p. Progress(r) /\ at[r] = "ranking"
  BY DEF Settled, Release
<1>1. PICK x \in NextSlots(r) :
          /\ counter' = [counter EXCEPT ![x[2]] = @ + Price[x[2]]]
          /\ todo' = [todo EXCEPT ![r] = @ \ {x}]
          /\ held' = [held EXCEPT ![r] = @ \ {x}]
  BY ZenonT(30) DEF Release
<1>2. UNCHANGED <<at, ctx, undo, status, reloads, spent>>
  BY DEF Release
<1>3. x \in todo[r] /\ x[2] \in Campaigns
  BY DEF NextSlots, TypeOK, Slots
<1>4. TypeOK'
  <2>1. counter' \in [Campaigns -> Int]
    BY <1>1, <1>3, CounterType, ZenonT(30)
  <2>2. todo' \in [Requests -> SUBSET Slots] /\ held' \in [Requests -> SUBSET Slots]
    BY <1>1 DEF TypeOK
  <2>3. QED BY <1>2, <2>1, <2>2 DEF TypeOK, ctx
<1>5. Progress(r)'
  <2>1. todo'[r] = todo[r] \ {x} /\ held'[r] = held[r] \ {x}
    BY <1>1 DEF TypeOK
  <2>2. RankingOK(r)'
    BY <1>p, <1>2, <1>3, <2>1 DEF Progress, RankingOK, ctx
  <2>3. status[r] = 0
    BY <1>p DEF Progress, DoneOK
  <2>4. QED BY <1>p, <1>2, <2>2, <2>3 DEF Progress, PacingOK, HandlerOK, DoneOK, Early
<1>6. \A q \in Requests \ {r} : UNCHANGED Ctx(q)
  BY <1>1, <1>2 DEF TypeOK, Ctx, ctx
<1>7. QED BY <1>4, <1>5, <1>6, OneMoves

(* With all of those released, the winners are held.                       *)
LEMMA EndRankingStep ==
    ASSUME TypeOK, Settled, NEW r \in Requests, EndRanking(r) \/ BuildResponse(r)
    PROVE  TypeOK' /\ Settled'
<1>p. Progress(r)
  BY DEF Settled
<1>1. CASE EndRanking(r)
  <2>1. TypeOK'
    BY <1>1 DEF EndRanking, Goto, TypeOK, Places, Stages, loop
  <2>2. Progress(r)'
    BY <1>1, <1>p DEF EndRanking, Goto, TypeOK, loop, Early,
                      Progress, PacingOK, RankingOK, HandlerOK, DoneOK
  <2>3. \A q \in Requests \ {r} : UNCHANGED Ctx(q)
    BY <1>1 DEF EndRanking, Goto, TypeOK, Ctx, loop
  <2>4. QED BY <2>1, <2>2, <2>3, OneMoves
<1>2. CASE BuildResponse(r)
  <2>1. TypeOK'
    BY <1>2 DEF BuildResponse, Goto, TypeOK, Places, loop
  <2>2. Progress(r)'
    BY <1>2, <1>p DEF BuildResponse, Goto, TypeOK, loop, Early,
                      Progress, PacingOK, RankingOK, HandlerOK, DoneOK
  <2>3. \A q \in Requests \ {r} : UNCHANGED Ctx(q)
    BY <1>2 DEF BuildResponse, Goto, TypeOK, Ctx, loop
  <2>4. QED BY <2>1, <2>2, <2>3, OneMoves
<1>3. QED BY <1>1, <1>2

(* The handler answers, or the timeout answers for it.                     *)
LEMMA AnswerStep ==
    ASSUME TypeOK, Settled, NEW r \in Requests, Handle(r) \/ HttpTimeout(r)
    PROVE  TypeOK' /\ Settled'
<1>p. Progress(r)
  BY DEF Settled
<1>1. PICK code \in {200, 204, 500, 503} :
          /\ Answer(r, code)
          /\ code = 200 => at[r] = "handler" /\ outcome[r] = "Bid"
          /\ code = 204 => at[r] = "handler" /\ outcome[r] = "NoBid"
          /\ code \in {500, 503} => r \in Droppable
  BY <1>p DEF Handle, HttpTimeout, Progress, HandlerOK
<1>2. undo[r] = NoSlot
  BY <1>p DEF Handle, HttpTimeout, Awaits, Progress
<1>3. spent' \in [Campaigns -> Nat]
  BY BidCentsType DEF Handle, HttpTimeout, TypeOK
<1>4. /\ at' = [at EXCEPT ![r] = "done"] /\ status' = [status EXCEPT ![r] = code]
      /\ UNCHANGED <<counter, ctx, loop, reloads, held>>
  BY <1>1 DEF Answer, Goto
<1>5. TypeOK'
  BY <1>3, <1>4 DEF TypeOK, Places, ctx, loop
<1>6. Progress(r)'
  BY <1>p, <1>1, <1>2, <1>4 DEF TypeOK, ctx, loop, Early,
                               Progress, PacingOK, RankingOK, HandlerOK, DoneOK
<1>7. \A q \in Requests \ {r} : UNCHANGED Ctx(q)
  BY <1>4 DEF TypeOK, Ctx, ctx, loop
<1>8. QED BY <1>5, <1>6, <1>7, OneMoves

(* The catalog refresh waits until no fetch_sub awaits its fetch_add.      *)
LEMMA ReloadStep == ASSUME TypeOK, Settled, Reload PROVE TypeOK' /\ Settled'
<1>1. TypeOK'
  BY BudgetAssumption, RequestAssumption
     DEF Reload, TypeOK, ctx, loop, BudgetAssumption, RequestAssumption
<1>2. \A r \in Requests : UNCHANGED Ctx(r)
  BY DEF Reload, Ctx, ctx, loop
<1>3. QED BY <1>1, <1>2, OthersKept DEF Settled

(* Every step of the bid path keeps what requests hold in order.           *)
LEMMA SettledStep == TypeOK /\ Settled /\ [Next]_vars => TypeOK' /\ Settled'
<1> SUFFICES ASSUME TypeOK, Settled, [Next]_vars
             PROVE  TypeOK' /\ Settled'
  OBVIOUS
<1>1. CASE UNCHANGED vars
  <2>1. TypeOK'
    BY <1>1 DEF vars, ctx, loop, TypeOK
  <2>2. \A r \in Requests : UNCHANGED Ctx(r)
    BY <1>1 DEF vars, ctx, loop, Ctx
  <2>3. QED BY <2>1, <2>2, OthersKept DEF Settled
<1>2. QED
  BY <1>1, StageStep, ReserveStep, ExhaustedStep, EndPacingStep, BeginRankingStep,
     ReleaseStep, EndRankingStep, AnswerStep, ReloadStep DEF Next, Step

-----------------------------------------------------------------------------
(* The money                                                               *)

HeldFor(c) == {p \in Requests \X Slots : p[2] \in held[p[1]] /\ p[2][2] = c}
Refusing(c) == {r \in Requests : undo[r] # NoSlot /\ undo[r][2] = c}
Debt(c) == Price[c] * Cardinality(Refusing(c))      \* what the fetch_adds will return
Overshoot(c) == DailyBudget[c] + Price[c] - 1

(* What is left, what is held and what is on its way back make up a daily  *)
(* budget, or, as a reload hands out a new one over what is still held, at *)
(* most a daily budget and one overshoot for each reload.                  *)
Ledger(c) ==
    counter[c] + Reserved(c) + Debt(c) <= DailyBudget[c] + reloads * Overshoot(c)

Bounded(c) == Reserved(c) <= (reloads + 1) * Overshoot(c)
Dip(c) == counter[c] > -(Price[c] + Debt(c))

(* Until the first reload nothing is handed out beyond the budget, and     *)
(* nothing of it is lost.                                                  *)
Exact(c) == reloads = 0 => counter[c] + Reserved(c) + Debt(c) = DailyBudget[c]

Books(c) == Ledger(c) /\ Bounded(c) /\ Dip(c) /\ Exact(c)

Money == \A c \in Campaigns : Books(c)

(* Arithmetic of prices and counts.                                        *)
LEMMA Times == ASSUME NEW a \in Int, NEW b \in Int PROVE a * (b + 1) = a * b + a /\ a * b \in Int
  OBVIOUS

(* The same for one less.                                                  *)
LEMMA TimesLess == ASSUME NEW a \in Int, NEW b \in Int PROVE a * (b - 1) = a * b - a
  OBVIOUS

(* The same for the sign.                                                  *)
LEMMA NatTimes == ASSUME NEW a \in Nat, NEW b \in Nat PROVE a * b \in Nat
  OBVIOUS

(* The reservations and the refusals of a campaign can be counted.         *)
LEMMA Finite ==
    ASSUME NEW c \in Campaigns
    PROVE  /\ IsFiniteSet(HeldFor(c)) /\ Cardinality(HeldFor(c)) \in Nat
           /\ IsFiniteSet(Refusing(c)) /\ Cardinality(Refusing(c)) \in Nat
<1>1. IsFiniteSet(Requests)
  BY RequestAssumption DEF RequestAssumption
<1>2. IsFiniteSet(Requests \X Slots)
  BY <1>1, SlotsFinite, FS_Product
<1>3. HeldFor(c) \in SUBSET (Requests \X Slots) /\ Refusing(c) \in SUBSET Requests
  BY DEF HeldFor, Refusing
<1>4. QED BY <1>1, <1>2, <1>3, FS_Subset, FS_CardinalityType

(* Everything the ledger adds up is a number.                              *)
LEMMA MoneyTypes ==
    ASSUME TypeOK, NEW c \in Campaigns
    PROVE  /\ Price[c] \in Nat /\ DailyBudget[c] \in Nat
           /\ counter[c] \in Int /\ reloads \in Nat /\ Overshoot(c) \in Nat
           /\ Reserved(c) \in Nat /\ Debt(c) \in Nat
           /\ Reserved(c) = Price[c] * Cardinality(HeldFor(c))
<1>1. Price[c] \in Nat /\ DailyBudget[c] \in Nat /\ DailyBudget[c] + Price[c] > 0
  BY BudgetAssumption DEF BudgetAssumption
<1>2. counter[c] \in Int /\ reloads \in Nat
  BY RequestAssumption DEF TypeOK, RequestAssumption
<1>3. Overshoot(c) \in Nat
  BY <1>1 DEF Overshoot
<1>4. Reserved(c) = Price[c] * Cardinality(HeldFor(c))
  BY DEF Reserved, HeldFor
<1>5. Reserved(c) \in Nat /\ Debt(c) \in Nat
  BY <1>1, <1>4, Finite, NatTimes DEF Debt
<1>6. QED BY <1>1, <1>2, <1>3, <1>4, <1>5

(* A reservation is taken, or given back.                                  *)
LEMMA ReservedGrows ==
    ASSUME TypeOK, NEW r \in Requests, NEW x \in Slots, x \notin held[r],
           held' = [held EXCEPT ![r] = @ \cup {x}], NEW c \in Campaigns
    PROVE  Reserved(c)' = IF x[2] = c THEN Reserved(c) + Price[c] ELSE Reserved(c)
<1>0. held'[r] = held[r] \cup {x} /\ \A q \in Requests \ {r} : held'[q] = held[q]
  BY DEF TypeOK
<1>1. CASE x[2] = c
  <2>1. HeldFor(c)' = HeldFor(c) \cup {<<r, x>>} /\ <<r, x>> \notin HeldFor(c)
    BY <1>0, <1>1 DEF HeldFor
  <2>2. Cardinality(HeldFor(c)') = Cardinality(HeldFor(c)) + 1
    BY <2>1, Finite, FS_AddElement, ZenonT(30)
  <2>3. Reserved(c)' = Price[c] * Cardinality(HeldFor(c)')
    BY DEF Reserved, HeldFor
  <2>4. Price[c] * (Cardinality(HeldFor(c)) + 1) = Price[c] * Cardinality(HeldFor(c)) + Price[c]
    BY MoneyTypes, Finite, Times
  <2>5. QED BY <1>1, <2>2, <2>3, <2>4, MoneyTypes
<1>2. CASE x[2] # c
  <2>1. HeldFor(c)' = HeldFor(c)
    BY <1>0, <1>2 DEF HeldFor
  <2>2. Reserved(c)' = Price[c] * Cardinality(HeldFor(c)')
    BY DEF Reserved, HeldFor
  <2>3. QED BY <1>2, <2>1, <2>2, MoneyTypes
<1>3. QED BY <1>1, <1>2

(* The release of a reservation takes its price off what is held.          *)
LEMMA ReservedShrinks ==
    ASSUME TypeOK, NEW r \in Requests, NEW x \in Slots, x \in held[r],
           held' = [held EXCEPT ![r] = @ \ {x}], NEW c \in Campaigns
    PROVE  Reserved(c)' = IF x[2] = c THEN Reserved(c) - Price[c] ELSE Reserved(c)
<1>0. held'[r] = held[r] \ {x} /\ \A q \in Requests \ {r} : held'[q] = held[q]
  BY DEF TypeOK
<1>1. CASE x[2] = c
  <2>1. HeldFor(c)' = HeldFor(c) \ {<<r, x>>} /\ <<r, x>> \in HeldFor(c)
    BY <1>0, <1>1 DEF HeldFor
  <2>2. Cardinality(HeldFor(c)') = Cardinality(HeldFor(c)) - 1
    BY <2>1, Finite, FS_RemoveElement, ZenonT(30)
  <2>3. Reserved(c)' = Price[c] * Cardinality(HeldFor(c)')
    BY DEF Reserved, HeldFor
  <2>4. Price[c] \in Int /\ Cardinality(HeldFor(c)) \in Int
    BY MoneyTypes, Finite
  <2>5. Price[c] * (Cardinality(HeldFor(c)) - 1) = Price[c] * Cardinality(HeldFor(c)) - Price[c]
    BY <2>4, TimesLess
  <2>6. Reserved(c) = Price[c] * Cardinality(HeldFor(c))
    BY MoneyTypes
  <2>7. QED BY <1>1, <2>2, <2>3, <2>5, <2>6, Zenon
<1>2. CASE x[2] # c
  <2>1. HeldFor(c)' = HeldFor(c)
    BY <1>0, <1>2 DEF HeldFor
  <2>2. Reserved(c)' = Price[c] * Cardinality(HeldFor(c)')
    BY DEF Reserved, HeldFor
  <2>3. QED BY <1>2, <2>1, <2>2, MoneyTypes
<1>3. QED BY <1>1, <1>2

(* A refused fetch_sub is on its way back, or is back.                     *)
LEMMA DebtGrows ==
    ASSUME TypeOK, NEW r \in Requests, NEW x \in Slots, undo[r] = NoSlot,
           undo' = [undo EXCEPT ![r] = x], NEW c \in Campaigns
    PROVE  Debt(c)' = IF x[2] = c THEN Debt(c) + Price[c] ELSE Debt(c)
<1>0. undo'[r] = x /\ x # NoSlot /\ \A q \in Requests \ {r} : undo'[q] = undo[q]
  BY NoSlotIsNone DEF TypeOK
<1>1. CASE x[2] = c
  <2>1. Refusing(c)' = Refusing(c) \cup {r} /\ r \notin Refusing(c)
    BY <1>0, <1>1 DEF Refusing
  <2>2. Cardinality(Refusing(c)') = Cardinality(Refusing(c)) + 1
    BY <2>1, Finite, FS_AddElement, ZenonT(30)
  <2>3. Price[c] \in Int /\ Cardinality(Refusing(c)) \in Int
    BY MoneyTypes, Finite
  <2>4. Price[c] * (Cardinality(Refusing(c)) + 1) = Price[c] * Cardinality(Refusing(c)) + Price[c]
    BY <2>3, Times
  <2>5. QED BY <1>1, <2>2, <2>4, Zenon DEF Debt
<1>2. CASE x[2] # c
  <2>1. Refusing(c)' = Refusing(c)
    BY <1>0, <1>2 DEF Refusing
  <2>2. QED BY <1>2, <2>1 DEF Debt
<1>3. QED BY <1>1, <1>2

(* A fetch_add takes its price off what is owed.                           *)
LEMMA DebtShrinks ==
    ASSUME TypeOK, NEW r \in Requests, undo[r] # NoSlot,
           undo' = [undo EXCEPT ![r] = NoSlot], NEW c \in Campaigns
    PROVE  Debt(c)' = IF undo[r][2] = c THEN Debt(c) - Price[c] ELSE Debt(c)
<1>0. undo'[r] = NoSlot /\ \A q \in Requests \ {r} : undo'[q] = undo[q]
  BY DEF TypeOK
<1>1. CASE undo[r][2] = c
  <2>1. Refusing(c)' = Refusing(c) \ {r} /\ r \in Refusing(c)
    BY <1>0, <1>1 DEF Refusing
  <2>2. Cardinality(Refusing(c)') = Cardinality(Refusing(c)) - 1
    BY <2>1, Finite, FS_RemoveElement, ZenonT(30)
  <2>3. Price[c] \in Int /\ Cardinality(Refusing(c)) \in Int
    BY MoneyTypes, Finite
  <2>4. Price[c] * (Cardinality(Refusing(c)) - 1) = Price[c] * Cardinality(Refusing(c)) - Price[c]
    BY <2>3, TimesLess
  <2>5. QED BY <1>1, <2>2, <2>4, Zenon DEF Debt
<1>2. CASE undo[r][2] # c
  <2>1. Refusing(c)' = Refusing(c)
    BY <1>0, <1>2 DEF Refusing
  <2>2. QED BY <1>2, <2>1 DEF Debt
<1>3. QED BY <1>1, <1>2

(* Other steps leave what is held,                                         *)
LEMMA ReservedKept ==
    ASSUME NEW c \in Campaigns, UNCHANGED held PROVE Reserved(c)' = Reserved(c)
  BY DEF Reserved

(* and what is owed.                                                       *)
LEMMA DebtKept == ASSUME NEW c \in Campaigns, UNCHANGED undo PROVE Debt(c)' = Debt(c)
  BY DEF Debt, Refusing

(* No step but a reload breaks the ledger of a campaign that only moves    *)
(* money between counter, reservation and debt.                            *)
LEMMA MoneyMoves ==
    ASSUME TypeOK, NEW c \in Campaigns, Books(c),
           counter'[c] \in Int, Reserved(c)' \in Int, Debt(c)' \in Int,
           reloads' = reloads,
           counter'[c] + Reserved(c)' + Debt(c)' = counter[c] + Reserved(c) + Debt(c),
           \/ Reserved(c)' <= Reserved(c)
           \/ counter[c] > 0 /\ Reserved(c)' = Reserved(c) + Price[c] /\ Debt(c)' = Debt(c)
    PROVE  Books(c)'
<1> DEFINE B == DailyBudget[c]  P == Price[c]  k == reloads  O == Overshoot(c)
<1>t. /\ P \in Nat /\ B \in Nat /\ counter[c] \in Int /\ k \in Nat
      /\ O \in Nat /\ Reserved(c) \in Nat /\ Debt(c) \in Nat /\ O = B + P - 1
  BY MoneyTypes DEF Overshoot
<1>o. k * O \in Nat /\ (k + 1) * O = k * O + O
  BY <1>t
<1>c. Overshoot(c)' = O
  BY DEF Overshoot
<1>b. Ledger(c) /\ Bounded(c) /\ Dip(c) /\ Exact(c)
  BY DEF Books
<1>1. Ledger(c)'
  BY <1>b, <1>c DEF Ledger
<1>2. Bounded(c)'
  <2>1. CASE Reserved(c)' <= Reserved(c)
    <3>1. Reserved(c) <= (k + 1) * O /\ (k + 1) * O \in Int
      BY <1>b, <1>t, <1>o DEF Bounded
    <3>2. QED BY <1>t, <1>c, <2>1, <3>1 DEF Bounded
  <2>2. CASE counter[c] > 0 /\ Reserved(c)' = Reserved(c) + Price[c]
    <3>1. Reserved(c) + counter[c] <= B + k * O
      BY <1>b, <1>t, <1>o DEF Ledger
    <3>2. Reserved(c)' <= (k + 1) * O
      BY <1>t, <1>o, <2>2, <3>1
    <3>3. QED BY <1>c, <3>2 DEF Bounded
  <2>3. QED BY <2>1, <2>2
<1>3. Dip(c)'
  BY <1>b, <1>t DEF Dip
<1>4. Exact(c)'
  BY <1>b DEF Exact
<1>5. QED BY <1>1, <1>2, <1>3, <1>4 DEF Books

(* The next slot of a loop over candidates is one of those it has to visit.*)
LEMMA NextSlotTyped ==
    ASSUME TypeOK, NEW r \in Requests, NEW x \in NextSlots(r)
    PROVE  x \in todo[r] /\ x \in Slots /\ x[2] \in Campaigns
<1>1. todo[r] \subseteq Slots /\ x \in todo[r]
  BY DEF TypeOK, NextSlots
<1>2. QED BY <1>1 DEF Slots

(* Pacing reserves what the request does not hold yet.                     *)
LEMMA ReservesNew ==
    ASSUME TypeOK, Settled, NEW r \in Requests, CheckAndReserve(r), NEW x \in NextSlots(r)
    PROVE  x \notin held[r] /\ undo[r] = NoSlot
<1>1. at[r] = "pacing" /\ undo[r] = NoSlot
  BY DEF CheckAndReserve
<1>2. held[r] = cands[r] \ todo[r]
  BY <1>1 DEF Settled, Progress, PacingOK
<1>3. QED BY <1>1, <1>2, NextSlotTyped

(* Ranking releases what the request holds.                                *)
LEMMA ReleasesHeld ==
    ASSUME TypeOK, Settled, NEW r \in Requests, Release(r), NEW x \in NextSlots(r)
    PROVE  x \in held[r]
<1>1. at[r] = "ranking"
  BY DEF Release
<1>2. held[r] = winners[r] \cup todo[r]
  BY <1>1 DEF Settled, Progress, RankingOK
<1>3. QED BY <1>2, NextSlotTyped

(* check_and_reserve moves a price to the reservations or to the debt.     *)
LEMMA MoneyReserve ==
    ASSUME TypeOK, Settled, Money, NEW r \in Requests, CheckAndReserve(r)
    PROVE  Money'
<1>1. PICK x \in NextSlots(r) :
          /\ counter' = [counter EXCEPT ![x[2]] = @ - Price[x[2]]]
          /\ \/ /\ counter[x[2]] > 0
                /\ held' = [held EXCEPT ![r] = @ \cup {x}] /\ UNCHANGED undo
             \/ /\ undo' = [undo EXCEPT ![r] = x] /\ UNCHANGED held
  BY ZenonT(30) DEF CheckAndReserve
<1>2. /\ x \in Slots /\ x[2] \in Campaigns /\ x \notin held[r]
      /\ undo[r] = NoSlot /\ reloads' = reloads
  BY NextSlotTyped, ReservesNew DEF CheckAndReserve
<1> SUFFICES ASSUME NEW c \in Campaigns PROVE Books(c)'
  BY DEF Money
<1>t. /\ Books(c) /\ Price[c] \in Int /\ counter[c] \in Int
      /\ Reserved(c) \in Int /\ Debt(c) \in Int /\ Price[c] >= 0
  BY MoneyTypes DEF Money
<1>3. counter'[c] = IF x[2] = c THEN counter[c] - Price[c] ELSE counter[c]
  BY <1>1, <1>2 DEF TypeOK
<1>4. CASE counter[x[2]] > 0 /\ held' = [held EXCEPT ![r] = @ \cup {x}] /\ UNCHANGED undo
  <2>1. /\ Reserved(c)' = IF x[2] = c THEN Reserved(c) + Price[c] ELSE Reserved(c)
        /\ Debt(c)' = Debt(c)
    BY <1>2, <1>4, ReservedGrows, DebtKept, ZenonT(30)
  <2>2. /\ counter'[c] \in Int /\ Reserved(c)' \in Int /\ Debt(c)' \in Int
        /\ counter'[c] + Reserved(c)' + Debt(c)' = counter[c] + Reserved(c) + Debt(c)
        /\ \/ Reserved(c)' <= Reserved(c)
           \/ counter[c] > 0 /\ Reserved(c)' = Reserved(c) + Price[c] /\ Debt(c)' = Debt(c)
    BY <1>t, <1>3, <1>4, <2>1
  <2>3. QED BY <1>2, <1>t, <2>2, MoneyMoves
<1>5. CASE undo' = [undo EXCEPT ![r] = x] /\ UNCHANGED held
  <2>1. /\ Debt(c)' = IF x[2] = c THEN Debt(c) + Price[c] ELSE Debt(c)
        /\ Reserved(c)' = Reserved(c)
    BY <1>2, <1>5, DebtGrows, ReservedKept, ZenonT(30)
  <2>2. /\ counter'[c] \in Int /\ Reserved(c)' \in Int /\ Debt(c)' \in Int
        /\ counter'[c] + Reserved(c)' + Debt(c)' = counter[c] + Reserved(c) + Debt(c)
        /\ \/ Reserved(c)' <= Reserved(c)
           \/ counter[c] > 0 /\ Reserved(c)' = Reserved(c) + Price[c] /\ Debt(c)' = Debt(c)
    BY <1>t, <1>3, <2>1
  <2>3. QED BY <1>2, <1>t, <2>2, MoneyMoves
<1>6. QED BY <1>1, <1>4, <1>5

(* The compensating fetch_add moves it back.                               *)
LEMMA MoneyExhausted ==
    ASSUME TypeOK, Money, NEW r \in Requests, Exhausted(r)
    PROVE  Money'
<1>1. /\ counter' = [counter EXCEPT ![undo[r][2]] = @ + Price[undo[r][2]]]
      /\ undo[r] # NoSlot /\ undo' = [undo EXCEPT ![r] = NoSlot]
      /\ UNCHANGED held /\ reloads' = reloads
  BY DEF Exhausted
<1> SUFFICES ASSUME NEW c \in Campaigns PROVE Books(c)'
  BY DEF Money
<1>t. /\ Books(c) /\ Price[c] \in Int /\ counter[c] \in Int
      /\ Reserved(c) \in Int /\ Debt(c) \in Int /\ Price[c] >= 0
  BY MoneyTypes DEF Money
<1>2. counter'[c] = IF undo[r][2] = c THEN counter[c] + Price[c] ELSE counter[c]
  BY <1>1 DEF TypeOK
<1>3. /\ Debt(c)' = IF undo[r][2] = c THEN Debt(c) - Price[c] ELSE Debt(c)
      /\ Reserved(c)' = Reserved(c)
  BY <1>1, DebtShrinks, ReservedKept, ZenonT(30)
<1>4. /\ counter'[c] \in Int /\ Reserved(c)' \in Int /\ Debt(c)' \in Int
      /\ counter'[c] + Reserved(c)' + Debt(c)' = counter[c] + Reserved(c) + Debt(c)
      /\ \/ Reserved(c)' <= Reserved(c)
         \/ counter[c] > 0 /\ Reserved(c)' = Reserved(c) + Price[c] /\ Debt(c)' = Debt(c)
  BY <1>t, <1>2, <1>3
<1>5. QED BY <1>1, <1>t, <1>4, MoneyMoves

(* Ranking releases what the request holds, and nothing twice.             *)
LEMMA MoneyRelease ==
    ASSUME TypeOK, Settled, Money, NEW r \in Requests, Release(r)
    PROVE  Money'
<1>1. PICK x \in NextSlots(r) :
          /\ counter' = [counter EXCEPT ![x[2]] = @ + Price[x[2]]]
          /\ held' = [held EXCEPT ![r] = @ \ {x}]
  BY ZenonT(30) DEF Release
<1>2. x \in Slots /\ x \in held[r] /\ UNCHANGED undo /\ reloads' = reloads
  BY NextSlotTyped, ReleasesHeld DEF Release
<1> SUFFICES ASSUME NEW c \in Campaigns PROVE Books(c)'
  BY DEF Money
<1>t. /\ Books(c) /\ Price[c] \in Int /\ counter[c] \in Int
      /\ Reserved(c) \in Int /\ Debt(c) \in Int /\ Price[c] >= 0
  BY MoneyTypes DEF Money
<1>3. counter'[c] = IF x[2] = c THEN counter[c] + Price[c] ELSE counter[c]
  BY <1>1 DEF TypeOK
<1>4. /\ Reserved(c)' = IF x[2] = c THEN Reserved(c) - Price[c] ELSE Reserved(c)
      /\ Debt(c)' = Debt(c)
  BY <1>1, <1>2, ReservedShrinks, DebtKept, ZenonT(30)
<1>5. /\ counter'[c] \in Int /\ Reserved(c)' \in Int /\ Debt(c)' \in Int
      /\ counter'[c] + Reserved(c)' + Debt(c)' = counter[c] + Reserved(c) + Debt(c)
      /\ \/ Reserved(c)' <= Reserved(c)
         \/ counter[c] > 0 /\ Reserved(c)' = Reserved(c) + Price[c] /\ Debt(c)' = Debt(c)
  BY <1>t, <1>3, <1>4
<1>6. QED BY <1>2, <1>t, <1>5, MoneyMoves

(* A reload puts a whole budget on top of what is held, one overshoot at   *)
(* most for each budget handed out before.                                 *)
LEMMA MoneyReload == ASSUME TypeOK, Money, Reload PROVE Money'
<1>1. counter' = DailyBudget /\ reloads' = reloads + 1 /\ UNCHANGED <<held, undo>>
  BY DEF Reload, loop
<1> SUFFICES ASSUME NEW c \in Campaigns PROVE Books(c)'
  BY DEF Money
<1> DEFINE B == DailyBudget[c]  P == Price[c]  k == reloads  O == Overshoot(c)
<1>t. /\ P \in Nat /\ B \in Nat /\ k \in Nat
      /\ O \in Nat /\ Reserved(c) \in Nat /\ Debt(c) \in Nat /\ O = B + P - 1
  BY MoneyTypes DEF Overshoot
<1>2. Refusing(c) = {}
  BY DEF Reload, Refusing
<1>3. Debt(c) = 0
  <2>1. Cardinality(Refusing(c)) = 0
    BY <1>2, FS_EmptySet
  <2>2. QED BY <1>t, <2>1 DEF Debt
<1>4. Reserved(c)' = Reserved(c) /\ Debt(c)' = 0 /\ Overshoot(c)' = O
  BY <1>1, <1>3, ReservedKept, DebtKept DEF Overshoot
<1>5. Reserved(c) <= (k + 1) * O
  BY DEF Money, Books, Bounded
<1>6. (k + 1) * O \in Nat /\ (k + 1 + 1) * O = (k + 1) * O + O
  BY <1>t
<1>7. counter'[c] = B
  BY <1>1
<1>8. Ledger(c)'
  BY <1>t, <1>1, <1>4, <1>5, <1>6, <1>7 DEF Ledger
<1>9. Bounded(c)'
  <2>1. Reserved(c) <= (k + 1 + 1) * O
    BY <1>t, <1>5, <1>6
  <2>2. QED BY <1>1, <1>4, <2>1 DEF Bounded
<1>10. Dip(c)'
  BY <1>t, <1>4, <1>7 DEF Dip
<1>11. Exact(c)'
  BY <1>t, <1>1 DEF Exact
<1>12. QED BY <1>8, <1>9, <1>10, <1>11 DEF Books

(* Every step of the bid path keeps the ledgers.                           *)
LEMMA MoneyStep == TypeOK /\ Settled /\ Money /\ [Next]_vars => Money'
<1> SUFFICES ASSUME TypeOK, Settled, Money, [Next]_vars PROVE Money'
  OBVIOUS
<1>1. ASSUME UNCHANGED <<counter, held, undo, reloads>> PROVE Money'
  BY <1>1, ReservedKept, DebtKept DEF Money, Books, Ledger, Bounded, Dip, Exact, Overshoot
<1>2. ASSUME NEW r \in Requests,
             \/ DeadlineExceeded(r) \/ ValidateRequest(r) \/ EnrichUser(r)
             \/ RetrieveCandidates(r) \/ LimitCandidates(r) \/ ScoreCandidates(r)
             \/ FreqCap(r) \/ BeginPacing(r)
      PROVE  Money'
  BY <1>1, <1>2 DEF DeadlineExceeded, ValidateRequest, EnrichUser, RetrieveCandidates,
                    LimitCandidates, ScoreCandidates, FreqCap, BeginPacing, loop
<1>3. ASSUME NEW r \in Requests,
             \/ EndPacing(r) \/ BeginRanking(r) \/ EndRanking(r) \/ BuildResponse(r)
             \/ Handle(r) \/ HttpTimeout(r)
      PROVE  Money'
  BY <1>1, <1>3 DEF EndPacing, BeginRanking, EndRanking, BuildResponse, Handle,
                    HttpTimeout, Answer, loop
<1>4. CASE UNCHANGED vars
  BY <1>1, <1>4 DEF vars, loop
<1>5. QED
  BY <1>2, <1>3, <1>4, MoneyReserve, MoneyExhausted, MoneyRelease, MoneyReload
     DEF Next, Step

(* At the start a counter is the whole budget.                             *)
LEMMA InitMoney == Init => Money
<1> SUFFICES ASSUME Init, NEW c \in Campaigns PROVE Books(c)
  BY DEF Money
<1>1. HeldFor(c) = {} /\ Refusing(c) = {}
  BY DEF Init, HeldFor, Refusing
<1>2. Cardinality(HeldFor(c)) = 0 /\ Cardinality(Refusing(c)) = 0
  BY <1>1, FS_EmptySet
<1>3. TypeOK
  BY InitInv
<1>4. Reserved(c) = 0 /\ Debt(c) = 0
  BY <1>2, <1>3, MoneyTypes DEF Debt
<1>5. Ledger(c) /\ Bounded(c) /\ Dip(c)
  BY <1>3, <1>4, MoneyTypes, SMTT(30) DEF Init, Ledger, Bounded, Dip, Overshoot
<1>6. Exact(c)
  BY <1>3, <1>4, MoneyTypes DEF Init, Exact
<1>7. QED BY <1>5, <1>6 DEF Books

-----------------------------------------------------------------------------
(* All of it holds in every reachable state.                               *)
LEMMA Inductive == Spec => [](TypeOK /\ Settled /\ Money)
<1>1. QED BY InitInv, InitMoney, SettledStep, MoneyStep, PTL DEF Spec

(* The nine stages and the handler keep their types; only candidates win.  *)
THEOREM PipelineTypeCorrect == Spec => []TypeOK
<1>1. QED BY Inductive, PTL

(* RankingStage and BudgetPacingStage: an answer leaves a request with     *)
(* exactly its winning reservations, or none, for any number of requests,  *)
(* impressions and campaigns.                                              *)
THEOREM ReservationsSettle == Spec => []SettledReservations
<1>1. Settled => SettledReservations
  BY DEF Settled, Progress, DoneOK, SettledReservations
<1>2. QED BY Inductive, <1>1, PTL

(* handlers::bid never reaches its unreachable! nor a bid without a        *)
(* response, whichever stage ends the pipeline.                            *)
THEOREM HandlerSafe == Spec => []HandlerSeesOutcome
<1>1. Settled => HandlerSeesOutcome
  BY DEF Settled, Progress, HandlerOK, HandlerSeesOutcome
<1>2. QED BY Inductive, <1>1, PTL

(* check_and_reserve: however many requests race for a budget, what they   *)
(* hold exceeds it by less than one bid each time it is seeded.            *)
THEOREM BudgetHolds == Spec => []OneBidOvershoot
<1>1. TypeOK /\ Money => OneBidOvershoot
  BY DEF Money, Books, Bounded, Overshoot, OneBidOvershoot
<1>2. QED BY Inductive, <1>1, PTL

(* check_and_reserve: the transient dip of a counter is less than one bid  *)
(* and one for each request between its fetch_sub and its fetch_add.       *)
THEOREM DipIsBounded == Spec => []BoundedDip
<1>1. TypeOK /\ Money => BoundedDip
  <2> SUFFICES ASSUME TypeOK, Money, NEW c \in Campaigns
               PROVE  counter[c] > -(Price[c] * (1 + InTransit(c)))
    BY DEF BoundedDip
  <2>1. InTransit(c) = Cardinality(Refusing(c)) /\ InTransit(c) \in Nat
    BY Finite DEF InTransit, Refusing
  <2>2. Price[c] * (1 + InTransit(c)) = Price[c] + Debt(c)
    BY <2>1, MoneyTypes DEF Debt
  <2>3. QED BY <2>2 DEF Money, Books, Dip
<1>2. QED BY Inductive, <1>1, PTL

-----------------------------------------------------------------------------
(* Where the budget went                                                   *)

(* The bids of a campaign in 200 responses: what spent adds up.            *)
BidFor(c) ==
    {p \in Requests \X Slots : status[p[1]] = 200 /\ p[2] \in winners[p[1]] /\ p[2][2] = c}

SpentOnBids == \A c \in Campaigns : spent[c] = Price[c] * Cardinality(BidFor(c))

(* A part of the slots of the requests can be counted.                     *)
LEMMA CountSlots ==
    ASSUME NEW S \in SUBSET (Requests \X Slots)
    PROVE  IsFiniteSet(S) /\ Cardinality(S) \in Nat
<1>1. IsFiniteSet(Requests \X Slots)
  BY SlotsFinite, FS_Product, RequestAssumption DEF RequestAssumption
<1>2. QED BY <1>1, FS_Subset, FS_CardinalityType

(* Two parts without a common slot add up.                                 *)
LEMMA AddUp ==
    ASSUME NEW S \in SUBSET (Requests \X Slots), NEW T \in SUBSET (Requests \X Slots),
           S \cap T = {}
    PROVE  Cardinality(S \cup T) = Cardinality(S) + Cardinality(T)
<1>1. IsFiniteSet(S) /\ IsFiniteSet(T) /\ Cardinality(S) \in Nat /\ Cardinality(T) \in Nat
  BY CountSlots
<1>2. Cardinality(S \cap T) = 0
  BY FS_EmptySet
<1>3. Cardinality(S \cup T) = Cardinality(S) + Cardinality(T) - Cardinality(S \cap T)
  BY <1>1, FS_Union
<1>4. QED BY <1>1, <1>2, <1>3

(* Multiplication is distributive.                                         *)
LEMMA TimesSum ==
    ASSUME NEW a \in Int, NEW b \in Int, NEW p \in Int PROVE p * (a + b) = p * a + p * b
  OBVIOUS

(* No step but a 200 response adds a bid or takes one away.                *)
LEMMA BidsKept ==
    ASSUME SpentOnBids, UNCHANGED spent,
           \A q \in Requests : /\ status'[q] = 200 <=> status[q] = 200
                               /\ status[q] = 200 => winners'[q] = winners[q]
    PROVE  SpentOnBids'
<1> SUFFICES ASSUME NEW c \in Campaigns
             PROVE  spent'[c] = Price[c] * Cardinality(BidFor(c)')
  BY DEF SpentOnBids
<1>1. BidFor(c)' = BidFor(c)
  BY DEF BidFor
<1>2. QED BY <1>1 DEF SpentOnBids

(* A 200 response adds the winners of its request.                         *)
LEMMA BidAdded ==
    ASSUME TypeOK, SpentOnBids, NEW r \in Requests, status[r] # 200, UNCHANGED winners,
           status' = [status EXCEPT ![r] = 200],
           spent' = [c \in Campaigns |-> spent[c] + BidCents(r, c)]
    PROVE  SpentOnBids'
<1> SUFFICES ASSUME NEW c \in Campaigns
             PROVE  spent'[c] = Price[c] * Cardinality(BidFor(c)')
  BY DEF SpentOnBids
<1> DEFINE W == {x \in winners[r] : x[2] = c}
           New == {r} \X W
<1>1. W \in SUBSET Slots
  BY DEF TypeOK
<1>2. /\ New \in SUBSET (Requests \X Slots) /\ BidFor(c) \in SUBSET (Requests \X Slots)
      /\ BidFor(c) \cap New = {}
  BY <1>1 DEF BidFor
<1>3. BidFor(c)' = BidFor(c) \cup New
  <2>1. status'[r] = 200 /\ \A q \in Requests \ {r} : status'[q] = status[q]
    BY DEF TypeOK
  <2>2. ASSUME NEW p \in Requests \X Slots
        PROVE  p \in BidFor(c)' <=> p \in BidFor(c) \cup New
    <3>1. CASE p[1] = r
      BY <2>1, <3>1 DEF BidFor
    <3>2. CASE p[1] # r
      BY <2>1, <3>2 DEF BidFor
    <3>3. QED BY <3>1, <3>2
  <2>3. BidFor(c)' \in SUBSET (Requests \X Slots)
    BY DEF BidFor
  <2>4. QED BY <1>2, <2>2, <2>3
<1>4. Cardinality(New) = Cardinality(W) /\ Cardinality(W) \in Nat
  <2>1. IsFiniteSet(W) /\ Cardinality(W) \in Nat
    BY <1>1, SlotsFinite, FS_Subset, FS_CardinalityType
  <2>2. IsFiniteSet({r}) /\ Cardinality({r}) = 1
    BY FS_Singleton, ZenonT(30)
  <2>3. Cardinality(New) = Cardinality({r}) * Cardinality(W)
    BY <2>1, <2>2, FS_Product
  <2>4. QED BY <2>1, <2>2, <2>3
<1>5. Price[c] \in Int /\ Cardinality(BidFor(c)) \in Int
  BY <1>2, CountSlots, MoneyTypes
<1>6. Cardinality(BidFor(c)') = Cardinality(BidFor(c)) + Cardinality(W)
  BY <1>2, <1>3, <1>4, AddUp
<1>7. spent'[c] = spent[c] + Cardinality(W) * Price[c]
  BY DEF BidCents
<1>8. spent[c] = Price[c] * Cardinality(BidFor(c))
  BY DEF SpentOnBids
<1> HIDE DEF W
<1>9. Price[c] * Cardinality(BidFor(c)')
          = Price[c] * Cardinality(BidFor(c)) + Price[c] * Cardinality(W)
  BY <1>4, <1>5, <1>6, TimesSum
<1>10. QED BY <1>4, <1>5, <1>7, <1>8, <1>9

(* Every step of the bid path keeps the account of the bids.               *)
LEMMA SpentStep == TypeOK /\ Settled /\ SpentOnBids /\ [Next]_vars => SpentOnBids'
<1> SUFFICES ASSUME TypeOK, Settled, SpentOnBids, [Next]_vars PROVE SpentOnBids'
  OBVIOUS
<1>1. ASSUME UNCHANGED <<winners, status, spent>> PROVE SpentOnBids'
  BY <1>1, BidsKept
<1>2. ASSUME NEW r \in Requests,
             \/ DeadlineExceeded(r) \/ ValidateRequest(r) \/ EnrichUser(r)
             \/ RetrieveCandidates(r) \/ LimitCandidates(r) \/ ScoreCandidates(r)
             \/ FreqCap(r) \/ BeginPacing(r)
      PROVE  SpentOnBids'
  BY <1>1, <1>2, ZenonT(30) DEF DeadlineExceeded, ValidateRequest, EnrichUser, RetrieveCandidates,
                    LimitCandidates, ScoreCandidates, FreqCap, BeginPacing, ctx
<1>3. ASSUME NEW r \in Requests,
             \/ CheckAndReserve(r) \/ Exhausted(r) \/ EndPacing(r) \/ Release(r)
             \/ EndRanking(r) \/ BuildResponse(r)
      PROVE  SpentOnBids'
  BY <1>1, <1>3, ZenonT(30) DEF CheckAndReserve, Exhausted, EndPacing, Release, EndRanking,
                    BuildResponse, ctx
<1>4. ASSUME NEW r \in Requests, BeginRanking(r) PROVE SpentOnBids'
  <2>1. status[r] = 0
    BY <1>4, ZenonT(30) DEF BeginRanking, Settled, Progress, DoneOK
  <2>2. UNCHANGED <<status, spent>>
    BY <1>4, ZenonT(30) DEF BeginRanking
  <2>3. PICK w : winners' = [winners EXCEPT ![r] = w]
    BY <1>4, ZenonT(30) DEF BeginRanking
  <2>4. \A q \in Requests \ {r} : winners'[q] = winners[q]
    BY <2>3 DEF TypeOK
  <2>5. QED BY <2>1, <2>2, <2>4, BidsKept
<1>5. ASSUME NEW r \in Requests, Handle(r) \/ HttpTimeout(r) PROVE SpentOnBids'
  <2>1. status[r] = 0 /\ UNCHANGED winners
    BY <1>5 DEF Handle, HttpTimeout, Awaits, Answer, ctx, Settled, Progress, DoneOK
  <2>2. CASE Answer(r, 200) /\ spent' = [c \in Campaigns |-> spent[c] + BidCents(r, c)]
    <3>1. status' = [status EXCEPT ![r] = 200] /\ status[r] # 200
      BY <2>1, <2>2 DEF Answer
    <3>2. QED BY <2>1, <2>2, <3>1, BidAdded, ZenonT(30)
  <2>3. ASSUME NEW code \in {204, 500, 503}, Answer(r, code), UNCHANGED spent
        PROVE  SpentOnBids'
    <3>1. status'[r] = code /\ \A q \in Requests \ {r} : status'[q] = status[q]
      BY <2>3 DEF Answer, TypeOK
    <3>2. QED BY <2>1, <2>3, <3>1, BidsKept
  <2>4. QED BY <1>5, <2>2, <2>3 DEF Handle, HttpTimeout
<1>6. CASE Reload \/ UNCHANGED vars
  BY <1>1, <1>6 DEF Reload, vars, ctx
<1>7. QED BY <1>2, <1>3, <1>4, <1>5, <1>6 DEF Next, Step

(* Once all are answered, what is held was bid or leaked.                  *)
LEMMA HeldIsBidOrLeaked ==
    ASSUME TypeOK, Settled, \A r \in Requests : at[r] = "done", NEW c \in Campaigns
    PROVE  HeldFor(c) = BidFor(c) \cup Leaked(c) /\ BidFor(c) \cap Leaked(c) = {}
<1>1. ASSUME NEW r \in Requests
      PROVE  /\ status[r] = 200 => held[r] = winners[r]
             /\ status[r] # 200 /\ r \notin Droppable => held[r] = {}
  BY DEF Settled, Progress, DoneOK, TypeOK
<1>2. ASSUME NEW p \in Requests \X Slots
      PROVE  p \in HeldFor(c) <=> p \in BidFor(c) \cup Leaked(c)
  <2>1. p[1] \in Requests
    OBVIOUS
  <2>2. CASE status[p[1]] = 200
    BY <1>1, <2>1, <2>2 DEF HeldFor, BidFor, Leaked
  <2>3. CASE status[p[1]] # 200
    BY <1>1, <2>1, <2>3 DEF HeldFor, BidFor, Leaked
  <2>4. QED BY <2>2, <2>3
<1>3. HeldFor(c) \subseteq Requests \X Slots /\ BidFor(c) \cup Leaked(c) \subseteq Requests \X Slots
  BY DEF HeldFor, BidFor, Leaked
<1>4. BidFor(c) \cap Leaked(c) = {}
  BY DEF BidFor, Leaked
<1>5. QED BY <1>2, <1>3, <1>4

(* check_and_reserve, release and the early exits of the pipeline: until   *)
(* the next refresh, with all requests answered, a counter lacks what was  *)
(* bid in 200 responses and what requests stopped on the way still hold,   *)
(* to the cent, for any requests, impressions, campaigns and prices.       *)
THEOREM LeaksAreExplained == Spec => []LeaksExplained
<1>1. Init => SpentOnBids
  <2> SUFFICES ASSUME Init, NEW c \in Campaigns
               PROVE  spent[c] = Price[c] * Cardinality(BidFor(c))
    BY DEF SpentOnBids
  <2>1. BidFor(c) = {} /\ spent[c] = 0
    BY DEF Init, BidFor
  <2>2. Cardinality(BidFor(c)) = 0 /\ Price[c] \in Int
    BY <2>1, FS_EmptySet, BudgetAssumption DEF BudgetAssumption
  <2>3. QED BY <2>1, <2>2
<1>2. Spec => []SpentOnBids
  BY <1>1, Inductive, SpentStep, PTL DEF Spec
<1>3. TypeOK /\ Settled /\ Money /\ SpentOnBids => LeaksExplained
  <2> SUFFICES ASSUME TypeOK, Settled, Money, SpentOnBids, reloads = 0,
                      \A r \in Requests : at[r] = "done", NEW c \in Campaigns
               PROVE  counter[c] = DailyBudget[c] - spent[c] - Price[c] * Cardinality(Leaked(c))
    BY DEF LeaksExplained
  <2>1. Debt(c) = 0
    <3>1. Refusing(c) = {}
      BY DEF Refusing, Settled, Progress
    <3>2. Cardinality(Refusing(c)) = 0
      BY <3>1, FS_EmptySet
    <3>3. QED BY <3>2, MoneyTypes DEF Debt
  <2>2. counter[c] + Reserved(c) + Debt(c) = DailyBudget[c]
    BY DEF Money, Books, Exact
  <2>3. BidFor(c) \in SUBSET (Requests \X Slots) /\ Leaked(c) \in SUBSET (Requests \X Slots)
    BY DEF BidFor, Leaked
  <2>4. Cardinality(HeldFor(c)) = Cardinality(BidFor(c)) + Cardinality(Leaked(c))
    BY <2>3, HeldIsBidOrLeaked, AddUp
  <2>5. /\ Reserved(c) = Price[c] * Cardinality(HeldFor(c))
        /\ spent[c] = Price[c] * Cardinality(BidFor(c))
        /\ Price[c] \in Int /\ counter[c] \in Int /\ DailyBudget[c] \in Int
    BY MoneyTypes DEF SpentOnBids
  <2>6. Cardinality(BidFor(c)) \in Int /\ Cardinality(Leaked(c)) \in Int
    BY <2>3, CountSlots
  <2>7. Reserved(c) = spent[c] + Price[c] * Cardinality(Leaked(c))
    BY <2>4, <2>5, <2>6, TimesSum
  <2>8. spent[c] \in Int /\ Price[c] * Cardinality(Leaked(c)) \in Int
    BY <2>5, <2>6 DEF TypeOK
  <2>9. QED BY <2>1, <2>2, <2>5, <2>7, <2>8
<1>4. QED BY <1>2, <1>3, Inductive, PTL

-----------------------------------------------------------------------------
(* The pacer implements the account                                        *)

(* What is left is the counter and what is owed to it.                     *)
LEMMA LeftIs ==
    /\ DOMAIN Left = Campaigns /\ Left = [c \in Campaigns |-> Left[c]]
    /\ \A c \in Campaigns : Left[c] = counter[c] + Debt(c)
  BY DEF Left, Debt, InTransit, Refusing

(* The same after a step.                                                  *)
LEMMA LeftNext ==
    /\ DOMAIN Left' = Campaigns /\ Left' = [c \in Campaigns |-> Left'[c]]
    /\ \A c \in Campaigns : Left'[c] = counter'[c] + Debt(c)'
  BY DEF Left, Debt, InTransit, Refusing

(* The same money in the same accounts.                                    *)
LEMMA LeftKept ==
    ASSUME \A c \in Campaigns : counter'[c] + Debt(c)' = counter[c] + Debt(c)
    PROVE  Left' = Left
<1>1. \A c \in Campaigns : Left'[c] = Left[c]
  BY LeftIs, LeftNext
<1>2. QED BY <1>1, LeftIs, LeftNext

(* The account of one campaign goes up or down, the others stay.           *)
LEMMA LeftMoves ==
    ASSUME NEW d \in Campaigns, NEW n,
           counter'[d] + Debt(d)' = n,
           \A c \in Campaigns \ {d} : counter'[c] + Debt(c)' = counter[c] + Debt(c)
    PROVE  Left' = [Left EXCEPT ![d] = n]
<1>1. Left'[d] = n /\ \A c \in Campaigns \ {d} : Left'[c] = Left[c]
  BY LeftIs, LeftNext
<1>2. QED BY <1>1, LeftIs, LeftNext

(* A reservation that succeeds is one of the account, a refused one is not *)
(* seen there.                                                             *)
LEMMA AccountReserve ==
    ASSUME TypeOK, Settled, NEW r \in Requests, CheckAndReserve(r)
    PROVE  (\E x \in Slots : Account!Reserve(r, x)) \/ UNCHANGED <<Left, held>>
<1>1. PICK x \in NextSlots(r) :
          /\ counter' = [counter EXCEPT ![x[2]] = @ - Price[x[2]]]
          /\ \/ /\ counter[x[2]] > 0
                /\ held' = [held EXCEPT ![r] = @ \cup {x}] /\ UNCHANGED undo
             \/ /\ undo' = [undo EXCEPT ![r] = x] /\ UNCHANGED held
  BY ZenonT(30) DEF CheckAndReserve
<1>2. x \in Slots /\ x[2] \in Campaigns /\ x \notin held[r] /\ undo[r] = NoSlot
  BY NextSlotTyped, ReservesNew, ZenonT(30)
<1>3. \A c \in Campaigns : counter'[c] = IF x[2] = c THEN counter[c] - Price[c] ELSE counter[c]
  BY <1>1, <1>2 DEF TypeOK
<1>4. CASE counter[x[2]] > 0 /\ held' = [held EXCEPT ![r] = @ \cup {x}] /\ UNCHANGED undo
  <2>1. \A c \in Campaigns : Debt(c)' = Debt(c) /\ Debt(c) \in Int /\ counter[c] \in Int
    BY <1>4, DebtKept, MoneyTypes
  <2>2. /\ Left[x[2]] = counter[x[2]] + Debt(x[2])
        /\ counter[x[2]] \in Int /\ Debt(x[2]) \in Nat /\ Price[x[2]] \in Int
    BY <1>2, LeftIs, MoneyTypes
  <2>3. Left[x[2]] > 0
    BY <1>4, <2>2
  <2>4. counter'[x[2]] + Debt(x[2])' = Left[x[2]] - Price[x[2]]
    BY <1>2, <1>3, <2>1, <2>2
  <2>5. \A c \in Campaigns \ {x[2]} : counter'[c] + Debt(c)' = counter[c] + Debt(c)
    BY <1>3, <2>1
  <2>6. Left' = [Left EXCEPT ![x[2]] = Left[x[2]] - Price[x[2]]]
    BY <1>2, <2>4, <2>5, LeftMoves
  <2>7. Account!Reserve(r, x)
    BY <1>2, <1>4, <2>3, <2>6, ZenonT(30) DEF Account!Reserve
  <2>8. QED BY <1>2, <2>7, ZenonT(30)
<1>5. CASE undo' = [undo EXCEPT ![r] = x] /\ UNCHANGED held
  <2>1. ASSUME NEW c \in Campaigns PROVE counter'[c] + Debt(c)' = counter[c] + Debt(c)
    <3>1. Debt(c)' = IF x[2] = c THEN Debt(c) + Price[c] ELSE Debt(c)
      BY <1>2, <1>5, DebtGrows, ZenonT(30)
    <3>2. Debt(c) \in Int /\ counter[c] \in Int /\ Price[c] \in Int
      BY MoneyTypes
    <3>3. QED BY <1>3, <3>1, <3>2
  <2>2. QED BY <1>5, <2>1, LeftKept
<1>6. QED BY <1>1, <1>4, <1>5, ZenonT(30)

(* Nor is the fetch_add that follows the refusal.                          *)
LEMMA AccountExhausted ==
    ASSUME TypeOK, NEW r \in Requests, Exhausted(r) PROVE UNCHANGED <<Left, held>>
<1>1. /\ counter' = [counter EXCEPT ![undo[r][2]] = @ + Price[undo[r][2]]]
      /\ undo[r] # NoSlot /\ undo' = [undo EXCEPT ![r] = NoSlot] /\ UNCHANGED held
  BY DEF Exhausted
<1>2. ASSUME NEW c \in Campaigns PROVE counter'[c] + Debt(c)' = counter[c] + Debt(c)
  <2>1. counter'[c] = IF undo[r][2] = c THEN counter[c] + Price[c] ELSE counter[c]
    BY <1>1 DEF TypeOK
  <2>2. Debt(c)' = IF undo[r][2] = c THEN Debt(c) - Price[c] ELSE Debt(c)
    BY <1>1, DebtShrinks, ZenonT(30)
  <2>3. Debt(c) \in Int /\ counter[c] \in Int /\ Price[c] \in Int
    BY MoneyTypes
  <2>4. QED BY <2>1, <2>2, <2>3
<1>3. QED BY <1>1, <1>2, LeftKept

(* What ranking releases is held.                                          *)
LEMMA AccountRelease ==
    ASSUME TypeOK, Settled, NEW r \in Requests, Release(r)
    PROVE  \E x \in Slots : Account!GiveBack(r, x)
<1>1. PICK x \in NextSlots(r) :
          /\ counter' = [counter EXCEPT ![x[2]] = @ + Price[x[2]]]
          /\ held' = [held EXCEPT ![r] = @ \ {x}]
  BY ZenonT(30) DEF Release
<1>2. x \in Slots /\ x[2] \in Campaigns /\ x \in held[r] /\ UNCHANGED undo
  BY NextSlotTyped, ReleasesHeld DEF Release
<1>3. ASSUME NEW c \in Campaigns
      PROVE  /\ counter'[c] = IF x[2] = c THEN counter[c] + Price[c] ELSE counter[c]
             /\ Debt(c)' = Debt(c) /\ Debt(c) \in Int /\ counter[c] \in Int /\ Price[c] \in Int
  <2>1. counter'[c] = IF x[2] = c THEN counter[c] + Price[c] ELSE counter[c]
    BY <1>1 DEF TypeOK
  <2>2. Debt(c)' = Debt(c)
    BY <1>2, DebtKept
  <2>3. Debt(c) \in Int /\ counter[c] \in Int /\ Price[c] \in Int
    BY MoneyTypes
  <2>4. QED BY <2>1, <2>2, <2>3, ZenonT(30)
<1>4. counter'[x[2]] + Debt(x[2])' = Left[x[2]] + Price[x[2]]
  <2> DEFINE k == x[2]
  <2>1. k \in Campaigns /\ Left[k] = counter[k] + Debt(k)
    BY <1>2, LeftIs
  <2>2. /\ counter'[k] = counter[k] + Price[k]
        /\ Debt(k)' = Debt(k) /\ Debt(k) \in Int /\ counter[k] \in Int /\ Price[k] \in Int
    BY <1>3, <2>1, ZenonT(30)
  <2> HIDE DEF k
  <2>3. counter'[k] + Debt(k)' = Left[k] + Price[k]
    BY <2>1, <2>2
  <2>4. QED BY <2>3 DEF k
<1>5. \A c \in Campaigns \ {x[2]} : counter'[c] + Debt(c)' = counter[c] + Debt(c)
  BY <1>3
<1>6. Left' = [Left EXCEPT ![x[2]] = Left[x[2]] + Price[x[2]]]
  BY <1>2, <1>4, <1>5, LeftMoves
<1>7. QED BY <1>1, <1>2, <1>6, ZenonT(30) DEF Account!GiveBack

(* A refresh finds nothing pending, so the accounts are what it stores.    *)
LEMMA AccountReload == ASSUME TypeOK, Reload PROVE Account!Seed
<1>1. counter' = DailyBudget /\ UNCHANGED <<held, undo>>
  BY DEF Reload, loop
<1>2. ASSUME NEW c \in Campaigns PROVE Left'[c] = DailyBudget[c]
  <2>1. Refusing(c) = {}
    BY DEF Reload, Refusing
  <2>2. Cardinality(Refusing(c)) = 0
    BY <2>1, FS_EmptySet
  <2>3. Debt(c) = 0
    BY <2>2, MoneyTypes DEF Debt
  <2>4. Debt(c)' = 0
    BY <1>1, <2>3, DebtKept
  <2>5. QED BY <1>1, <2>4, LeftNext, MoneyTypes
<1>3. Left' = DailyBudget
  BY <1>2, LeftNext, BudgetAssumption DEF BudgetAssumption
<1>4. QED BY <1>1, <1>3 DEF Account!Seed

(* Every step of the bid path is one of the account, or leaves it alone.   *)
LEMMA AccountStep == TypeOK /\ Settled /\ [Next]_vars => [Account!Next]_<<Left, held>>
<1> SUFFICES ASSUME TypeOK, Settled, [Next]_vars PROVE [Account!Next]_<<Left, held>>
  OBVIOUS
<1>1. ASSUME UNCHANGED <<counter, undo, held>> PROVE UNCHANGED <<Left, held>>
  BY <1>1, DebtKept, LeftKept
<1>2. ASSUME NEW r \in Requests,
             \/ DeadlineExceeded(r) \/ ValidateRequest(r) \/ EnrichUser(r)
             \/ RetrieveCandidates(r) \/ LimitCandidates(r) \/ ScoreCandidates(r)
             \/ FreqCap(r) \/ BeginPacing(r)
      PROVE  UNCHANGED <<Left, held>>
  BY <1>1, <1>2, ZenonT(30) DEF DeadlineExceeded, ValidateRequest, EnrichUser, RetrieveCandidates,
                    LimitCandidates, ScoreCandidates, FreqCap, BeginPacing, loop
<1>3. ASSUME NEW r \in Requests,
             \/ EndPacing(r) \/ BeginRanking(r) \/ EndRanking(r) \/ BuildResponse(r)
             \/ Handle(r) \/ HttpTimeout(r)
      PROVE  UNCHANGED <<Left, held>>
  BY <1>1, <1>3 DEF EndPacing, BeginRanking, EndRanking, BuildResponse, Handle,
                    HttpTimeout, Answer, loop
<1>4. CASE UNCHANGED vars
  BY <1>1, <1>4 DEF vars, loop
<1>5. ASSUME NEW r \in Requests, CheckAndReserve(r) PROVE [Account!Next]_<<Left, held>>
  BY <1>5, AccountReserve DEF Account!Next
<1>6. ASSUME NEW r \in Requests, Release(r) PROVE Account!Next
  BY <1>6, AccountRelease DEF Account!Next
<1>7. CASE Reload
  BY <1>7, AccountReload DEF Account!Next
<1>8. QED BY <1>2, <1>3, <1>4, <1>5, <1>6, <1>7, AccountExhausted DEF Next, Step

(* check_and_reserve, release and reload implement the account: for any    *)
(* number of requests that race for a budget, a reservation takes its      *)
(* price off a budget that is not used up, a refusal leaves no trace, what *)
(* is released was held, and a refresh makes every budget whole.           *)
THEOREM PacerIsAtomic == Spec => AtomicBudget
<1>1. Init => Account!Init
  <2> SUFFICES ASSUME Init PROVE Account!Init
    OBVIOUS
  <2>1. TypeOK
    BY InitInv
  <2>2. ASSUME NEW c \in Campaigns PROVE Left[c] = DailyBudget[c]
    <3>1. Refusing(c) = {}
      BY DEF Init, Refusing
    <3>2. Cardinality(Refusing(c)) = 0
      BY <3>1, FS_EmptySet, ZenonT(30)
    <3>3. Debt(c) = 0
      BY <2>1, <3>2, MoneyTypes DEF Debt
    <3>4. QED BY <2>1, <3>3, LeftIs, MoneyTypes DEF Init
  <2>3. Left = DailyBudget
    BY <2>2, LeftIs, BudgetAssumption DEF BudgetAssumption
  <2>4. QED BY <2>3 DEF Init, Account!Init
<1>2. QED BY <1>1, Inductive, AccountStep, PTL DEF Spec, AtomicBudget, Account!Spec

=============================================================================
