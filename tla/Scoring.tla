------------------------------ MODULE Scoring ------------------------------
(***************************************************************************)
(* Scoring a request: the tree of scorers main.rs builds from the          *)
(* [scoring] section, and the score_all of ScoringStage, ABTestScorer,     *)
(* CascadeScorer, FeatureWeightedScorer and MLScorer, while the models     *)
(* behind the ml leaves are reloaded (ModelReload).                        *)
(*                                                                         *)
(* A score is where it comes from: the linear formula, or the model        *)
(* content that computed it.  Locking a session, running it and unlocking  *)
(* it is one step: the lock is not held across an await.                   *)
(***************************************************************************)
EXTENDS ModelReload, Integers, FiniteSets, SequencesExt

CONSTANTS
    Requests,       \* requests in scoring at the same time
    Configs,        \* the [scoring] sections
    Users,          \* identified users, each named by its hash bucket
    Anonymous,      \* no user.id
    Candidates,     \* (campaign_id, creative_id) pairs
    Asked,          \* for a request, the candidates of each impression
    FwScore,        \* FwScore[c]: the linear formula's score
    MlScore(_, _),  \* MlScore(n, c): the score of the model with stamp n
    MaxBatch        \* MLScorerConfig::max_batch

ASSUME ScoringAssumption ==
    /\ MaxBatch \in Nat \ {0}
    /\ FwScore \in [Candidates -> Int]
    /\ \A n \in 1..MaxStamp, c \in Candidates : MlScore(n, c) \in Int
    /\ Asked \subseteq Seq({s \in Seq(Candidates) : IsInjective(s)})
    /\ \A cfg \in Configs : cfg.cascade.top_k \in Nat /\ cfg.cascade.threshold \in Int

VARIABLES
    config,     \* the [scoring] section the process was started with
    req         \* each request's progress through ScoringStage

scoringVars == <<config, req>>
vars == <<reloadVars, scoringVars>>

-----------------------------------------------------------------------------
(* build_scorer_root and its helpers.  An ml leaf carries its place in the *)
(* tree: each is an MLScorer of its own.                                   *)

Bad == [scorer |-> "error"]
Fw == [scorer |-> "feature_weighted"]

BuildMl(cfg, at) == IF cfg.ml THEN [scorer |-> "ml", at |-> at] ELSE Bad

BuildLeaf(cfg, kind, at) ==
    CASE kind = "feature_weighted" -> Fw
      [] kind = "ml" -> BuildMl(cfg, at)
      [] OTHER -> Bad

BuildCascade(cfg, at) ==
    LET one == BuildLeaf(cfg, cfg.cascade.stage1, Append(at, "stage1"))
        two == BuildLeaf(cfg, cfg.cascade.stage2, Append(at, "stage2"))
    IN  IF ~cfg.cascade.on \/ Bad \in {one, two}
           THEN Bad
           ELSE [scorer |-> "cascade", stage1 |-> one, stage2 |-> two,
                 top_k |-> cfg.cascade.top_k, threshold |-> cfg.cascade.threshold]

BuildLeafOrCascade(cfg, kind, at) ==
    IF kind = "cascade" THEN BuildCascade(cfg, at) ELSE BuildLeaf(cfg, kind, at)

BuildAbTest(cfg) ==
    LET control == BuildLeafOrCascade(cfg, cfg.ab_test.control, <<"control">>)
        treatment == BuildLeafOrCascade(cfg, cfg.ab_test.treatment, <<"treatment">>)
    IN  IF ~cfg.ab_test.on \/ Bad \in {control, treatment}
           THEN Bad
           ELSE [scorer |-> "ab_test", control |-> control, treatment |-> treatment,
                 share |-> cfg.ab_test.share]

BuildScorerRoot(cfg) ==
    IF cfg.kind = "ab_test" THEN BuildAbTest(cfg)
                            ELSE BuildLeafOrCascade(cfg, cfg.kind, <<>>)

Tree == BuildScorerRoot(config)

(* The ml leaves, in the order they are built.                             *)
LeafModels(t) == IF t.scorer = "ml" THEN <<t.at>> ELSE <<>>
ArmModels(t) ==
    IF t.scorer = "cascade" THEN LeafModels(t.stage1) \o LeafModels(t.stage2)
                            ELSE LeafModels(t)
TreeModels(t) ==
    IF t.scorer = "ab_test" THEN ArmModels(t.control) \o ArmModels(t.treatment)
                            ELSE ArmModels(t)
Models == TreeModels(Tree)

ASSUME ScorersAssumption ==
    \A cfg \in Configs : 1..Len(TreeModels(BuildScorerRoot(cfg))) \subseteq Scorers

(* MLScorers are numbered in that order.                                   *)
Number(leaf) == CHOOSE i \in 1..Len(Models) : Models[i] = leaf.at

Serving == Tree # Bad /\ \A i \in 1..Len(Models) : boot[i] = "up"

(* The next leaf is constructed; the first error ends the process.         *)
BuildNext ==
    \E i \in 1..Len(Models) :
        /\ \A j \in 1..(i - 1) : boot[j] = "up"
        /\ BeginLoad(i)
        /\ UNCHANGED scoringVars

-----------------------------------------------------------------------------
(* A request in ScoringStage::execute                                      *)

Unscored == [by |-> "none", stamp |-> 0]
Linear == [by |-> "fw", stamp |-> 0]
Inferred(n) == [by |-> "ml", stamp |-> n]
NoScores == [c \in Candidates |-> Unscored]
NoSession == [stamp |-> 0, kind |-> "absent"]

(* pc: "imp" between two impressions (batch and score are then those of    *)
(* the last one scored), "call" where a leaf goes on with its batch, "run" *)
(* with a session picked.                                                  *)
Idle == [pc |-> "idle", user |-> Anonymous, todo |-> <<>>, stage |-> 0,
         batch |-> <<>>, at |-> 0, session |-> NoSession,
         work |-> NoScores, score |-> NoScores, advanced |-> {}]

Init ==
    /\ ReloadInit
    /\ config \in Configs
    /\ req = [r \in Requests |-> Idle]

Value(c, sc) == CASE sc.by = "none" -> 0
                  [] sc.by = "fw" -> FwScore[c]
                  [] sc.by = "ml" -> MlScore(sc.stamp, c)

(* ABTestScorer::pick_arm; shares and buckets in 1/10000.                  *)
PickArm(t, user) ==
    CASE user = Anonymous \/ t.share <= 0 -> t.control
      [] user # Anonymous /\ t.share >= 10000 -> t.treatment
      [] OTHER -> IF user < t.share THEN t.treatment ELSE t.control

(* The scorer under the root that scores for this request, and the leaf    *)
(* of it that runs in a stage.                                             *)
Arm(q) == IF Tree.scorer = "ab_test" THEN PickArm(Tree, q.user) ELSE Tree
Leaf(q) == IF Arm(q).scorer # "cascade" THEN Arm(q)
           ELSE IF q.stage = 1 THEN Arm(q).stage1 ELSE Arm(q).stage2

Arrive(r) ==
    /\ Serving /\ req[r].pc = "idle"
    /\ \E user \in Users \cup {Anonymous}, todo \in Asked :
          req' = [req EXCEPT ![r] = [Idle EXCEPT !.pc = "imp", !.user = user, !.todo = todo]]
    /\ UNCHANGED <<reloadVars, config>>

(* The next impression; one without candidates is passed over.             *)
NextImp(r) ==
    LET q == req[r] IN
    /\ q.pc = "imp"
    /\ req' = [req EXCEPT ![r] =
          IF q.todo = <<>> THEN Idle
          ELSE [Idle EXCEPT !.user = q.user, !.todo = Tail(q.todo),
                            !.pc = IF Head(q.todo) = <<>> THEN "imp" ELSE "call",
                            !.stage = 1, !.batch = Head(q.todo)]]
    /\ UNCHANGED <<reloadVars, config>>

(* The HTTP timeout drops the request where it awaits a session.           *)
Drop(r) ==
    /\ req[r].pc = "run"
    /\ req' = [req EXCEPT ![r] = Idle]
    /\ UNCHANGED <<reloadVars, config>>

-----------------------------------------------------------------------------
(* CascadeScorer::score_all                                                *)

(* The elements of a finite set in the order in which ahead[x] are those   *)
(* that come before x.                                                     *)
InOrder(S, ahead) ==
    CHOOSE f \in SetToSeqs(S) : \A i, j \in DOMAIN f : i < j => f[i] \in ahead[f[j]]

(* Mutant: without the sort the first to arrive go ahead.                  *)
AheadByArrival(batch, score, i, j) == i < j

(* A stable sort by descending stage-1 score, of places in the batch.      *)
Ahead(batch, score, i, j) ==
    LET V(k) == Value(batch[k], score[batch[k]])
    IN  V(i) > V(j) \/ (V(i) = V(j) /\ i < j)

(* advance_keys: those at the threshold or above, the first top_k of them. *)
AdvanceKeys(t, batch, score) ==
    LET passed == {i \in DOMAIN batch : Value(batch[i], score[batch[i]]) >= t.threshold}
        sorted == InOrder(passed, [i \in passed |-> {j \in passed : Ahead(batch, score, j, i)}])
    IN  {batch[sorted[n]] : n \in {m \in DOMAIN sorted : t.top_k > 0 => m <= t.top_k}}

(* A leaf returns to its caller with the scores it wrote.  After stage 1   *)
(* of a cascade the advance set goes on to stage 2 as a batch of clones;   *)
(* after stage 2 the clones' scores are written back by key.               *)
Return(q, work) ==
    LET keys == AdvanceKeys(Arm(q), q.batch, work)
        done == [q EXCEPT !.pc = "imp", !.session = NoSession, !.work = NoScores]
    IN  IF q.stage = 2
        THEN [done EXCEPT !.score = [c \in Candidates |->
                                        IF c \in q.advanced THEN work[c] ELSE q.score[c]]]
        ELSE IF Arm(q).scorer = "cascade" /\ keys # {}
        THEN [q EXCEPT !.pc = "call", !.session = NoSession, !.at = 0, !.stage = 2,
                       !.work = [c \in Candidates |->
                                    IF c \in keys THEN work[c] ELSE Unscored],
                       !.score = work, !.advanced = keys]
        ELSE [done EXCEPT !.score = work]

(* The clones of the advance set, in the order of the batch.               *)
Clones(q) ==
    LET kept == {i \in DOMAIN q.batch : q.batch[i] \in q.advanced}
        places == InOrder(kept, [i \in kept |-> {j \in kept : j < i}])
    IN  [n \in DOMAIN places |-> q.batch[places[n]]]

(* The batch of the leaf that runs: everyone, or in stage 2 the clones.    *)
Batch(q) == IF q.stage = 2 THEN Clones(q) ELSE q.batch

(* FeatureWeightedScorer::score_all over a batch.                          *)
ScoreLinear(work, batch) ==
    [c \in Candidates |-> IF c \in ToSet(batch) THEN Linear ELSE work[c]]

CallLinear(r) ==
    LET q == req[r] IN
    /\ q.pc = "call" /\ Leaf(q) = Fw
    /\ req' = [req EXCEPT ![r] = Return(q, ScoreLinear(q.work, Batch(q)))]
    /\ UNCHANGED <<reloadVars, config>>

-----------------------------------------------------------------------------
(* MLScorer::score_all: chunks of max_batch, each on the snapshot current  *)
(* when the chunk begins                                                   *)

PickSession(r) ==
    LET q == req[r] IN
    /\ q.pc = "call" /\ Leaf(q).scorer = "ml"
    /\ Pick(Number(Leaf(q)))
    /\ req' = [req EXCEPT ![r].pc = "run", ![r].session = Picked(Number(Leaf(q)))]
    /\ UNCHANGED config

End(q) == IF q.at + MaxBatch < Len(Batch(q)) THEN q.at + MaxBatch ELSE Len(Batch(q))
Chunk(q) == SubSeq(Batch(q), q.at + 1, End(q))

RunChunk(r) ==
    LET q == req[r]
        work == [c \in Candidates |->
                    IF c \in ToSet(Chunk(q)) THEN Inferred(q.session.stamp) ELSE q.work[c]]
    IN
    /\ q.pc = "run" /\ q.session.kind = "good"
    /\ req' = [req EXCEPT ![r] =
          IF End(q) = Len(Batch(q))
             THEN Return(q, work)
             ELSE [q EXCEPT !.pc = "call", !.session = NoSession, !.work = work,
                            !.at = End(q)]]
    /\ UNCHANGED <<reloadVars, config>>

(* The fallback scores the chunk that failed and no other.                 *)
FallBackChunk(q) == ScoreLinear(q.work, Chunk(q))

(* A chunk fails: all scores of the batch go back to zero and the fallback *)
(* scores the whole batch.                                                 *)
FallBack(q) == ScoreLinear(NoScores, Batch(q))

ChunkFails(r) ==
    LET q == req[r] IN
    /\ q.pc = "run" /\ q.session.kind = "failing"
    /\ req' = [req EXCEPT ![r] = Return(q, FallBack(q))]
    /\ UNCHANGED <<reloadVars, config>>

-----------------------------------------------------------------------------
RequestStep(r) ==
    \/ NextImp(r) \/ CallLinear(r) \/ PickSession(r) \/ RunChunk(r) \/ ChunkFails(r)

Next ==
    \/ BuildNext
    \/ /\ \/ \E kind \in Kinds : WriteModel(kind)
          \/ \E s \in Scorers : Poll(s) \/ PollOther(s) \/ BootStep(s) \/ TaskStep(s)
       /\ UNCHANGED scoringVars
    \/ \E r \in Requests : Arrive(r) \/ RequestStep(r) \/ Drop(r)

Spec == Init /\ [][Next]_vars /\ ReloadFairness

-----------------------------------------------------------------------------
Scores == {Unscored, Linear} \cup {Inferred(n) : n \in 1..MaxStamp}

(* The models are typed, every request's place in its batch is inside it,  *)
(* and a request that runs holds a session its pool once had.              *)
TypeOK ==
    /\ ReloadTypeOK
    /\ config \in Configs
    /\ \A r \in Requests :
          /\ req[r].pc \in {"idle", "imp", "call", "run"}
          /\ req[r].at \in 0..Len(Batch(req[r]))
          /\ req[r].pc \in {"call", "run"} => Chunk(req[r]) # <<>>
          /\ req[r].pc = "run" => req[r].session \in Sessions
          /\ req[r].work \in [Candidates -> Scores]
          /\ req[r].score \in [Candidates -> Scores]

Scored(q) == q.pc = "imp" /\ q.batch # <<>>
Sources(q, cs) == {q.score[c].by : c \in cs}

(* MLScorer::score_all, "never emit a partial score": whatever chunk of    *)
(* whatever stage fails while models are swapped, the candidates one       *)
(* scorer was given are all scored, and all by the model or all by the     *)
(* fallback; those a cascade did not advance keep their stage-1 score.     *)
NoPartialScore ==
    \A r \in Requests : Scored(req[r]) =>
        LET q == req[r]
            left == ToSet(q.batch) \ q.advanced
        IN  /\ \A cs \in {left, q.advanced} : Cardinality(Sources(q, cs)) <= 1
            /\ "none" \notin Sources(q, ToSet(q.batch))

(* CascadeScorer: while stage 2 runs, those it was given are at or above   *)
(* the threshold, and nobody at or above it was left out except because    *)
(* top_k candidates scoring at least as high went ahead.  The stage-1      *)
(* scores may come from two models.                                        *)
CascadeAdvancesBest ==
    \A r \in Requests : (req[r].pc \in {"call", "run"} /\ req[r].stage = 2) =>
        LET q == req[r]
            V(c) == Value(c, q.score[c])
        IN  /\ \A c \in q.advanced : V(c) >= Arm(q).threshold
            /\ \A c \in ToSet(q.batch) \ q.advanced : V(c) >= Arm(q).threshold =>
                  /\ Cardinality(q.advanced) = Arm(q).top_k
                  /\ \A d \in q.advanced : V(d) >= V(c)

=============================================================================
