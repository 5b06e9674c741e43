----------------------------- MODULE MCScoring -----------------------------
(* Small instances of Scoring for TLC: the shapes of [scoring] that         *)
(* main.rs documents, with one ml leaf each, and five it refuses.           *)
EXTENDS Scoring

NoCascade == [on |-> FALSE, stage1 |-> "feature_weighted", stage2 |-> "feature_weighted",
              top_k |-> 0, threshold |-> 0]
NoAbTest == [on |-> FALSE, control |-> "feature_weighted", treatment |-> "feature_weighted",
             share |-> 0]
Section(kind) == [kind |-> kind, ml |-> TRUE, cascade |-> NoCascade, ab_test |-> NoAbTest]
CascadeOf(one, two, k, t) ==
    [on |-> TRUE, stage1 |-> one, stage2 |-> two, top_k |-> k, threshold |-> t]
AbTestOf(control, treatment, share) ==
    [on |-> TRUE, control |-> control, treatment |-> treatment, share |-> share]

MCConfigs ==
    {Section("feature_weighted"), Section("ml"),
     [Section("cascade") EXCEPT !.cascade = CascadeOf("feature_weighted", "ml", 3, 2)],
     [Section("cascade") EXCEPT !.cascade = CascadeOf("ml", "feature_weighted", 1, 1)],
     [Section("ab_test") EXCEPT !.cascade = CascadeOf("feature_weighted", "ml", 0, 3),
                                !.ab_test = AbTestOf("feature_weighted", "cascade", 5000)],
     \* refused
     Section("cascade"), Section("ab_test"),
     [Section("ml") EXCEPT !.ml = FALSE],
     [Section("cascade") EXCEPT !.cascade = CascadeOf("cascade", "ml", 0, 0)],
     [Section("ab_test") EXCEPT !.ab_test = AbTestOf("ab_test", "ml", 0)]}

MCAsked == {<< <<1, 2, 3>> >>, << <<>>, <<2, 3>> >>}
MCUsers == {100, 9000}
MCFwScore == [c \in 1..3 |-> c + 1]
MCMlScore(n, c) == (n + c) % 3
=============================================================================
