---------------------------- MODULE MCBidPipeline ----------------------------
(***************************************************************************)
(* The bid path on small instances: a campaign whose budget is two and a   *)
(* half bids, so that the last one overshoots, and a dearer one that can   *)
(* pay for a single bid.                                                   *)
(***************************************************************************)
EXTENDS BidPipeline

MCPrice == [c \in Campaigns |-> c + 1]
MCDailyBudget == [c \in Campaigns |-> IF c = 1 THEN 5 ELSE 3]

=============================================================================
