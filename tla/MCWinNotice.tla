----------------------------- MODULE MCWinNotice -----------------------------
(* A small instance of WinNotice for TLC: two exchanges, one with a secret  *)
(* of its own and one without.  One win is notified twice, the other once.  *)
EXTENDS WinNotice

CONSTANT w1

MCExchange == [w \in Wins |-> IF w = w1 THEN "keyed" ELSE "plain"]

MCNotices == [w \in Wins |-> IF w = w1 THEN 2 ELSE 1]

=============================================================================
