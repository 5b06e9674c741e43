------------------------------ MODULE WinLedger ------------------------------
(***************************************************************************)
(* What the win path promises the billing side: a win has its side effects *)
(* (the WinEvent, the impression) at most once for each time that it was   *)
(* claimed.  A claim lasts for the dedup window; a notice that comes later *)
(* makes a new one.                                                        *)
(***************************************************************************)
EXTENDS Naturals

CONSTANT Wins

VARIABLES
    claims,     \* how often each win was claimed
    effects     \* how often it had its side effects

Init ==
    /\ claims = [w \in Wins |-> 0]
    /\ effects = [w \in Wins |-> 0]

Claim(w) ==
    /\ claims' = [claims EXCEPT ![w] = @ + 1]
    /\ UNCHANGED effects

Account(w) ==
    /\ effects[w] < claims[w]
    /\ effects' = [effects EXCEPT ![w] = @ + 1]
    /\ UNCHANGED claims

Next == \E w \in Wins : Claim(w) \/ Account(w)

Spec == Init /\ [][Next]_<<claims, effects>>

=============================================================================
