---------------------------- MODULE BudgetAccount ----------------------------
(***************************************************************************)
(* What the pacer promises the requests: the budget of a campaign is an    *)
(* account with atomic operations.  A reservation takes its price off an   *)
(* account that is not empty and is remembered; a refusal leaves no trace; *)
(* what is given back was reserved and is given back once; a refresh fills *)
(* every account.                                                          *)
(***************************************************************************)
EXTENDS Integers

CONSTANTS
    Requests, Slots,        \* a slot is an impression and a campaign
    Price, DailyBudget

VARIABLES
    left,       \* cents left of each campaign's budget
    held        \* the slots each request has reserved

Init ==
    /\ left = DailyBudget
    /\ held = [r \in Requests |-> {}]

Reserve(r, x) ==
    /\ left[x[2]] > 0
    /\ x \notin held[r]
    /\ left' = [left EXCEPT ![x[2]] = @ - Price[x[2]]]
    /\ held' = [held EXCEPT ![r] = @ \cup {x}]

GiveBack(r, x) ==
    /\ x \in held[r]
    /\ left' = [left EXCEPT ![x[2]] = @ + Price[x[2]]]
    /\ held' = [held EXCEPT ![r] = @ \ {x}]

Seed ==
    /\ left' = DailyBudget
    /\ UNCHANGED held

Next ==
    \/ \E r \in Requests, x \in Slots : Reserve(r, x) \/ GiveBack(r, x)
    \/ Seed

Spec == Init /\ [][Next]_<<left, held>>

=============================================================================
