----------------------------- MODULE HedgeBudget -----------------------------
(***************************************************************************)
(* Hedged Redis reads: the token budget and hedged_call of                 *)
(* bidder-core/src/hedge.rs, the feedback loop of hedge_feedback.rs that   *)
(* contracts the budget when the HTTP layer sheds load, and the timeouts   *)
(* that drop a hedged call before it returns.                              *)
(*                                                                         *)
(* A step is one access to an atomic of HedgeBudget; try_consume is a      *)
(* compare-and-swap loop and so one step.  The accesses are Relaxed: those *)
(* to tokens are ordered among themselves, but a load of effective_cap may *)
(* miss a store that precedes it and return any value stored earlier.      *)
(* (A thread that has seen a store may not go back behind it; the model    *)
(* lets it, which only adds behaviours.)  The totals of LoadShedTracker    *)
(* are kept as what was added since the loop last read them, which is all  *)
(* the loop uses.                                                          *)
(***************************************************************************)
EXTENDS Naturals, FiniteSets

CONSTANTS
    Callers,        \* request tasks, each in at most one hedged_call
    Cancellable,    \* those that may run into a timeout during the call
    Nominal,        \* HedgeBudget::nominal
    ShedLow,        \* shed rate above which the budget is contracted, in percent
    ShedHigh,       \* shed rate above which hedging is disabled, in percent
    MaxRequests     \* bound: requests counted between two feedback ticks

ASSUME HedgeAssumption ==
    /\ IsFiniteSet(Callers)
    /\ Cancellable \subseteq Callers
    /\ Nominal \in Nat
    /\ ShedLow \in Nat /\ ShedHigh \in Nat
    /\ MaxRequests \in Nat

VARIABLES
    tokens,     \* HedgeBudget::tokens
    cap,        \* HedgeBudget::effective_cap, the value stored last
    older,      \* the values it held before
    phase,      \* where each caller is in hedged_call and restore
    new,        \* what restore's fetch_add returned, plus one; 0 outside restore
    capSeen,    \* what restore loaded from effective_cap; 0 outside restore
    fb,         \* where the feedback loop is
    total,      \* requests it read for this tick
    reqs,       \* LoadShedTracker::requests_total since the last tick
    sheds,      \* LoadShedTracker::shed_total since the last tick
    leaked,     \* history: tokens consumed by calls that were dropped
    missed      \* history: restores that found the tokens within an older
                \*   capacity and not within the current one, since the last
                \*   set_load_shed_rate

caller == <<phase, new, capSeen>>
capacity == <<cap, older>>
feedback == <<fb, total>>
tracker == <<reqs, sheds>>
hedgeVars == <<tokens, capacity, caller, feedback, tracker, leaked, missed>>

Phases == {"idle", "waiting", "blocked", "hedged", "added", "clamp"}

HedgeInit ==
    /\ tokens = Nominal /\ cap = Nominal /\ older = {}
    /\ phase = [c \in Callers |-> "idle"]
    /\ new = [c \in Callers |-> 0]
    /\ capSeen = [c \in Callers |-> 0]
    /\ fb = "idle" /\ total = 0
    /\ reqs = 0 /\ sheds = 0
    /\ leaked = 0 /\ missed = 0

Least(a, b) == IF a < b THEN a ELSE b

-----------------------------------------------------------------------------
(* hedged_call                                                             *)

(* The request is counted by the middleware and its first read is sent.    *)
Call(c) ==
    /\ phase[c] = "idle" /\ reqs < MaxRequests
    /\ phase' = [phase EXCEPT ![c] = "waiting"]
    /\ reqs' = reqs + 1
    /\ UNCHANGED <<tokens, capacity, new, capSeen, feedback, sheds, leaked, missed>>

(* Mutant: a token is taken without a look at how many there are.          *)
TryConsumeUnchecked(c) ==
    /\ phase[c] = "waiting"
    /\ tokens' = tokens - 1
    /\ phase' = [phase EXCEPT ![c] = "hedged"]
    /\ UNCHANGED <<capacity, new, capSeen, feedback, tracker, leaked, missed>>

(* The trigger elapses: is_closed_sync, then try_consume.                  *)
TryConsume(c) ==
    /\ phase[c] = "waiting"
    /\ \E closed \in BOOLEAN :
          IF closed /\ tokens > 0
          THEN /\ tokens' = tokens - 1
               /\ phase' = [phase EXCEPT ![c] = "hedged"]
          ELSE /\ UNCHANGED tokens
               /\ phase' = [phase EXCEPT ![c] = "blocked"]
    /\ UNCHANGED <<capacity, new, capSeen, feedback, tracker, leaked, missed>>

(* Without a hedge the first read is the answer.                           *)
FirstReturns(c) ==
    /\ phase[c] \in {"waiting", "blocked"}
    /\ phase' = [phase EXCEPT ![c] = "idle"]
    /\ UNCHANGED <<tokens, capacity, new, capSeen, feedback, tracker, leaked, missed>>

(* Mutant: a call whose hedge was blocked gives a token back too.          *)
RestoreAddAlways(c) ==
    /\ phase[c] \in {"hedged", "blocked"}
    /\ tokens' = tokens + 1
    /\ new' = [new EXCEPT ![c] = tokens + 1]
    /\ phase' = [phase EXCEPT ![c] = "added"]
    /\ UNCHANGED <<capacity, capSeen, feedback, tracker, leaked, missed>>

(* Either read returns; restore gives the token back,                      *)
RestoreAdd(c) ==
    /\ phase[c] = "hedged"
    /\ tokens' = tokens + 1
    /\ new' = [new EXCEPT ![c] = tokens + 1]
    /\ phase' = [phase EXCEPT ![c] = "added"]
    /\ UNCHANGED <<capacity, capSeen, feedback, tracker, leaked, missed>>

(* Mutant: restore holds the tokens to the nominal capacity.               *)
RestoreLoadNominal(c) ==
    /\ phase[c] = "added"
    /\ new' = [new EXCEPT ![c] = 0]
    /\ IF new[c] > Nominal
       THEN /\ capSeen' = [capSeen EXCEPT ![c] = Nominal]
            /\ phase' = [phase EXCEPT ![c] = "clamp"]
       ELSE /\ UNCHANGED capSeen
            /\ phase' = [phase EXCEPT ![c] = "idle"]
    /\ UNCHANGED <<tokens, capacity, feedback, tracker, leaked, missed>>

(* looks at the capacity, the current one or an older one,                 *)
RestoreLoad(c) ==
    /\ phase[c] = "added"
    /\ new' = [new EXCEPT ![c] = 0]
    /\ \E loaded \in older \cup {cap} :
          /\ IF new[c] > loaded
             THEN /\ capSeen' = [capSeen EXCEPT ![c] = loaded]
                  /\ phase' = [phase EXCEPT ![c] = "clamp"]
             ELSE /\ UNCHANGED capSeen
                  /\ phase' = [phase EXCEPT ![c] = "idle"]
          /\ missed' = IF new[c] > cap /\ loaded > cap THEN missed + 1 ELSE missed
    /\ UNCHANGED <<tokens, capacity, feedback, tracker, leaked>>

(* and clamps to what it saw.                                              *)
RestoreClamp(c) ==
    /\ phase[c] = "clamp"
    /\ tokens' = Least(tokens, capSeen[c])
    /\ capSeen' = [capSeen EXCEPT ![c] = 0]
    /\ phase' = [phase EXCEPT ![c] = "idle"]
    /\ UNCHANGED <<capacity, new, feedback, tracker, leaked, missed>>

(* A timeout drops the call with its select: the frequency capper's own,   *)
(* or the HTTP one, which the middleware counts as a shed request.         *)
Timeout(c) ==
    /\ c \in Cancellable
    /\ phase[c] \in {"waiting", "blocked", "hedged"}
    /\ phase' = [phase EXCEPT ![c] = "idle"]
    /\ leaked' = IF phase[c] = "hedged" THEN leaked + 1 ELSE leaked
    /\ sheds' \in {sheds, sheds + 1}
    /\ UNCHANGED <<tokens, capacity, new, capSeen, feedback, reqs, missed>>

-----------------------------------------------------------------------------
(* The feedback loop                                                       *)

(* set_load_shed_rate's levels; the rate is zero without requests.         *)
Effective(t, s) ==
    IF t = 0 THEN Nominal
    ELSE IF s * 100 > ShedHigh * t THEN 0
    ELSE IF s * 100 > ShedLow * t THEN Nominal \div 5
    ELSE Nominal

TickRequests ==
    /\ fb = "idle"
    /\ total' = reqs /\ reqs' = 0
    /\ fb' = "sheds"
    /\ UNCHANGED <<tokens, capacity, caller, sheds, leaked, missed>>

(* The sheds are read, and the new capacity is stored,                     *)
SetCap ==
    /\ fb = "sheds"
    /\ cap' = Effective(total, sheds) /\ sheds' = 0
    /\ older' = older \cup {cap}
    /\ fb' = "clamp"
    /\ UNCHANGED <<tokens, caller, total, reqs, leaked, missed>>

(* then the tokens are clamped to it.                                      *)
ClampTokens ==
    /\ fb = "clamp"
    /\ tokens' = Least(tokens, cap)
    /\ fb' = "idle" /\ total' = 0 /\ missed' = 0
    /\ UNCHANGED <<capacity, caller, tracker, leaked>>

-----------------------------------------------------------------------------

Step(c) ==
    \/ Call(c) \/ TryConsume(c) \/ FirstReturns(c)
    \/ RestoreAdd(c) \/ RestoreLoad(c) \/ RestoreClamp(c)

Feedback == TickRequests \/ SetCap \/ ClampTokens

HedgeNext ==
    \/ \E c \in Callers : Step(c) \/ Timeout(c)
    \/ Feedback

HedgeSpec == HedgeInit /\ [][HedgeNext]_hedgeVars

-----------------------------------------------------------------------------
(* Properties                                                              *)

(* tokens is an AtomicU64: a try_consume that subtracted from an empty     *)
(* budget would wrap it.                                                   *)
HedgeTypeOK ==
    /\ tokens \in Nat
    /\ cap \in Nat /\ older \subseteq Nat
    /\ phase \in [Callers -> Phases]
    /\ new \in [Callers -> Nat]
    /\ capSeen \in [Callers -> Nat]
    /\ fb \in {"idle", "sheds", "clamp"}
    /\ total \in Nat
    /\ reqs \in Nat
    /\ sheds \in Nat
    /\ leaked \in Nat
    /\ missed \in Nat

Holders == {c \in Callers : phase[c] = "hedged"}

(* hedged_call and restore never mint a token, whatever the clamps of the  *)
(* feedback loop do meanwhile: the free tokens, the hedges in flight and   *)
(* the tokens lost with dropped calls together stay within the nominal     *)
(* capacity.  Redis never sees more than that many hedges at a time.       *)
HedgesBounded == tokens + Cardinality(Holders) + leaked <= Nominal

(* restore's "Add first, then clamp to effective_cap so we never exceed    *)
(* cap" and its "slight overshoot under very high concurrency": with no    *)
(* restore and no set_load_shed_rate half done, the tokens exceed the      *)
(* capacity that the feedback loop stored last by no more than one for     *)
(* each restore that, since then, still loaded an older one.               *)
OvershootIsMissed ==
    fb # "clamp" /\ (\A c \in Callers : phase[c] \notin {"added", "clamp"})
        => tokens <= cap + missed

=============================================================================
