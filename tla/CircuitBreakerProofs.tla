------------------------ MODULE CircuitBreakerProofs ------------------------
(***************************************************************************)
(* Proofs about the circuit breaker, for any set of callers, any window    *)
(* and any thresholds.                                                     *)
(*                                                                         *)
(* Two invariants carry them.  ProbeInv: half-open means a claimed probe   *)
(* slot, and once open_duration has passed nobody admitted earlier is out. *)
(* EvidenceInv adds where the counts come from: the window, and every      *)
(* snapshot of it that can still be decided on, holds no more bad outcomes *)
(* than were recorded since the breaker last closed, or min_calls of them  *)
(* were; or a reset has still to clear the window.                         *)
(***************************************************************************)
EXTENDS CircuitBreaker, TLAPS

(* The three counters start in their type.                                 *)
LEMMA ZeroType == Zero \in [Counters -> Nat]
BY DEF Zero

(* The breaker starts closed, with nobody inside.                          *)
LEMMA TypeInit == Init => TypeOK
<1> SUFFICES ASSUME Init PROVE TypeOK
    OBVIOUS
<1>1. /\ state \in States /\ expired \in BOOLEAN /\ probe \in BOOLEAN
      /\ redis \in {"up", "down"} /\ lock \in Callers \cup {NoOne}
    BY DEF Init, States
<1>2. /\ win \in [Counters -> Nat] /\ seen \in [Callers -> [Counters -> Nat]]
      /\ recorded \in [Kinds -> Nat]
    BY ZeroType DEF Init
<1>3. /\ gate \in [Callers -> {"cache", "redis"}]
      /\ out \in [Callers -> SUBSET Kinds] /\ todo \in [Callers -> SUBSET Counters]
    BY DEF Init
<1>4. /\ pc \in [Callers -> PCs]
      /\ \A c \in Callers : lock = c <=> pc[c] \in {"reset_admit", "reset_done"}
    BY CallersAssumption DEF Init, PCs
<1> QED
    BY <1>1, <1>2, <1>3, <1>4 DEF TypeOK

(* Every step of every caller keeps the variables in their types and the   *)
(* write lock with the caller that resets the window.                      *)
LEMMA TypeStep == TypeOK /\ [Next]_vars => TypeOK'
<1> USE CallersAssumption, ZeroType
<1> SUFFICES ASSUME TypeOK, [Next]_vars PROVE TypeOK'
    OBVIOUS
<1>1. ASSUME NEW c \in Callers, Arrive(c) PROVE TypeOK'
    BY <1>1 DEF Arrive, TypeOK, breaker, PCs
<1>2. ASSUME NEW c \in Callers, AllowRequest(c) PROVE TypeOK'
    BY <1>2 DEF AllowRequest, Admitted, TypeOK, breaker, PCs
<1>3. ASSUME NEW c \in Callers, TryEnterHalfOpen(c) PROVE TypeOK'
  <2>1. probe' \in BOOLEAN
    BY <1>3, Zenon DEF TryEnterHalfOpen, TypeOK
  <2>2. CASE ReadyForProbe
    <3>1. /\ state' = "HalfOpen" /\ lock' = c
          /\ pc' = [pc EXCEPT ![c] = "reset_admit"]
          /\ todo' = [todo EXCEPT ![c] = Counters]
          /\ lock = NoOne
          /\ UNCHANGED <<expired, win, gate, out, seen, redis, recorded>>
      BY <1>3, <2>2 DEF TryEnterHalfOpen
    <3>2. \A d \in Callers : lock' = d <=> pc'[d] \in {"reset_admit", "reset_done"}
      BY <3>1 DEF TypeOK
    <3> QED
      BY <2>1, <3>1, <3>2 DEF TypeOK, PCs, States
  <2>3. CASE ~ReadyForProbe
    <3>1. Admitted(c) \in PCs /\ Admitted(c) \notin {"reset_admit", "reset_done"}
      BY DEF Admitted, PCs
    <3>2. /\ UNCHANGED <<state, lock, todo, expired, win, gate, out, seen, redis, recorded>>
          /\ pc[c] = "upgrade"
          /\ pc' = [pc EXCEPT ![c] = Admitted(c)] \/ pc' = [pc EXCEPT ![c] = "idle"]
      BY <1>3, <2>3 DEF TryEnterHalfOpen
    <3> QED
      BY <2>1, <3>1, <3>2, ZenonT(60) DEF TypeOK, PCs
  <2> QED
    BY <2>2, <2>3
<1>4. ASSUME NEW c \in Callers, LookUp(c) PROVE TypeOK'
  <2>1. pc' = [pc EXCEPT ![c] = "idle"] \/ pc' = [pc EXCEPT ![c] = "allow"]
    BY <1>4 DEF LookUp
  <2>2. gate' = gate \/ gate' = [gate EXCEPT ![c] = "redis"]
    BY <1>4 DEF LookUp
  <2> QED
    BY <1>4, <2>1, <2>2, ZenonT(60) DEF LookUp, TypeOK, breaker, PCs
<1>5. ASSUME NEW c \in Callers, Respond(c) PROVE TypeOK'
    BY <1>5 DEF Respond, TypeOK, breaker, PCs, Counters
<1>6. ASSUME NEW c \in Callers, Bump(c) PROVE TypeOK'
  <2>1. PICK k \in todo[c] :
              /\ win' = [win EXCEPT ![k] = @ + 1]
              /\ recorded' = [f \in Kinds |-> IF f = k /\ recorded[f] < MinCalls
                                              THEN recorded[f] + 1 ELSE recorded[f]]
              /\ IF todo[c] = {k}
                 THEN /\ todo' = [todo EXCEPT ![c] = Counters]
                      /\ pc' = [pc EXCEPT ![c] = "load"]
                 ELSE /\ todo' = [todo EXCEPT ![c] = @ \ {k}]
                      /\ UNCHANGED pc
    BY <1>6 DEF Bump
  <2>2. win' \in [Counters -> Nat] /\ recorded' \in [Kinds -> Nat]
    BY <2>1, ThresholdAssumption DEF TypeOK
  <2>3. /\ todo' \in [Callers -> SUBSET Counters]
        /\ pc' \in [Callers -> PCs]
        /\ \A d \in Callers : pc'[d] \in {"reset_admit", "reset_done"}
                                <=> pc[d] \in {"reset_admit", "reset_done"}
    <3>1. CASE todo[c] = {k}
      <4>1. todo' = [todo EXCEPT ![c] = Counters] /\ pc' = [pc EXCEPT ![c] = "load"]
        BY <2>1, <3>1
      <4>2. todo' \in [Callers -> SUBSET Counters]
        BY <4>1 DEF TypeOK
      <4>3. pc[c] = "bump"
        BY <1>6 DEF Bump
      <4> QED
        BY <4>1, <4>2, <4>3 DEF TypeOK, PCs
    <3>2. CASE todo[c] # {k}
      BY <1>6, <2>1, <3>2 DEF Bump, TypeOK, PCs
    <3> QED
      BY <3>1, <3>2
  <2> QED
    BY <1>6, <2>2, <2>3 DEF Bump, TypeOK, breaker
<1>7. ASSUME NEW c \in Callers, Load(c) PROVE TypeOK'
    BY <1>7 DEF Load, TypeOK, breaker, PCs
<1>8. ASSUME NEW c \in Callers, RecordOutcome(c) PROVE TypeOK'
  <2> USE <1>8 DEF RecordOutcome
  <2>1. CASE RecordClosed(c)
    BY <2>1 DEF RecordClosed, Finish, TypeOK, PCs, States
  <2>2. CASE RecordHalfOpen(c)
    BY <2>2 DEF RecordHalfOpen, Finish, TypeOK, PCs, States
  <2>3. CASE RecordOpen(c)
    BY <2>3 DEF RecordOpen, Finish, TypeOK, PCs, States
  <2> QED
    BY <2>1, <2>2, <2>3
<1>9. ASSUME NEW c \in Callers, Reset(c) PROVE TypeOK'
  <2>1. PICK k \in todo[c] :
              /\ win' = [win EXCEPT ![k] = 0]
              /\ todo' = [todo EXCEPT ![c] = @ \ {k}]
              /\ IF todo[c] = {k}
                 THEN /\ lock' = NoOne
                      /\ seen' = [seen EXCEPT ![c] = Zero]
                      /\ pc' = [pc EXCEPT ![c] = IF @ = "reset_admit"
                                                 THEN Admitted(c) ELSE "idle"]
                 ELSE UNCHANGED <<lock, seen, pc>>
    BY <1>9 DEF Reset
  <2>2. Admitted(c) \in PCs /\ Admitted(c) \notin {"reset_admit", "reset_done"}
    BY DEF Admitted, PCs
  <2>3. win' \in [Counters -> Nat] /\ todo' \in [Callers -> SUBSET Counters]
    BY <2>1 DEF TypeOK
  <2>4. CASE todo[c] = {k}
    <3>1. seen' \in [Callers -> [Counters -> Nat]]
      BY <2>1, <2>4 DEF TypeOK
    <3>2. pc' \in [Callers -> PCs]
      BY <2>1, <2>2, <2>4 DEF TypeOK, PCs
    <3>3. lock' = NoOne
          /\ \A d \in Callers : pc'[d] \notin {"reset_admit", "reset_done"}
      BY <1>9, <2>1, <2>2, <2>4 DEF Reset, TypeOK
    <3> QED
      BY <1>9, <2>3, <3>1, <3>2, <3>3 DEF Reset, TypeOK
  <2>5. CASE todo[c] # {k}
    BY <1>9, <2>1, <2>3, <2>5 DEF Reset, TypeOK
  <2> QED
    BY <2>4, <2>5
<1>10. ASSUME NEW c \in Callers, Cancel(c) PROVE TypeOK'
    BY <1>10 DEF Cancel, TypeOK, breaker, PCs
<1>11. CASE Elapse
    BY <1>11 DEF Elapse, TypeOK, caller
<1>12. CASE RedisChanges
    BY <1>12 DEF RedisChanges, TypeOK, breaker, caller
<1>13. CASE UNCHANGED vars
    BY <1>13 DEF vars, TypeOK, breaker, caller
<1> QED
    BY <1>1, <1>2, <1>3, <1>4, <1>5, <1>6, <1>7, <1>8, <1>9, <1>10, <1>11,
       <1>12, <1>13 DEF Next, Step

(* The locked sections of allow_request and record_outcome, and the        *)
(* lock-free accesses to the window between them, keep every variable in   *)
(* its type, and the write lock stays with the caller that resets the      *)
(* window.                                                                 *)
THEOREM TypeCorrect == Spec => []TypeOK
BY TypeInit, TypeStep, PTL DEF Spec

-----------------------------------------------------------------------------
(* One probe at a time                                                     *)

(* A half-open breaker has its probe slot taken: the slot is claimed in    *)
(* the section that makes it half-open, and freed in the one that ends it. *)
ProbeClaimed == state = "HalfOpen" => probe

(* When open_duration has passed, the calls admitted before are over.      *)
Drained == state = "Open" /\ expired => \A c \in Callers : ~InFlight(c)

ProbeInv == TypeOK /\ ProbeClaimed /\ Drained /\ SingleProbe

(* A step that leaves the breaker's fields alone and brings nobody past    *)
(* the gate of the Redis capper keeps the invariant.                       *)
LEMMA QuietStep ==
    ASSUME ProbeInv, TypeOK', UNCHANGED <<state, expired, probe>>,
           \A c \in Callers : InFlight(c)' => InFlight(c)
    PROVE  ProbeInv'
BY DEF ProbeInv, ProbeClaimed, Drained, SingleProbe

(* Every step keeps at most one caller in flight while half-open, provided *)
(* that no guarded read outlives open_duration.                            *)
LEMMA ProbeStep ==
    ASSUME Prompt, ProbeInv, [Next]_vars
    PROVE  ProbeInv'
<1> USE CallersAssumption
<1>0. TypeOK' /\ TypeOK
    BY TypeStep DEF ProbeInv
<1>1. ASSUME NEW c \in Callers, Arrive(c) PROVE ProbeInv'
    BY <1>0, <1>1, QuietStep DEF Arrive, TypeOK, breaker, InFlight
<1>2. ASSUME NEW c \in Callers, AllowRequest(c) PROVE ProbeInv'
  <2>1. CASE state = "Closed"
    BY <1>0, <1>2, <2>1 DEF AllowRequest, breaker, ProbeInv, ProbeClaimed, Drained, SingleProbe
  <2>2. CASE state # "Closed"
    BY <1>0, <1>2, <2>2, QuietStep DEF AllowRequest, TypeOK, breaker, InFlight
  <2> QED
    BY <2>1, <2>2
<1>3. ASSUME NEW c \in Callers, TryEnterHalfOpen(c) PROVE ProbeInv'
  <2>1. CASE ReadyForProbe
    <3>1. /\ state' = "HalfOpen" /\ probe'
          /\ pc' = [pc EXCEPT ![c] = "reset_admit"]
          /\ \A d \in Callers : ~InFlight(d)
      BY <1>3, <2>1 DEF TryEnterHalfOpen, ReadyForProbe, ProbeInv, Drained
    <3>2. \A d \in Callers : InFlight(d)' => d = c
      BY <1>0, <3>1 DEF TypeOK, InFlight
    <3> QED
      BY <1>0, <3>1, <3>2 DEF ProbeInv, ProbeClaimed, Drained, SingleProbe
  <2>2. CASE ~ReadyForProbe
    <3>1. /\ UNCHANGED <<state, expired>>
          /\ state = "HalfOpen" => probe'
          /\ pc' = [pc EXCEPT ![c] = "idle"]
      BY <1>3, <2>2, Zenon DEF TryEnterHalfOpen, ProbeInv, ProbeClaimed
    <3>2. \A d \in Callers : InFlight(d)' => InFlight(d)
      BY <1>0, <3>1 DEF TypeOK, InFlight
    <3> QED
      BY <1>0, <3>1, <3>2 DEF ProbeInv, ProbeClaimed, Drained, SingleProbe
  <2> QED
    BY <2>1, <2>2
<1>4. ASSUME NEW c \in Callers, LookUp(c) PROVE ProbeInv'
    BY <1>0, <1>4, QuietStep DEF LookUp, TypeOK, breaker, InFlight
<1>5. ASSUME NEW c \in Callers, Respond(c) PROVE ProbeInv'
    BY <1>0, <1>5, QuietStep DEF Respond, TypeOK, breaker, InFlight
<1>6. ASSUME NEW c \in Callers, Bump(c) PROVE ProbeInv'
  <2>1. pc' = [pc EXCEPT ![c] = "load"] \/ UNCHANGED pc
    BY <1>6 DEF Bump
  <2> QED
    BY <1>0, <1>6, <2>1, QuietStep DEF Bump, TypeOK, breaker, InFlight
<1>7. ASSUME NEW c \in Callers, Load(c) PROVE ProbeInv'
    BY <1>0, <1>7, QuietStep DEF Load, TypeOK, breaker, InFlight
<1>8. ASSUME NEW c \in Callers, RecordOutcome(c) PROVE ProbeInv'
  <2>1. InFlight(c)
    BY <1>8 DEF RecordOutcome, InFlight
  <2>2. CASE RecordClosed(c)
    BY <1>0, <2>2 DEF RecordClosed, ProbeInv, ProbeClaimed, Drained, SingleProbe
  <2>3. CASE RecordHalfOpen(c)
    BY <1>0, <2>3 DEF RecordHalfOpen, ProbeInv, ProbeClaimed, Drained, SingleProbe
  <2>4. CASE RecordOpen(c)
    BY <1>0, <2>1, <2>4 DEF RecordOpen, ProbeInv, ProbeClaimed, Drained, SingleProbe
  <2> QED
    BY <1>8, <2>2, <2>3, <2>4 DEF RecordOutcome
<1>9. ASSUME NEW c \in Callers, Reset(c) PROVE ProbeInv'
  <2>1. InFlight(c) /\ UNCHANGED <<state, expired, probe>>
    BY <1>9 DEF Reset, InFlight
  <2>2. UNCHANGED pc \/ \E p \in PCs : pc' = [pc EXCEPT ![c] = p]
    BY <1>9 DEF Reset, Admitted, PCs
  <2>3. \A d \in Callers : InFlight(d)' => InFlight(d)
    BY <1>0, <2>1, <2>2 DEF TypeOK, InFlight
  <2> QED
    BY <1>0, <2>1, <2>3, QuietStep
<1>10. ASSUME NEW c \in Callers, Cancel(c) PROVE ProbeInv'
    BY <1>0, <1>10, QuietStep DEF Cancel, TypeOK, breaker, InFlight
<1>11. CASE Elapse
    BY <1>0, <1>11 DEF Elapse, caller, InFlight, ProbeInv, ProbeClaimed, Drained, SingleProbe
<1>12. CASE RedisChanges
    BY <1>0, <1>12, QuietStep DEF RedisChanges, breaker, caller, InFlight
<1>13. CASE UNCHANGED vars
    BY <1>0, <1>13, QuietStep DEF vars, breaker, caller, InFlight
<1> QED
    BY <1>1, <1>2, <1>3, <1>4, <1>5, <1>6, <1>7, <1>8, <1>9, <1>10, <1>11,
       <1>12, <1>13 DEF Next, Step

(* "Half-open allows exactly one probe at a time": for any number of       *)
(* callers, dropped at any await, no two are in flight while the breaker   *)
(* is half-open, as long as no guarded read outlives open_duration.        *)
THEOREM OneProbeAtATime == ASSUME Prompt PROVE Spec => []SingleProbe
<1>1. Init => ProbeInv
    BY TypeInit DEF Init, ProbeInv, ProbeClaimed, Drained, SingleProbe
<1>2. ProbeInv /\ [Next]_vars => ProbeInv'
    BY ProbeStep
<1>3. ProbeInv => SingleProbe
    BY DEF ProbeInv
<1> QED
    BY <1>1, <1>2, <1>3, PTL DEF Spec

-----------------------------------------------------------------------------
(* What a gate lets through while the breaker is open                      *)

(* "Open -> HalfOpen after open_duration elapses": neither allow_request,  *)
(* in either of its locked sections, nor a record_outcome or a reset that  *)
(* comes late makes the breaker leave Open or lets a caller through before *)
(* open_duration has passed.  Prompt is not needed.                        *)
THEOREM NobodyPassesEarly == Spec => OpenDurationHonoured
<1> DEFINE Honoured == state = "Open" /\ ~expired =>
                          /\ state' = "Open"
                          /\ \A c \in Callers : PastGate(c)' => PastGate(c)
<1>1. ASSUME TypeOK, [Next]_vars PROVE [Honoured]_vars
  <2> SUFFICES ASSUME state = "Open", ~expired, Next
               PROVE  /\ state' = "Open"
                      /\ \A c \in Callers : PastGate(c)' => PastGate(c)
    BY <1>1
  <2> USE DEF PastGate, InFlight
  <2>0. pc \in [Callers -> PCs]
    BY <1>1 DEF TypeOK
  <2>1. ASSUME NEW c \in Callers, Arrive(c) \/ AllowRequest(c) \/ LookUp(c) \/ Cancel(c)
        PROVE  state' = "Open" /\ \A d \in Callers : PastGate(d)' => PastGate(d)
    <3>1. state' = state
      BY <2>1 DEF Arrive, AllowRequest, LookUp, Cancel, breaker
    <3>2. pc' = [pc EXCEPT ![c] = "allow"] \/ pc' = [pc EXCEPT ![c] = "idle"]
              \/ pc' = [pc EXCEPT ![c] = "dropped"]
      BY <2>1 DEF Arrive, AllowRequest, LookUp, Cancel
    <3>3. QED BY <2>0, <3>1, <3>2
  <2>2. ASSUME NEW c \in Callers, TryEnterHalfOpen(c)
        PROVE  state' = "Open" /\ \A d \in Callers : PastGate(d)' => PastGate(d)
    <3>1. ~ReadyForProbe
      BY DEF ReadyForProbe
    <3>2. state' = state /\ pc' = [pc EXCEPT ![c] = "idle"]
      BY <2>2, <3>1 DEF TryEnterHalfOpen
    <3>3. QED BY <2>0, <3>2
  <2>3. ASSUME NEW c \in Callers, Respond(c) \/ Bump(c) \/ Load(c) \/ Reset(c)
        PROVE  state' = "Open" /\ \A d \in Callers : PastGate(d)' => PastGate(d)
    <3>1. state' = state /\ PastGate(c)
      BY <2>3 DEF Respond, Bump, Load, Reset, breaker
    <3>2. UNCHANGED pc \/ \E p \in PCs : pc' = [pc EXCEPT ![c] = p]
      BY <2>3 DEF Respond, Bump, Load, Reset, Admitted, PCs
    <3>3. QED BY <2>0, <3>1, <3>2
  <2>4. ASSUME NEW c \in Callers, RecordOutcome(c)
        PROVE  state' = "Open" /\ \A d \in Callers : PastGate(d)' => PastGate(d)
    <3>1. RecordOpen(c)
      BY <2>4 DEF RecordOutcome, RecordClosed, RecordHalfOpen
    <3>2. state' = state /\ pc' = [pc EXCEPT ![c] = "idle"]
      BY <3>1 DEF RecordOpen, Finish
    <3>3. QED BY <2>0, <3>2
  <2>5. CASE Elapse \/ RedisChanges
    BY <2>5 DEF Elapse, RedisChanges, breaker, caller
  <2>6. QED BY <2>1, <2>2, <2>3, <2>4, <2>5 DEF Next, Step
<1>2. QED BY TypeCorrect, <1>1, PTL DEF Spec, OpenDurationHonoured

-----------------------------------------------------------------------------
(* What record_outcome opens the breaker on                                *)

(* The outcomes of kind k recorded since the breaker last closed account   *)
(* for the count n, or reach min_calls, where the history stops counting.  *)
Covered(n, k) == n <= recorded[k] \/ recorded[k] >= MinCalls

WindowCovered == \A k \in Kinds : Covered(win[k], k)

(* A caller that recovered the breaker alone has yet to clear the window.  *)
Clearing(c) ==
    /\ lock = c /\ pc[c] = "reset_done"
    /\ \A d \in Callers \ {c} : ~InFlight(d)
    /\ \A k \in Kinds \ todo[c] : win[k] = 0

(* The window holds what was recorded in this closed period, or is being   *)
(* cleared while nobody can read it.                                       *)
WindowFresh == WindowCovered \/ \E c \in Callers : Clearing(c)

(* A snapshot is given up with the call it was taken for.                  *)
SeenFresh ==
    \A c \in Callers :
        /\ ~InFlight(c) => seen[c] = Zero
        /\ pc[c] # "reset_done" => \A k \in Kinds : Covered(seen[c][k], k)

EvidenceInv == ProbeInv /\ WindowFresh /\ SeenFresh

(* Whoever holds an admission and is not itself clearing the window knows  *)
(* that the window is covered.                                             *)
LEMMA InFlightCovered ==
    ASSUME EvidenceInv, NEW c \in Callers, InFlight(c), pc[c] # "reset_done"
    PROVE  WindowCovered
  BY DEF EvidenceInv, WindowFresh, Clearing

(* So does whoever finds the write lock free.                              *)
LEMMA UnlockedCovered == ASSUME EvidenceInv, lock = NoOne PROVE WindowCovered
  BY CallersAssumption DEF EvidenceInv, WindowFresh, Clearing

(* A count of zero needs no evidence.                                      *)
LEMMA ZeroCovered ==
    ASSUME NEW k \in Kinds, recorded[k] \in Nat PROVE Covered(Zero[k], k)
  BY DEF Covered, Zero, Counters

(* A step of one caller that leaves the window and the history alone, and  *)
(* that brings the caller past the gate only with the lock free, keeps the *)
(* invariant if the caller's own snapshot is covered after it.             *)
LEMMA CallerStep ==
    ASSUME EvidenceInv, ProbeInv', NEW c \in Callers, pc[c] # "reset_done",
           UNCHANGED <<win, recorded>>,
           \A d \in Callers \ {c} :
               pc'[d] = pc[d] /\ todo'[d] = todo[d] /\ seen'[d] = seen[d],
           lock = NoOne \/ (lock' = lock /\ (InFlight(c)' => InFlight(c))),
           InFlight(c)' \/ seen'[c] = Zero,
           pc'[c] = "reset_done" \/ \A k \in Kinds : Covered(seen'[c][k], k)
    PROVE  EvidenceInv'
<1>1. WindowFresh'
  <2>1. CASE WindowCovered
    BY <2>1 DEF WindowFresh, WindowCovered, Covered
  <2>2. ASSUME NEW e \in Callers, Clearing(e) PROVE WindowFresh'
    <3>1. e # c /\ lock' = lock /\ ~InFlight(c)'
      BY <2>2, CallersAssumption DEF Clearing
    <3>2. \A d \in Callers \ {e} : ~InFlight(d)'
      BY <2>2, <3>1 DEF Clearing, InFlight
    <3>3. Clearing(e)'
      BY <2>2, <3>1, <3>2 DEF Clearing
    <3>4. QED BY <3>3 DEF WindowFresh
  <2>3. QED BY <2>1, <2>2 DEF EvidenceInv, WindowFresh
<1>2. SeenFresh'
  <2>1. ASSUME NEW d \in Callers \ {c}
        PROVE  /\ InFlight(d)' \/ seen'[d] = Zero
               /\ pc'[d] # "reset_done" => \A k \in Kinds : Covered(seen[d][k], k)'
    BY <2>1 DEF EvidenceInv, SeenFresh, Covered, InFlight
  <2>2. pc'[c] # "reset_done" => \A k \in Kinds : Covered(seen[c][k], k)'
    BY DEF Covered
  <2>3. QED BY <2>1, <2>2 DEF SeenFresh
<1>3. QED BY <1>1, <1>2 DEF EvidenceInv

(* A request asks, looks up its cache or is dropped.                       *)
LEMMA AskEvidence ==
    ASSUME EvidenceInv, ProbeInv', NEW c \in Callers,
           \/ Arrive(c) \/ AllowRequest(c) \/ TryEnterHalfOpen(c) \/ LookUp(c)
           \/ Respond(c) \/ Cancel(c)
    PROVE  EvidenceInv'
<1>t. /\ pc \in [Callers -> PCs] /\ seen \in [Callers -> [Counters -> Nat]]
      /\ todo \in [Callers -> SUBSET Counters] /\ recorded \in [Kinds -> Nat]
  BY DEF EvidenceInv, ProbeInv, TypeOK
<1>1. pc[c] # "reset_done" /\ UNCHANGED <<win, recorded>>
  BY DEF Arrive, AllowRequest, TryEnterHalfOpen, LookUp, Respond, Cancel
<1>2. /\ \E p : pc' = [pc EXCEPT ![c] = p]
      /\ UNCHANGED todo \/ \E s : todo' = [todo EXCEPT ![c] = s]
      /\ UNCHANGED seen \/ seen' = [seen EXCEPT ![c] = Zero]
  <2>1. UNCHANGED seen \/ seen' = [seen EXCEPT ![c] = Zero]
    BY DEF Arrive, AllowRequest, TryEnterHalfOpen, LookUp, Respond, Cancel
  <2>2. UNCHANGED todo \/ \E s : todo' = [todo EXCEPT ![c] = s]
    BY DEF Arrive, AllowRequest, TryEnterHalfOpen, LookUp, Respond, Cancel
  <2>3. CASE Arrive(c) \/ AllowRequest(c) \/ TryEnterHalfOpen(c)
    BY <2>1, <2>2, <2>3 DEF Arrive, AllowRequest, TryEnterHalfOpen
  <2>4. CASE LookUp(c) \/ Respond(c) \/ Cancel(c)
    BY <2>1, <2>2, <2>4 DEF LookUp, Respond, Cancel
  <2>5. QED BY <2>3, <2>4
<1>3. \A d \in Callers \ {c} : pc'[d] = pc[d] /\ todo'[d] = todo[d] /\ seen'[d] = seen[d]
  BY <1>t, <1>2
<1>4. lock = NoOne \/ (lock' = lock /\ (InFlight(c)' => InFlight(c)))
  <2>1. CASE AllowRequest(c) \/ TryEnterHalfOpen(c)
    BY <2>1 DEF AllowRequest, TryEnterHalfOpen
  <2>2. CASE Arrive(c) \/ LookUp(c) \/ Respond(c) \/ Cancel(c)
    BY <1>t, <2>2 DEF Arrive, LookUp, Respond, Cancel, breaker, InFlight
  <2>3. QED BY <2>1, <2>2
<1>5. InFlight(c)' \/ seen'[c] = Zero
  <2>1. CASE Respond(c)
    BY <1>t, <2>1 DEF Respond, InFlight
  <2>2. CASE Cancel(c)
    BY <1>t, <2>2 DEF Cancel
  <2>3. CASE Arrive(c) \/ AllowRequest(c) \/ TryEnterHalfOpen(c) \/ LookUp(c)
    <3>1. ~InFlight(c) /\ UNCHANGED seen
      BY <2>3 DEF Arrive, AllowRequest, TryEnterHalfOpen, LookUp, InFlight
    <3>2. QED BY <3>1 DEF EvidenceInv, SeenFresh
  <2>4. QED BY <2>1, <2>2, <2>3
<1>6. \A k \in Kinds : Covered(seen'[c][k], k)
  BY <1>t, <1>1, <1>2, ZeroCovered DEF EvidenceInv, SeenFresh
<1>7. QED BY <1>1, <1>3, <1>4, <1>5, <1>6, CallerStep

(* Window::record counts in the window what it adds to the history.        *)
LEMMA BumpEvidence ==
    ASSUME EvidenceInv, ProbeInv', NEW c \in Callers, Bump(c) PROVE EvidenceInv'
<1>t. /\ pc \in [Callers -> PCs] /\ win \in [Counters -> Nat]
      /\ recorded \in [Kinds -> Nat] /\ MinCalls \in Nat
      /\ seen \in [Callers -> [Counters -> Nat]]
  BY ThresholdAssumption DEF EvidenceInv, ProbeInv, TypeOK
<1>1. PICK k \in todo[c] :
            /\ win' = [win EXCEPT ![k] = @ + 1]
            /\ recorded' = [f \in Kinds |-> IF f = k /\ recorded[f] < MinCalls
                                            THEN recorded[f] + 1 ELSE recorded[f]]
  BY DEF Bump
<1>2. pc[c] = "bump" /\ UNCHANGED seen
      /\ (UNCHANGED pc \/ pc' = [pc EXCEPT ![c] = "load"])
  BY DEF Bump
<1>3. WindowCovered
  BY <1>2, InFlightCovered DEF InFlight
<1>4. \A f \in Kinds : f \in Counters
  BY DEF Counters
<1>5. WindowCovered'
  BY <1>t, <1>1, <1>3, <1>4 DEF WindowCovered, Covered
<1>6. \A d \in Callers : /\ InFlight(d)' <=> InFlight(d)
                         /\ pc'[d] = "reset_done" <=> pc[d] = "reset_done"
  BY <1>t, <1>2 DEF InFlight
<1>7. ASSUME NEW n \in Nat, NEW f \in Kinds, Covered(n, f)
      PROVE  n <= recorded'[f] \/ recorded'[f] >= MinCalls
  BY <1>t, <1>1, <1>7 DEF Covered
<1>8. SeenFresh'
  <2>1. ASSUME NEW d \in Callers
        PROVE  /\ ~InFlight(d)' => seen'[d] = Zero
               /\ pc'[d] # "reset_done" => \A f \in Kinds : Covered(seen[d][f], f)'
    <3>1. ASSUME NEW f \in Kinds, pc[d] # "reset_done" PROVE Covered(seen[d][f], f)'
      <4>1. seen[d][f] \in Nat /\ Covered(seen[d][f], f)
        BY <1>t, <1>4, <3>1 DEF EvidenceInv, SeenFresh
      <4>2. QED BY <1>2, <1>7, <4>1 DEF Covered
    <3>2. QED BY <1>2, <1>6, <3>1 DEF EvidenceInv, SeenFresh
  <2>2. QED BY <2>1 DEF SeenFresh
<1>9. QED BY <1>5, <1>8 DEF EvidenceInv, WindowFresh

(* Window::snapshot reads a covered window.                                *)
LEMMA LoadEvidence ==
    ASSUME EvidenceInv, ProbeInv', NEW c \in Callers, Load(c) PROVE EvidenceInv'
<1>t. /\ pc \in [Callers -> PCs] /\ todo \in [Callers -> SUBSET Counters]
      /\ seen \in [Callers -> [Counters -> Nat]]
  BY DEF EvidenceInv, ProbeInv, TypeOK
<1>1. PICK k \in todo[c] :
            /\ seen' = [seen EXCEPT ![c][k] = win[k]]
            /\ todo' = [todo EXCEPT ![c] = @ \ {k}]
            /\ pc' = [pc EXCEPT ![c] = IF todo[c] = {k} THEN "record" ELSE "load"]
  BY DEF Load
<1>2. pc[c] = "load" /\ UNCHANGED <<win, recorded, lock>>
  BY DEF Load, breaker
<1>3. WindowCovered
  BY <1>2, InFlightCovered DEF InFlight
<1>4. InFlight(c)' /\ InFlight(c)
  BY <1>t, <1>1, <1>2 DEF InFlight
<1>5. \A f \in Kinds : Covered(seen'[c][f], f)
  <2>1. ASSUME NEW f \in Kinds PROVE seen'[c][f] = win[f] \/ seen'[c][f] = seen[c][f]
    BY <1>t, <1>1 DEF Counters
  <2>2. QED BY <1>2, <1>3, <2>1 DEF WindowCovered, EvidenceInv, SeenFresh
<1>6. \A d \in Callers \ {c} : pc'[d] = pc[d] /\ todo'[d] = todo[d] /\ seen'[d] = seen[d]
  BY <1>t, <1>1
<1>7. QED BY <1>2, <1>4, <1>5, <1>6, CallerStep

(* record_outcome forgets the history only when it closes the breaker, and *)
(* then the probe is the only caller in flight.                            *)
LEMMA RecordEvidence ==
    ASSUME EvidenceInv, ProbeInv', NEW c \in Callers, RecordOutcome(c)
    PROVE  EvidenceInv'
<1>t. /\ pc \in [Callers -> PCs] /\ todo \in [Callers -> SUBSET Counters]
      /\ seen \in [Callers -> [Counters -> Nat]] /\ recorded \in [Kinds -> Nat]
  BY DEF EvidenceInv, ProbeInv, TypeOK
<1>1. pc[c] = "record" /\ lock = NoOne /\ UNCHANGED win
  BY DEF RecordOutcome
<1>2. PICK reset \in BOOLEAN : Finish(c, reset)
  BY DEF RecordOutcome, RecordClosed, RecordHalfOpen, RecordOpen
<1>3. /\ lock' = IF reset THEN c ELSE NoOne
      /\ pc' = [pc EXCEPT ![c] = IF reset THEN "reset_done" ELSE "idle"]
      /\ todo' = [todo EXCEPT ![c] = IF reset THEN Counters ELSE {}]
      /\ seen' = [seen EXCEPT ![c] = IF reset THEN seen[c] ELSE Zero]
  BY <1>2 DEF Finish
<1>4. \A d \in Callers \ {c} : pc'[d] = pc[d] /\ todo'[d] = todo[d] /\ seen'[d] = seen[d]
  BY <1>t, <1>3
<1>5. InFlight(c)' \/ seen'[c] = Zero
  BY <1>t, <1>3 DEF InFlight
<1>6. CASE UNCHANGED recorded
  <2>1. pc'[c] = "reset_done" \/ seen'[c] = Zero
    BY <1>t, <1>3
  <2>2. pc'[c] = "reset_done" \/ \A k \in Kinds : Covered(seen'[c][k], k)
    BY <1>t, <2>1, ZeroCovered
  <2>3. QED BY <1>1, <1>4, <1>5, <1>6, <2>2, CallerStep
<1>7. CASE RecordHalfOpen(c) /\ recorded' = [k \in Kinds |-> 0]
  <2>1. \A d \in Callers \ {c} : ~InFlight(d)
    BY <1>1, <1>7 DEF RecordHalfOpen, EvidenceInv, ProbeInv, SingleProbe, InFlight
  <2>2. /\ lock' = c /\ pc'[c] = "reset_done" /\ todo'[c] = Counters
    BY <1>t, <1>7 DEF RecordHalfOpen, Finish
  <2>3. \A d \in Callers \ {c} : ~InFlight(d)' /\ seen'[d] = Zero
    BY <1>4, <2>1 DEF InFlight, EvidenceInv, SeenFresh
  <2>4. Clearing(c)'
    BY <2>2, <2>3 DEF Clearing, Counters
  <2>5. \A k \in Kinds : Covered(Zero[k], k)'
    BY <1>7 DEF Covered, Zero, Counters
  <2>6. \A d \in Callers \ {c} : \A k \in Kinds : Covered(seen[d][k], k)'
    BY <2>3, <2>5 DEF Covered, Zero
  <2>7. SeenFresh'
    BY <1>5, <2>2, <2>3, <2>6 DEF SeenFresh
  <2>8. QED BY <2>4, <2>7 DEF EvidenceInv, WindowFresh
<1>8. QED BY <1>6, <1>7 DEF RecordOutcome, RecordClosed, RecordHalfOpen, RecordOpen

(* Window::reset leaves a covered window, and covers one that it clears.   *)
LEMMA ResetEvidence ==
    ASSUME EvidenceInv, ProbeInv', NEW c \in Callers, Reset(c) PROVE EvidenceInv'
<1>t. /\ pc \in [Callers -> PCs] /\ todo \in [Callers -> SUBSET Counters]
      /\ seen \in [Callers -> [Counters -> Nat]] /\ recorded \in [Kinds -> Nat]
      /\ win \in [Counters -> Nat] /\ lock = c
  BY DEF EvidenceInv, ProbeInv, TypeOK, Reset
<1>1. PICK k \in todo[c] :
            /\ win' = [win EXCEPT ![k] = 0]
            /\ todo' = [todo EXCEPT ![c] = @ \ {k}]
            /\ IF todo[c] = {k}
               THEN /\ lock' = NoOne
                    /\ seen' = [seen EXCEPT ![c] = Zero]
                    /\ pc' = [pc EXCEPT ![c] = IF @ = "reset_admit"
                                               THEN Admitted(c) ELSE "idle"]
               ELSE UNCHANGED <<lock, seen, pc>>
  BY DEF Reset
<1>2. UNCHANGED recorded /\ pc[c] \in {"reset_admit", "reset_done"}
  BY DEF Reset
<1>3. \A f \in Kinds : f \in Counters /\ win'[f] = IF f = k THEN 0 ELSE win[f]
  BY <1>t, <1>1 DEF Counters
<1>4. WindowFresh'
  <2>1. CASE WindowCovered
    <3>1. WindowCovered'
      BY <1>t, <1>2, <1>3, <2>1 DEF WindowCovered, Covered
    <3>2. QED BY <3>1 DEF WindowFresh
  <2>2. CASE Clearing(c)
    <3>1. CASE todo[c] = {k}
      <4>1. \A f \in Kinds : win'[f] = 0
        BY <1>3, <2>2, <3>1 DEF Clearing
      <4>2. QED BY <1>t, <1>2, <4>1 DEF WindowFresh, WindowCovered, Covered
    <3>2. CASE todo[c] # {k}
      <4>1. UNCHANGED <<lock, pc>> /\ todo'[c] = todo[c] \ {k}
        BY <1>t, <1>1, <3>2
      <4>2. \A f \in Kinds \ todo'[c] : win'[f] = 0
        BY <1>3, <2>2, <4>1 DEF Clearing
      <4>3. Clearing(c)'
        BY <2>2, <4>1, <4>2 DEF Clearing, InFlight
      <4>4. QED BY <4>3 DEF WindowFresh
    <3>3. QED BY <3>1, <3>2
  <2>3. QED BY <1>t, <2>1, <2>2 DEF EvidenceInv, WindowFresh, Clearing
<1>5. SeenFresh'
  <2>1. CASE todo[c] = {k}
    <3>1. /\ \A d \in Callers \ {c} : pc'[d] = pc[d] /\ seen'[d] = seen[d]
          /\ seen'[c] = Zero
      BY <1>t, <1>1, <2>1
    <3>2. ASSUME NEW d \in Callers
          PROVE  /\ ~InFlight(d)' => seen'[d] = Zero
                 /\ pc'[d] # "reset_done" => \A f \in Kinds : Covered(seen'[d][f], f)
      BY <1>t, <3>1, ZeroCovered DEF EvidenceInv, SeenFresh, InFlight
    <3>3. QED BY <1>2, <3>2 DEF SeenFresh, Covered
  <2>2. CASE todo[c] # {k}
    BY <1>1, <1>2, <2>2 DEF EvidenceInv, SeenFresh, Covered, InFlight
  <2>3. QED BY <2>1, <2>2
<1>6. QED BY <1>4, <1>5 DEF EvidenceInv

(* Every step keeps the evidence.                                          *)
LEMMA EvidenceStep ==
    ASSUME Prompt, EvidenceInv, [Next]_vars PROVE EvidenceInv'
<1>1. ProbeInv'
  BY ProbeStep DEF EvidenceInv
<1>2. CASE Elapse \/ RedisChanges \/ UNCHANGED vars
  <2>1. UNCHANGED <<lock, win, caller, recorded>>
    BY <1>2 DEF Elapse, RedisChanges, vars, breaker
  <2>2. QED
    BY <1>1, <2>1 DEF caller, EvidenceInv, WindowFresh, WindowCovered, Clearing, SeenFresh,
                      Covered, InFlight
<1>3. QED
  BY <1>1, <1>2, AskEvidence, BumpEvidence, LoadEvidence, RecordEvidence, ResetEvidence
     DEF Next, Step

(* A threshold met at min_calls or more is met at min_calls.               *)
LEMMA EnoughEvidence ==
    ASSUME NEW n \in Nat, NEW r \in Nat, NEW t \in 0..100, NEW calls \in Nat,
           NEW m \in Nat, calls >= m, n * 100 >= t * calls, n <= r \/ r >= m
    PROVE  r * 100 >= t * m
<1>1. t * calls >= t * m
  OBVIOUS
<1>2. 100 * m >= t * m
  OBVIOUS
<1>3. QED BY <1>1, <1>2

(* record_outcome decides on a snapshot it took before it had the lock;    *)
(* still it opens a closed breaker only on what was recorded since the     *)
(* breaker last closed, for any callers, window and thresholds, as long as *)
(* no guarded read outlives open_duration.                                 *)
THEOREM OpensOnEvidence == ASSUME Prompt PROVE Spec => OpensOnFreshEvidence
<1> DEFINE Fresh == state = "Closed" /\ state' = "Open" =>
                       \E k \in Kinds : recorded[k] * 100 >= Threshold[k] * MinCalls
<1>1. Init => EvidenceInv
  <2> SUFFICES ASSUME Init PROVE EvidenceInv
    OBVIOUS
  <2>1. ProbeInv
    BY TypeInit DEF Init, ProbeInv, ProbeClaimed, Drained, SingleProbe
  <2>2. \A k \in Kinds : Covered(Zero[k], k)
    BY DEF Init, Covered, Zero, Counters
  <2>3. win = Zero /\ \A c \in Callers : seen[c] = Zero
    BY DEF Init
  <2>4. QED BY <2>1, <2>2, <2>3 DEF EvidenceInv, WindowFresh, WindowCovered, SeenFresh
<1>2. EvidenceInv /\ [Next]_vars => EvidenceInv'
  BY EvidenceStep
<1>3. ASSUME EvidenceInv, [Next]_vars PROVE [Fresh]_vars
  <2> SUFFICES ASSUME state = "Closed", state' = "Open", Next
               PROVE  \E k \in Kinds : recorded[k] * 100 >= Threshold[k] * MinCalls
    BY <1>3
  <2>1. PICK c \in Callers : RecordOutcome(c)
    <3>1. ~RedisChanges /\ ~Elapse
      BY DEF RedisChanges, Elapse, breaker
    <3>2. PICK c \in Callers : Step(c) \/ Cancel(c)
      BY <3>1 DEF Next
    <3>3. ~Arrive(c) /\ ~AllowRequest(c) /\ ~LookUp(c) /\ ~Cancel(c)
      BY DEF Arrive, AllowRequest, LookUp, Cancel, breaker
    <3>4. ~Respond(c) /\ ~Bump(c) /\ ~Load(c) /\ ~Reset(c)
      BY DEF Respond, Bump, Load, Reset, breaker
    <3>5. ~TryEnterHalfOpen(c)
      BY DEF TryEnterHalfOpen
    <3>6. QED BY <3>2, <3>3, <3>4, <3>5 DEF Step
  <2>2. Trips(seen[c]) /\ pc[c] = "record"
    BY <2>1 DEF RecordOutcome, RecordClosed, RecordHalfOpen, RecordOpen
  <2>3. PICK k \in Kinds : seen[c][k] * 100 >= Threshold[k] * seen[c]["calls"]
    BY <2>2 DEF Trips
  <2>4. /\ seen[c][k] \in Nat /\ seen[c]["calls"] \in Nat /\ recorded[k] \in Nat
        /\ Threshold[k] \in 0..100 /\ MinCalls \in Nat
    BY <1>3, ThresholdAssumption DEF EvidenceInv, ProbeInv, TypeOK, Counters
  <2>5. Covered(seen[c][k], k)
    BY <1>3, <2>2 DEF EvidenceInv, SeenFresh
  <2>6. seen[c]["calls"] >= MinCalls
    BY <2>2 DEF Trips
  <2>7. recorded[k] * 100 >= Threshold[k] * MinCalls
    BY <2>3, <2>4, <2>5, <2>6, EnoughEvidence DEF Covered
  <2>8. QED BY <2>7
<1>4. QED BY <1>1, <1>2, <1>3, PTL DEF Spec, OpensOnFreshEvidence

-----------------------------------------------------------------------------
(* A probe nobody will report                                              *)

(* A caller that has not passed the gate of a half-open breaker with a     *)
(* claimed probe slot does not pass it, and has nothing to record.         *)
LEMMA OrphanStep == TypeOK /\ Orphaned /\ [Next]_vars => Orphaned'
<1> SUFFICES ASSUME TypeOK, Orphaned, [Next]_vars PROVE Orphaned'
  OBVIOUS
<1>0. state = "HalfOpen" /\ probe = TRUE /\ \A c \in Callers : ~PastGate(c)
  BY DEF Orphaned, TypeOK
<1>1. ASSUME UNCHANGED <<state, probe>>, NEW c \in Callers,
             NEW p \in {"idle", "dropped", "allow", "upgrade"}, pc' = [pc EXCEPT ![c] = p]
      PROVE  Orphaned'
  <2>1. \A d \in Callers \ {c} : pc'[d] = pc[d]
    BY <1>1 DEF TypeOK
  <2>2. pc'[c] = p
    BY <1>1 DEF TypeOK
  <2>3. \A d \in Callers : ~PastGate(d)'
    BY <1>0, <1>1, <2>1, <2>2 DEF PastGate, InFlight
  <2>4. QED BY <1>0, <1>1, <2>3 DEF Orphaned
<1>2. ASSUME NEW c \in Callers, Arrive(c) \/ Cancel(c) PROVE Orphaned'
  BY <1>1, <1>2 DEF Arrive, Cancel, breaker
<1>3. ASSUME NEW c \in Callers, AllowRequest(c) PROVE Orphaned'
  BY <1>0, <1>1, <1>3 DEF AllowRequest, breaker
<1>4. ASSUME NEW c \in Callers, TryEnterHalfOpen(c) PROVE Orphaned'
  <2>1. ~ReadyForProbe
    BY <1>0 DEF ReadyForProbe
  <2>2. /\ probe' = (probe \/ state = "HalfOpen") /\ state' = state
        /\ pc' = [pc EXCEPT ![c] = IF state = "HalfOpen" /\ ~probe THEN Admitted(c) ELSE "idle"]
    BY <1>4, <2>1 DEF TryEnterHalfOpen
  <2>3. probe' = probe
    BY <1>0, <2>2, Zenon
  <2>4. pc' = [pc EXCEPT ![c] = "idle"]
    BY <1>0, <2>2
  <2>5. QED BY <1>1, <2>2, <2>3, <2>4
<1>5. ASSUME NEW c \in Callers
      PROVE  ~LookUp(c) /\ ~Respond(c) /\ ~Bump(c) /\ ~Load(c) /\ ~RecordOutcome(c) /\ ~Reset(c)
  BY <1>0 DEF LookUp, Respond, Bump, Load, RecordOutcome, Reset, PastGate, InFlight
<1>6. ~Elapse
  BY <1>0 DEF Elapse
<1>7. CASE RedisChanges \/ UNCHANGED vars
  BY <1>0, <1>7 DEF RedisChanges, vars, breaker, caller, Orphaned, PastGate, InFlight
<1>8. QED BY <1>2, <1>3, <1>4, <1>5, <1>6, <1>7 DEF Next, Step

(* try_enter_half_open: once the caller that claimed the probe slot was    *)
(* dropped, or turned away by the second gate of the in-process capper,    *)
(* the breaker is half-open with a claimed slot in every later state,      *)
(* whatever Redis does, for any callers, window and thresholds.            *)
THEOREM OrphansStay == Spec => OrphanedForever /\ [](Orphaned => []Orphaned)
<1>1. Spec => []TypeOK
  BY TypeCorrect
<1>2. TypeOK /\ Orphaned /\ [Next]_vars => Orphaned'
  BY OrphanStep
<1>3. QED BY <1>1, <1>2, PTL DEF Spec, OrphanedForever

=============================================================================
