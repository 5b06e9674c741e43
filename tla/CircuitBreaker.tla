--------------------------- MODULE CircuitBreaker ---------------------------
(***************************************************************************)
(* The circuit breaker that guards every Redis read of the bidder          *)
(* (bidder-core/src/breaker/mod.rs), together with the request tasks that  *)
(* share it: the Redis callers, which ask allow_request, make the call and *)
(* report with record_outcome, and the in-process frequency capper, which  *)
(* asks allow_request on the same breaker before it looks at its cache.    *)
(*                                                                         *)
(* The breaker's Inner is behind an async RwLock, its window is three      *)
(* atomics that are touched with and without that lock.  A step of the     *)
(* model is one locked section, or one access to one of the atomics.  The  *)
(* atomics are Relaxed, so the three accesses of one Window method come in *)
(* any order.  Time is abstracted to one fact: whether open_duration has   *)
(* passed since opened_at.                                                 *)
(***************************************************************************)
EXTENDS Naturals, FiniteSets

CONSTANTS
    Callers,          \* request tasks, each making one guarded read at a time
    Wrapped,          \* those that come through InProcessFrequencyCapper::check
    Cancellable,      \* those whose future the HTTP timeout may drop
    Prompt,           \* no guarded read outlives open_duration (50 ms against 10 s)
    MinCalls,         \* BreakerConfig::min_calls
    WindowSize,       \* BreakerConfig::window_size
    Kinds,            \* the bad outcomes Redis shows: "error", "slow" or both
    Threshold,        \* per kind, BreakerConfig::error_rate_threshold and
                      \* slow_call_ratio_threshold, in percent
    CountBound,       \* bound: past this many calls in the window, a record completes
    NoOne             \* the write lock is free

ASSUME CallersAssumption ==
    /\ Wrapped \subseteq Callers
    /\ Cancellable \subseteq Callers
    /\ NoOne \notin Callers
    /\ Prompt \in BOOLEAN

ASSUME ThresholdAssumption ==
    /\ MinCalls \in Nat \ {0}
    /\ WindowSize \in Nat \ {0}
    /\ Kinds \subseteq {"error", "slow"}
    /\ Threshold \in [Kinds -> 0..100]
    /\ CountBound \in Nat

Counters == {"calls"} \cup Kinds

States == {"Closed", "Open", "HalfOpen"}

PCs == {"idle", "dropped", "allow", "upgrade", "lookup", "call", "bump", "load",
        "record", "reset_admit", "reset_done"}

VARIABLES
    state,      \* Inner::state
    expired,    \* Inner::opened_at.elapsed() >= open_duration
    probe,      \* Inner::half_open_probe_in_flight
    win,        \* Window's three counters
    lock,       \* the caller that holds the write lock over a window reset
    pc,         \* where each caller is
    gate,       \* the capper on whose behalf the caller asks: "cache" or "redis"
    out,        \* what its call came back with: the kinds that count against Redis
    todo,       \* the counters it still has to touch in the current Window method
    seen,       \* the snapshot it took of the window
    redis,      \* the health of Redis: "up" or "down"
    recorded    \* history: bad outcomes recorded since the breaker last closed

breaker == <<state, expired, probe, lock>>
caller == <<pc, gate, out, todo, seen>>
vars == <<breaker, win, caller, redis, recorded>>

Zero == [k \in Counters |-> 0]

Init ==
    /\ state = "Closed" /\ expired = FALSE /\ probe = FALSE /\ lock = NoOne
    /\ win = Zero
    /\ pc = [c \in Callers |-> "idle"]
    /\ gate = [c \in Callers |-> "redis"]
    /\ out = [c \in Callers |-> {}]
    /\ todo = [c \in Callers |-> {}]
    /\ seen = [c \in Callers |-> Zero]
    /\ redis = "up"
    /\ recorded = [k \in Kinds |-> 0]

-----------------------------------------------------------------------------
(* The breaker's decisions                                                 *)

Admitted(c) == IF gate[c] = "cache" THEN "lookup" ELSE "call"

(* Mutant: an open breaker lets a probe out without waiting.               *)
ReadyForProbeEarly == state = "Open"

ReadyForProbe == state = "Open" /\ expired

(* The three counters a caller loaded say that Redis is failing.           *)
Trips(s) ==
    /\ s["calls"] >= MinCalls
    /\ \E k \in Kinds : s[k] * 100 >= Threshold[k] * s["calls"]

-----------------------------------------------------------------------------
(* A request asks the breaker                                              *)

Arrive(c) ==
    /\ pc[c] \in {"idle", "dropped"}
    /\ pc' = [pc EXCEPT ![c] = "allow"]
    /\ gate' = [gate EXCEPT ![c] = IF c \in Wrapped THEN "cache" ELSE "redis"]
    /\ UNCHANGED <<breaker, win, out, todo, seen, redis, recorded>>

(* The read-locked part of allow_request: the answer, or the write path.   *)
AllowRequest(c) ==
    /\ pc[c] = "allow" /\ lock = NoOne
    /\ pc' = [pc EXCEPT ![c] = CASE state = "Closed" -> Admitted(c)
                                 [] state = "Open" /\ ~expired -> "idle"
                                 [] OTHER -> "upgrade"]
    /\ UNCHANGED <<breaker, win, gate, out, todo, seen, redis, recorded>>

(* Mutant: a half-open breaker admits without looking at the probe slot.   *)
TryEnterHalfOpenUnclaimed(c) ==
    /\ pc[c] = "upgrade" /\ lock = NoOne
    /\ \/ /\ ReadyForProbe
          /\ state' = "HalfOpen" /\ probe' = TRUE /\ lock' = c
          /\ pc' = [pc EXCEPT ![c] = "reset_admit"]
          /\ todo' = [todo EXCEPT ![c] = Counters]
       \/ /\ ~ReadyForProbe
          /\ probe' = (probe \/ state = "HalfOpen")
          /\ pc' = [pc EXCEPT ![c] = IF state = "HalfOpen"
                                     THEN Admitted(c) ELSE "idle"]
          /\ UNCHANGED <<state, lock, todo>>
    /\ UNCHANGED <<expired, win, gate, out, seen, redis, recorded>>

(* The first caller past open_duration makes the breaker half-open, claims *)
(* the probe and clears the window; a later one claims a free probe or is  *)
(* turned away.                                                            *)
TryEnterHalfOpen(c) ==
    /\ pc[c] = "upgrade" /\ lock = NoOne
    /\ \/ /\ ReadyForProbe
          /\ state' = "HalfOpen" /\ probe' = TRUE /\ lock' = c
          /\ pc' = [pc EXCEPT ![c] = "reset_admit"]
          /\ todo' = [todo EXCEPT ![c] = Counters]
       \/ /\ ~ReadyForProbe
          /\ probe' = (probe \/ state = "HalfOpen")
          /\ pc' = [pc EXCEPT ![c] = IF state = "HalfOpen" /\ ~probe
                                     THEN Admitted(c) ELSE "idle"]
          /\ UNCHANGED <<state, lock, todo>>
    /\ UNCHANGED <<expired, win, gate, out, seen, redis, recorded>>

(* InProcessFrequencyCapper::check past its own gate: all candidates warm, *)
(* answered from the cache; or some cold, asked of the Redis capper, which *)
(* has a gate of its own.                                                  *)
LookUp(c) ==
    /\ pc[c] = "lookup"
    /\ \/ /\ pc' = [pc EXCEPT ![c] = "idle"]
          /\ UNCHANGED gate
       \/ /\ pc' = [pc EXCEPT ![c] = "allow"]
          /\ gate' = [gate EXCEPT ![c] = "redis"]
    /\ UNCHANGED <<breaker, win, out, todo, seen, redis, recorded>>

-----------------------------------------------------------------------------
(* A request reports the outcome of its call                               *)

(* Mutant: Window::record counts the call and forgets what came of it.     *)
RespondUncounted(c) ==
    /\ pc[c] = "call"
    /\ \E o \in SUBSET Kinds :
          /\ (o = {}) <=> (redis = "up")
          /\ out' = [out EXCEPT ![c] = o]
          /\ todo' = [todo EXCEPT ![c] = {"calls"}]
    /\ pc' = [pc EXCEPT ![c] = "bump"]
    /\ UNCHANGED <<breaker, win, gate, seen, redis, recorded>>

(* The call returns, fails or runs into the caller's own timeout.          *)
Respond(c) ==
    /\ pc[c] = "call"
    /\ \E o \in SUBSET Kinds :
          /\ (o = {}) <=> (redis = "up")
          /\ out' = [out EXCEPT ![c] = o]
          /\ todo' = [todo EXCEPT ![c] = {"calls"} \cup o]
    /\ pc' = [pc EXCEPT ![c] = "bump"]
    /\ UNCHANGED <<breaker, win, gate, seen, redis, recorded>>

(* Window::record, one fetch_add at a time.                                *)
Bump(c) ==
    /\ pc[c] = "bump"
    /\ \E k \in todo[c] :
          /\ win' = [win EXCEPT ![k] = @ + 1]
          /\ recorded' = [f \in Kinds |-> IF f = k /\ recorded[f] < MinCalls
                                          THEN recorded[f] + 1 ELSE recorded[f]]
          /\ IF todo[c] = {k}
             THEN /\ todo' = [todo EXCEPT ![c] = Counters]
                  /\ pc' = [pc EXCEPT ![c] = "load"]
             ELSE /\ todo' = [todo EXCEPT ![c] = @ \ {k}]
                  /\ UNCHANGED pc
    /\ UNCHANGED <<breaker, gate, out, seen, redis>>

(* Window::snapshot, one load at a time, before the lock is awaited.       *)
Load(c) ==
    /\ pc[c] = "load"
    /\ \E k \in todo[c] :
          /\ seen' = [seen EXCEPT ![c][k] = win[k]]
          /\ todo' = [todo EXCEPT ![c] = @ \ {k}]
          /\ pc' = [pc EXCEPT ![c] = IF todo[c] = {k} THEN "record" ELSE "load"]
    /\ UNCHANGED <<breaker, win, gate, out, redis, recorded>>

(* The caller leaves record_outcome, or keeps the lock and resets.         *)
Finish(c, reset) ==
    /\ lock' = IF reset THEN c ELSE NoOne
    /\ pc' = [pc EXCEPT ![c] = IF reset THEN "reset_done" ELSE "idle"]
    /\ todo' = [todo EXCEPT ![c] = IF reset THEN Counters ELSE {}]
    /\ out' = [out EXCEPT ![c] = {}]
    /\ seen' = [seen EXCEPT ![c] = IF reset THEN @ ELSE Zero]

RecordClosed(c) ==
    /\ state = "Closed"
    /\ state' = IF Trips(seen[c]) THEN "Open" ELSE "Closed"
    /\ expired' = FALSE
    /\ Finish(c, Trips(seen[c]) \/ seen[c]["calls"] >= WindowSize)
    /\ UNCHANGED <<probe, recorded>>

(* Mutant: a probe reopens the breaker whatever came of it.                *)
RecordHalfOpenReopens(c) ==
    /\ state = "HalfOpen"
    /\ probe' = FALSE
    /\ state' = "Open"
    /\ expired' = FALSE
    /\ Finish(c, TRUE)
    /\ UNCHANGED recorded

RecordHalfOpen(c) ==
    /\ state = "HalfOpen"
    /\ probe' = FALSE
    /\ state' = IF out[c] = {} THEN "Closed" ELSE "Open"
    /\ expired' = FALSE
    /\ recorded' = IF out[c] = {} THEN [k \in Kinds |-> 0] ELSE recorded
    /\ Finish(c, TRUE)

RecordOpen(c) ==
    /\ state = "Open"
    /\ Finish(c, FALSE)
    /\ UNCHANGED <<state, expired, probe, recorded>>

(* The write-locked part of record_outcome.                                *)
RecordOutcome(c) ==
    /\ pc[c] = "record" /\ lock = NoOne
    /\ RecordClosed(c) \/ RecordHalfOpen(c) \/ RecordOpen(c)
    /\ UNCHANGED <<win, gate, redis>>

(* Mutant: reset clears the total and leaves the errors standing.          *)
ResetTotalOnly(c) ==
    /\ pc[c] \in {"reset_admit", "reset_done"}
    /\ win' = [win EXCEPT !["calls"] = 0]
    /\ todo' = [todo EXCEPT ![c] = {}]
    /\ lock' = NoOne
    /\ seen' = [seen EXCEPT ![c] = Zero]
    /\ pc' = [pc EXCEPT ![c] = IF @ = "reset_admit" THEN Admitted(c) ELSE "idle"]
    /\ UNCHANGED <<state, expired, probe, gate, out, redis, recorded>>

(* Window::reset, one store at a time, under the write lock.               *)
Reset(c) ==
    /\ pc[c] \in {"reset_admit", "reset_done"}
    /\ \E k \in todo[c] :
          /\ win' = [win EXCEPT ![k] = 0]
          /\ todo' = [todo EXCEPT ![c] = @ \ {k}]
          /\ IF todo[c] = {k}
             THEN /\ lock' = NoOne
                  /\ seen' = [seen EXCEPT ![c] = Zero]
                  /\ pc' = [pc EXCEPT ![c] = IF @ = "reset_admit"
                                             THEN Admitted(c) ELSE "idle"]
             ELSE UNCHANGED <<lock, seen, pc>>
    /\ UNCHANGED <<state, expired, probe, gate, out, redis, recorded>>

-----------------------------------------------------------------------------
(* The environment                                                         *)

(* The HTTP timeout drops the request's future at an await.  A record that *)
(* is dropped leaves its call in the window and never resets it, so their  *)
(* number is bounded here.  "dropped" is "idle" under another name.        *)
Cancel(c) ==
    /\ c \in Cancellable
    /\ pc[c] \in {"allow", "upgrade", "call", "record"}
    /\ pc[c] = "record" => win["calls"] <= CountBound
    /\ pc' = [pc EXCEPT ![c] = "dropped"]
    /\ out' = [out EXCEPT ![c] = {}]
    /\ seen' = [seen EXCEPT ![c] = Zero]
    /\ UNCHANGED <<breaker, win, gate, todo, redis, recorded>>

(* A caller holds an admission it has not reported on.                     *)
InFlight(c) == pc[c] \in {"call", "bump", "load", "record", "reset_admit",
                          "reset_done"}

PastGate(c) == InFlight(c) \/ pc[c] = "lookup"

(* open_duration passes.                                                   *)
Elapse ==
    /\ state = "Open" /\ ~expired
    /\ Prompt => \A c \in Callers : ~InFlight(c)
    /\ expired' = TRUE
    /\ UNCHANGED <<state, probe, lock, win, caller, redis, recorded>>

RedisChanges ==
    /\ redis' = IF redis = "up" THEN "down" ELSE "up"
    /\ UNCHANGED <<breaker, win, caller, recorded>>

-----------------------------------------------------------------------------

Step(c) ==
    \/ Arrive(c) \/ AllowRequest(c) \/ TryEnterHalfOpen(c) \/ LookUp(c)
    \/ Respond(c) \/ Bump(c) \/ Load(c) \/ RecordOutcome(c) \/ Reset(c)

Next ==
    \/ \E c \in Callers : Step(c) \/ Cancel(c)
    \/ Elapse
    \/ RedisChanges

Spec == Init /\ [][Next]_vars

(* Traffic goes on, tokio's RwLock hands out its permits in arrival order, *)
(* and time passes.  Nothing makes a future be dropped or Redis change.    *)
Fairness ==
    /\ \A c \in Callers : SF_vars(Step(c))
    /\ WF_vars(Elapse)

FairSpec == Spec /\ Fairness

-----------------------------------------------------------------------------
(* Properties                                                              *)

(* Every variable stays in its type; the write lock is held exactly by the *)
(* caller that is resetting the window.                                    *)
TypeOK ==
    /\ state \in States
    /\ expired \in BOOLEAN
    /\ probe \in BOOLEAN
    /\ win \in [Counters -> Nat]
    /\ lock \in Callers \cup {NoOne}
    /\ pc \in [Callers -> PCs]
    /\ gate \in [Callers -> {"cache", "redis"}]
    /\ out \in [Callers -> SUBSET Kinds]
    /\ todo \in [Callers -> SUBSET Counters]
    /\ seen \in [Callers -> [Counters -> Nat]]
    /\ redis \in {"up", "down"}
    /\ recorded \in [Kinds -> Nat]
    /\ \A c \in Callers : lock = c <=> pc[c] \in {"reset_admit", "reset_done"}

(* "Half-open allows exactly one probe at a time" (allow_request): while   *)
(* the breaker is half-open no two callers are past the gate.              *)
SingleProbe ==
    state = "HalfOpen" =>
        \A c, d \in Callers : InFlight(c) /\ InFlight(d) => c = d

(* "Open -> HalfOpen after open_duration elapses": allow_request and its   *)
(* write path re-check what they act on.  The breaker leaves Open, and a   *)
(* caller passes the gate, never before open_duration has passed; a caller *)
(* that left the read-locked section in another state is held to it too.   *)
OpenDurationHonoured ==
    [][state = "Open" /\ ~expired =>
          /\ state' = "Open"
          /\ \A c \in Callers : PastGate(c)' => PastGate(c)]_vars

(* record_outcome opens a closed breaker only on what Redis did since the  *)
(* breaker last closed: enough bad outcomes of one kind were recorded in   *)
(* this closed period to pass the threshold at min_calls.  A snapshot from *)
(* before the last recovery must not count.                                *)
OpensOnFreshEvidence ==
    [][state = "Closed" /\ state' = "Open" =>
          \E k \in Kinds : recorded[k] * 100 >= Threshold[k] * MinCalls]_vars

(* A probe that will never be reported: its caller was dropped, or was     *)
(* turned away by the second gate of the in-process capper.                *)
Orphaned == state = "HalfOpen" /\ probe /\ \A c \in Callers : ~PastGate(c)

(* allow_request has no way out of that: only record_outcome gives the     *)
(* probe slot back, and no caller gets far enough to call it.  Once a      *)
(* probe is orphaned the breaker is half-open, and refuses every call, for *)
(* as long as the process runs.                                            *)
OrphanedForever == [][Orphaned => Orphaned']_vars

(* From some time on no future is dropped.                                 *)
CancelsEnd == <>[](\A c \in Callers : pc[c] # "dropped")

(* The breaker recovers: once Redis stays up and requests are no longer    *)
(* dropped, record_outcome closes the breaker for good, unless a probe was *)
(* orphaned before.  Nothing else keeps it from closing.                   *)
RecoversUnlessOrphaned ==
    <>[](redis = "up") /\ CancelsEnd => <>[](state = "Closed") \/ <>[]Orphaned

(* The breaker protects: while Redis stays down, record_outcome keeps      *)
(* opening it, whatever the interleaving of records, snapshots and resets, *)
(* unless a probe was orphaned; then it stays half-open.                   *)
OpensWhenRedisDown ==
    <>[](redis = "down") /\ CancelsEnd => []<>(state = "Open") \/ <>[]Orphaned

(* "HalfOpen -> Closed on one successful probe": once Redis stays up, the  *)
(* breaker closes for good.                                                *)
RecoversWithRedis == <>[](redis = "up") => <>[](state = "Closed")

=============================================================================
