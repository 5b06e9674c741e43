--------------------------- MODULE KafkaPublisher ---------------------------
(***************************************************************************)
(* The event publisher of bidder-server/src/kafka.rs, librdkafka's queue   *)
(* and the poll thread behind it, and the monitor of                       *)
(* bidder-core/src/kafka_incident.rs, which switches the drop policy to    *)
(* sampling while too many events are dropped.                             *)
(*                                                                         *)
(* The totals of KafkaIncidentState are kept as what was added since the   *)
(* monitor last read them, which is all the monitor uses.                  *)
(***************************************************************************)
EXTENDS Naturals, FiniteSets, Sequences

CONSTANTS
    Publishers,     \* handlers that publish events
    BasePolicy,     \* [kafka] drop_policy
    Capacity,       \* queue.buffering.max.messages
    Denominator,    \* RANDOM_SAMPLE_DENOMINATOR
    Dwell,          \* dwell_ticks
    Threshold,      \* the drop rate that counts as an incident, in percent
    MaxPerTick,     \* bound: events between two ticks of the monitor
    CanWedge        \* poll() may never come back

ASSUME KafkaAssumption ==
    /\ IsFiniteSet(Publishers)
    /\ BasePolicy \in {"Newest", "Oldest", "RandomSample", "IncidentMode"}
    /\ Denominator \in Nat \ {0}
    /\ Dwell \in Nat \ {0}
    /\ Capacity \in Nat /\ Threshold \in Nat /\ MaxPerTick \in Nat
    /\ CanWedge \in BOOLEAN

(* EffectivePolicy::from: incident_mode starts as Newest and flips itself. *)
Base == IF BasePolicy = "IncidentMode" THEN "Newest" ELSE BasePolicy
AutoFlip == BasePolicy = "IncidentMode"

VARIABLES
    policy,     \* KafkaIncidentState::effective
    published,  \* published_total since the monitor's last tick
    dropped,    \* dropped_total since the monitor's last tick
    sample,     \* sample_counter, modulo the denominator
    pc,         \* where each publisher is: "idle" or "send"
    queue,      \* messages in librdkafka's queue
    broker,     \* "up" or "down"
    poll,       \* the poll thread: "poll", "flush", "wedged" or "ended"
    publisher,  \* KafkaEventPublisher: "alive", "joining" or "gone"
    tick,       \* the monitor: "wait", or "load" with the published it loaded
    pubDelta,
    over,       \* over_count, capped at Dwell
    under,      \* under_count, capped at Dwell
    incident,   \* in_incident
    recent,     \* history: the verdicts of the last Dwell ticks
    owed        \* history: events published and not yet counted

counts == <<published, dropped>>
monitor == <<tick, pubDelta, over, under, incident, recent>>
vars == <<policy, counts, sample, pc, queue, broker, poll, publisher, monitor, owed>>

Init ==
    /\ policy = Base
    /\ published = 0 /\ dropped = 0
    /\ sample = 0
    /\ pc = [p \in Publishers |-> "idle"]
    /\ queue = 0 /\ broker = "up"
    /\ poll = "poll" /\ publisher = "alive"
    /\ tick = "wait" /\ pubDelta = 0
    /\ over = 0 /\ under = 0 /\ incident = FALSE
    /\ recent = <<>>
    /\ owed = 0

-----------------------------------------------------------------------------
(* KafkaEventPublisher::publish                                            *)

(* record_published and record_dropped: one event has had its outcome.     *)
Counted(p, d) ==
    /\ published' = published + p
    /\ dropped' = dropped + d

(* The policy is read; in sampling mode one event in Denominator goes on.  *)
Publish(p) ==
    /\ publisher = "alive" /\ pc[p] = "idle"
    /\ published + dropped + owed < MaxPerTick
    /\ IF policy = "RandomSample"
       THEN /\ sample' = (sample + 1) % Denominator
            /\ IF sample = 0
               THEN /\ pc' = [pc EXCEPT ![p] = "send"]
                    /\ owed' = owed + 1
                    /\ UNCHANGED counts
               ELSE /\ Counted(0, 1)
                    /\ UNCHANGED <<pc, owed>>
       ELSE /\ pc' = [pc EXCEPT ![p] = "send"]
            /\ owed' = owed + 1
            /\ UNCHANGED <<counts, sample>>
    /\ UNCHANGED <<policy, queue, broker, poll, publisher, monitor>>

(* Mutant: a message is counted as published when it is queued, too.       *)
SendCounts(p) ==
    /\ pc[p] = "send"
    /\ pc' = [pc EXCEPT ![p] = "idle"]
    /\ \/ /\ queue < Capacity
          /\ queue' = queue + 1
          /\ Counted(1, 0) /\ owed' = owed - 1
       \/ /\ queue = Capacity \/ broker = "down"
          /\ Counted(0, 1) /\ owed' = owed - 1
          /\ UNCHANGED queue
    /\ UNCHANGED <<policy, sample, broker, poll, publisher, monitor>>

(* BaseProducer::send: on the queue, or QueueFull or another error, which  *)
(* is a drop.                                                              *)
Send(p) ==
    /\ pc[p] = "send"
    /\ pc' = [pc EXCEPT ![p] = "idle"]
    /\ \/ /\ queue < Capacity
          /\ queue' = queue + 1
          /\ UNCHANGED <<counts, owed>>
       \/ /\ queue = Capacity \/ broker = "down"
          /\ Counted(0, 1) /\ owed' = owed - 1
          /\ UNCHANGED queue
    /\ UNCHANGED <<policy, sample, broker, poll, publisher, monitor>>

-----------------------------------------------------------------------------
(* The poll thread and Drop                                                *)

(* Mutant: any delivery report counts as published.                        *)
DeliveryAllPublished ==
    /\ poll \in {"poll", "flush"} /\ queue > 0
    /\ queue' = queue - 1 /\ owed' = owed - 1
    /\ Counted(1, 0)
    /\ UNCHANGED <<policy, sample, pc, broker, poll, publisher, monitor>>

(* The delivery callback: acknowledged by the broker, or failed.           *)
Delivery ==
    /\ poll \in {"poll", "flush"} /\ queue > 0
    /\ queue' = queue - 1 /\ owed' = owed - 1
    /\ IF broker = "up" THEN Counted(1, 0) ELSE Counted(0, 1)
    /\ UNCHANGED <<policy, sample, pc, broker, poll, publisher, monitor>>

(* Mutant: the flag is set after the join.                                 *)
PollReturnsLate ==
    /\ poll = "poll" /\ publisher = "gone"
    /\ poll' = "flush"
    /\ UNCHANGED <<policy, counts, sample, pc, queue, broker, publisher, monitor, owed>>

(* poll returns, and the thread looks at the shutdown flag.                *)
PollReturns ==
    /\ poll = "poll" /\ publisher = "joining"
    /\ poll' = "flush"
    /\ UNCHANGED <<policy, counts, sample, pc, queue, broker, publisher, monitor, owed>>

(* flush returns with the queue empty, or after five seconds.              *)
FlushReturns ==
    /\ poll = "flush"
    /\ queue = 0 \/ broker = "down"
    /\ poll' = "ended"
    /\ UNCHANGED <<policy, counts, sample, pc, queue, broker, publisher, monitor, owed>>

Wedge ==
    /\ CanWedge /\ poll \in {"poll", "flush"}
    /\ poll' = "wedged"
    /\ UNCHANGED <<policy, counts, sample, pc, queue, broker, publisher, monitor, owed>>

(* Drop, once no handler has the publisher: set the flag,                  *)
Drop ==
    /\ publisher = "alive" /\ \A p \in Publishers : pc[p] = "idle"
    /\ publisher' = "joining"
    /\ UNCHANGED <<policy, counts, sample, pc, queue, broker, poll, monitor, owed>>

(* and join the thread.                                                    *)
Join ==
    /\ publisher = "joining" /\ poll = "ended"
    /\ publisher' = "gone"
    /\ UNCHANGED <<policy, counts, sample, pc, queue, broker, poll, monitor, owed>>

BrokerChanges ==
    /\ broker' = IF broker = "up" THEN "down" ELSE "up"
    /\ UNCHANGED <<policy, counts, sample, pc, queue, poll, publisher, monitor, owed>>

-----------------------------------------------------------------------------
(* spawn_monitor                                                           *)

(* The first half of snapshot,                                             *)
Tick ==
    /\ tick = "wait"
    /\ tick' = "load"
    /\ pubDelta' = published /\ published' = 0
    /\ UNCHANGED <<policy, dropped, sample, pc, queue, broker, poll, publisher,
                   over, under, incident, recent, owed>>

TooManyDrops(p, d) == d * 100 > Threshold * (p + d)

UpTo(n, bound) == IF n < bound THEN n ELSE bound

(* Mutant: a sample on one side leaves the other side's counter standing.  *)
CountSampleKeeps(bad) ==
    /\ over' = IF bad THEN UpTo(over + 1, Dwell) ELSE over
    /\ under' = IF bad THEN under ELSE UpTo(under + 1, Dwell)

(* the counters of consecutive samples on either side of the threshold,    *)
CountSample(bad) ==
    /\ over' = IF bad THEN UpTo(over + 1, Dwell) ELSE 0
    /\ under' = IF bad THEN 0 ELSE UpTo(under + 1, Dwell)

(* and the second half, with what the monitor makes of the sample.         *)
Judge ==
    /\ tick = "load"
    /\ dropped' = 0
    /\ LET bad == TooManyDrops(pubDelta, dropped) IN
          IF AutoFlip
          THEN /\ CountSample(bad)
               /\ recent' = SubSeq(<<bad>> \o recent, 1, UpTo(Len(recent) + 1, Dwell))
               /\ IF ~incident /\ over' >= Dwell
                  THEN policy' = "RandomSample" /\ incident' = TRUE
                  ELSE IF incident /\ under' >= Dwell
                  THEN policy' = Base /\ incident' = FALSE
                  ELSE UNCHANGED <<policy, incident>>
          ELSE UNCHANGED <<policy, over, under, incident, recent>>
    /\ tick' = "wait" /\ pubDelta' = 0
    /\ UNCHANGED <<published, sample, pc, queue, broker, poll, publisher, owed>>

-----------------------------------------------------------------------------

Next ==
    \/ \E p \in Publishers : Publish(p) \/ Send(p)
    \/ Delivery \/ PollReturns \/ FlushReturns \/ Wedge \/ Drop \/ Join
    \/ BrokerChanges
    \/ Tick \/ Judge

Spec == Init /\ [][Next]_vars

(* Traffic goes on, the threads run, poll() and flush() return unless      *)
(* wedged, and the monitor's interval ticks.  Nothing makes the server     *)
(* shut down or the broker change.                                         *)
Fairness ==
    /\ \A p \in Publishers : WF_vars(Publish(p)) /\ WF_vars(Send(p))
    /\ WF_vars(Delivery) /\ WF_vars(PollReturns) /\ WF_vars(FlushReturns) /\ WF_vars(Join)
    /\ WF_vars(Tick) /\ WF_vars(Judge)

FairSpec == Spec /\ Fairness

-----------------------------------------------------------------------------
(* Properties                                                              *)

(* The types, with the bound of librdkafka's queue that makes send() fail  *)
(* with QueueFull instead of blocking the bid path.                        *)
TypeOK ==
    /\ policy \in {"Newest", "Oldest", "RandomSample"}
    /\ published \in Nat /\ dropped \in Nat
    /\ sample \in 0..(Denominator - 1)
    /\ pc \in [Publishers -> {"idle", "send"}]
    /\ queue \in 0..Capacity
    /\ broker \in {"up", "down"}
    /\ poll \in {"poll", "flush", "wedged", "ended"}
    /\ publisher \in {"alive", "joining", "gone"}
    /\ tick \in {"wait", "load"} /\ pubDelta \in Nat
    /\ over \in 0..Dwell /\ under \in 0..Dwell
    /\ incident \in BOOLEAN
    /\ recent \in Seq(BOOLEAN) /\ Len(recent) <= Dwell
    /\ owed \in Nat

(* Every event is counted exactly once, as published by the delivery       *)
(* callback or as dropped by whoever gave up on it: what is not counted    *)
(* yet is on its way into the queue or in it.                              *)
CountedOnce == owed = queue + Cardinality({p \in Publishers : pc[p] = "send"})

(* The monitor flips "when the drop rate sustains above a threshold for    *)
(* the dwell duration" and reverts when it is below "for the same dwell":  *)
(* the last Dwell samples all say so, whatever came between two flips.     *)
FlipsAreSustained ==
    [][/\ policy' = "RandomSample" /\ policy # policy' => recent' = [i \in 1..Dwell |-> TRUE]
       /\ policy' = Base /\ policy # policy' => recent' = [i \in 1..Dwell |-> FALSE]]_vars

(* The monitor notices: while the broker stays down and no tick passes     *)
(* without the outcome of an event, the policy ends up at sampling and     *)
(* stays there, the poll thread wedged or not.                             *)
OutageIsSampled ==
    <>[](broker = "down" /\ publisher = "alive") /\ <>[][Tick => published + dropped > 0]_vars
        => <>[](policy = "RandomSample")

(* What the join in Drop does: it returns once the poll thread has seen    *)
(* the flag and flushed, and for as long as librdkafka keeps the thread it *)
(* never returns.  The comment in Drop wants "best-effort", so that a      *)
(* wedged thread does not hang the shutdown; handle.join() has no bound.   *)
DropWaitsForPoll ==
    /\ publisher = "joining" ~> publisher = "gone" \/ poll = "wedged"
    /\ [](publisher = "joining" /\ poll = "wedged" => [](publisher = "joining"))

(* "When the rate falls back below the threshold for the same dwell, it    *)
(* reverts to the base": with the broker back for good, sampling ends.     *)
RevertsWithBroker ==
    <>[](broker = "up" /\ publisher = "alive") => []<>(policy = Base)

=============================================================================
