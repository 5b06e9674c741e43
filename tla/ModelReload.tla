---------------------------- MODULE ModelReload ----------------------------
(***************************************************************************)
(* The model behind each MLScorer of bidder-core/src/scoring/ml.rs: the    *)
(* first load, the watcher that reloads the file when it changes, and the  *)
(* pool of sessions that scoring picks from.                               *)
(*                                                                         *)
(* A write of the file gives it a new stamp; what a reader finds there is  *)
(* its kind.  A pool is built session by session, and every session reads  *)
(* the file on its own, so one pool can hold two contents.  The poller     *)
(* (notify::PollWatcher with compare_contents(false)) compares             *)
(* modification times: it misses a write made in the second of its last    *)
(* scan.                                                                   *)
(***************************************************************************)
EXTENDS Naturals, Sequences

CONSTANTS
    Scorers,    \* the MLScorers that may be built
    PoolSize,   \* MLScorerConfig::pool_size
    MaxStamp,   \* bound: contents the file goes through
    MaxEvents   \* bound: events waiting in the watcher's channel

ASSUME ReloadAssumption ==
    /\ PoolSize \in Nat \ {0}
    /\ MaxStamp \in Nat \ {0} /\ MaxEvents \in Nat \ {0}

(* A whole model that infers, a whole one whose inference fails, a file    *)
(* that is half written, and no file.                                      *)
Kinds == {"good", "failing", "partial", "absent"}

(* One session: the content it was created from.                           *)
Sessions == [stamp : 1..MaxStamp, kind : {"good", "failing"}]

VARIABLES
    file,   \* the model file: its stamp and kind
    boot,   \* MLScorer::new: "off", "load", "watch", "parity", "up", "refused"
    task,   \* the watcher task: "off", "recv", "debounce" or "build"
    chan,   \* its channel: "change" is an event it acts on, "other" is not
    dirty,  \* the file's modification time is not the one last scanned
    seen,   \* history: the stamp of the last change the poller reported
    made,   \* sessions of the snapshot being built
    pool,   \* ModelSnapshot::sessions
    next    \* ModelSnapshot::next, modulo the pool's size

watcher == <<task, chan, dirty, seen>>
reloadVars == <<file, boot, watcher, made, pool, next>>

ReloadInit ==
    /\ file \in [stamp : {1}, kind : Kinds]
    /\ boot = [s \in Scorers |-> "off"]
    /\ task = [s \in Scorers |-> "off"]
    /\ chan = [s \in Scorers |-> <<>>]
    /\ dirty = [s \in Scorers |-> FALSE]
    /\ seen = [s \in Scorers |-> 0]
    /\ made = [s \in Scorers |-> <<>>]
    /\ pool = [s \in Scorers |-> <<>>]
    /\ next = [s \in Scorers |-> 0]

Refused == \E s \in Scorers : boot[s] = "refused"
Loads == file.kind \in {"good", "failing"}

-----------------------------------------------------------------------------
(* The file, and the poller that scans its directory every five seconds    *)

(* A rollout writes or removes the file; a write in the second of the last *)
(* scan leaves the modification time the poller knows.                     *)
WriteModel(kind) ==
    /\ ~Refused /\ file.stamp < MaxStamp
    /\ file' = [stamp |-> file.stamp + 1, kind |-> kind]
    /\ dirty' \in {dirty, [s \in Scorers |-> task[s] # "off"]}
    /\ UNCHANGED <<boot, task, chan, seen, made, pool, next>>

(* A scan finds another modification time: Create and Modify are acted on, *)
(* Remove is not.                                                          *)
Poll(s) ==
    /\ ~Refused /\ dirty[s] /\ Len(chan[s]) < MaxEvents
    /\ chan' = [chan EXCEPT ![s] =
                    Append(@, IF file.kind = "absent" THEN "other" ELSE "change")]
    /\ dirty' = [dirty EXCEPT ![s] = FALSE]
    /\ seen' = [seen EXCEPT ![s] = file.stamp]
    /\ UNCHANGED <<file, boot, task, made, pool, next>>

(* Another file of the directory changed.                                  *)
PollOther(s) ==
    /\ ~Refused /\ task[s] # "off" /\ Len(chan[s]) + 1 < MaxEvents
    /\ chan' = [chan EXCEPT ![s] = Append(@, "other")]
    /\ UNCHANGED <<file, boot, task, dirty, seen, made, pool, next>>

-----------------------------------------------------------------------------
(* ModelSnapshot::build                                                    *)

Session == [stamp |-> file.stamp, kind |-> file.kind]

(* One more session is created from the file.                              *)
BuildSession(s) == Append(made[s], Session)

(* The pool is complete: it replaces the old one in a single store.        *)
Publish(s) ==
    /\ pool' = [pool EXCEPT ![s] = BuildSession(s)]
    /\ next' = [next EXCEPT ![s] = 0]
    /\ made' = [made EXCEPT ![s] = <<>>]

(* for _ in 0..pool_size: the session made now is the last one.            *)
Complete(s) == Len(made[s]) + 1 = PoolSize

-----------------------------------------------------------------------------
(* MLScorer::new_with_fallback, called once per ml leaf, one after another *)

BeginLoad(s) ==
    /\ boot[s] = "off" /\ \A t \in Scorers : boot[t] \in {"off", "up"}
    /\ boot' = [boot EXCEPT ![s] = "load"]
    /\ UNCHANGED <<file, watcher, made, pool, next>>

Load(s) ==
    /\ boot[s] = "load" /\ Loads
    /\ IF Complete(s)
          THEN /\ Publish(s)
               /\ boot' = [boot EXCEPT ![s] = "watch"]
          ELSE /\ made' = [made EXCEPT ![s] = BuildSession(s)]
               /\ UNCHANGED <<boot, pool, next>>
    /\ UNCHANGED <<file, watcher>>

LoadFails(s) ==
    /\ boot[s] = "load" /\ ~Loads
    /\ boot' = [boot EXCEPT ![s] = "refused"]
    /\ made' = [made EXCEPT ![s] = <<>>]
    /\ UNCHANGED <<file, watcher, pool, next>>

(* start_watcher: the first scan is the baseline, so what was written      *)
(* since the load is never reported.  Without a watcher hot reload is off. *)
StartWatcher(s) ==
    /\ boot[s] = "watch"
    /\ boot' = [boot EXCEPT ![s] = "parity"]
    /\ task' \in {task, [task EXCEPT ![s] = "recv"]}
    /\ UNCHANGED <<file, chan, dirty, seen, made, pool, next>>

(* verify_parity runs session 0 of the current pool; the scores it finds   *)
(* may have drifted from the recorded ones.                                *)
VerifyParity(s) ==
    /\ boot[s] = "parity"
    /\ \/ /\ pool[s][1].kind = "good"
          /\ boot' = [boot EXCEPT ![s] = "up"]
       \/ boot' = [boot EXCEPT ![s] = "refused"]
    /\ UNCHANGED <<file, watcher, made, pool, next>>

(* No parity_path is configured.                                           *)
SkipParity(s) ==
    /\ boot[s] = "parity"
    /\ boot' = [boot EXCEPT ![s] = "up"]
    /\ UNCHANGED <<file, watcher, made, pool, next>>

-----------------------------------------------------------------------------
(* The watcher task                                                        *)

TaskRecv(s) ==
    /\ ~Refused /\ task[s] = "recv" /\ chan[s] # <<>>
    /\ chan' = [chan EXCEPT ![s] = Tail(@)]
    /\ task' = [task EXCEPT ![s] = IF Head(chan[s]) = "change" THEN "debounce" ELSE "recv"]
    /\ UNCHANGED <<file, boot, dirty, seen, made, pool, next>>

(* A debounce that starts over whenever events came meanwhile.             *)
TaskDebounceRearms(s) ==
    /\ ~Refused /\ task[s] = "debounce"
    /\ chan' = [chan EXCEPT ![s] = <<>>]
    /\ task' = [task EXCEPT ![s] = IF chan[s] = <<>> THEN "build" ELSE "debounce"]
    /\ UNCHANGED <<file, boot, dirty, seen, made, pool, next>>

(* The debounce sleep ends and the events that came meanwhile are drained. *)
TaskDebounce(s) ==
    /\ ~Refused /\ task[s] = "debounce"
    /\ chan' = [chan EXCEPT ![s] = <<>>]
    /\ task' = [task EXCEPT ![s] = "build"]
    /\ UNCHANGED <<file, boot, dirty, seen, made, pool, next>>

(* The same with the drain after the build instead of before it.           *)
TaskBuildDrains(s) ==
    /\ ~Refused /\ task[s] = "build" /\ Loads
    /\ IF Complete(s)
          THEN /\ Publish(s)
               /\ task' = [task EXCEPT ![s] = "recv"]
               /\ chan' = [chan EXCEPT ![s] = <<>>]
          ELSE /\ made' = [made EXCEPT ![s] = BuildSession(s)]
               /\ UNCHANGED <<task, chan, pool, next>>
    /\ UNCHANGED <<file, boot, dirty, seen>>

TaskBuild(s) ==
    /\ ~Refused /\ task[s] = "build" /\ Loads
    /\ IF Complete(s)
          THEN /\ Publish(s)
               /\ task' = [task EXCEPT ![s] = "recv"]
          ELSE /\ made' = [made EXCEPT ![s] = BuildSession(s)]
               /\ UNCHANGED <<task, pool, next>>
    /\ UNCHANGED <<file, boot, chan, dirty, seen>>

(* The build fails: the task stays on the previous model.                  *)
TaskBuildFails(s) ==
    /\ ~Refused /\ task[s] = "build" /\ ~Loads
    /\ task' = [task EXCEPT ![s] = "recv"]
    /\ made' = [made EXCEPT ![s] = <<>>]
    /\ UNCHANGED <<file, boot, chan, dirty, seen, pool, next>>

TaskStep(s) == TaskRecv(s) \/ TaskDebounce(s) \/ TaskBuild(s) \/ TaskBuildFails(s)

BootStep(s) ==
    \/ Load(s) \/ LoadFails(s) \/ StartWatcher(s)
    \/ VerifyParity(s) \/ SkipParity(s)

-----------------------------------------------------------------------------
(* ModelSnapshot::pick takes the next session, round robin.                *)
Pick(s) ==
    /\ pool[s] # <<>>
    /\ next' = [next EXCEPT ![s] = (@ + 1) % PoolSize]
    /\ UNCHANGED <<file, boot, watcher, made, pool>>

Picked(s) == pool[s][next[s] + 1]

ReloadNext ==
    \/ \E kind \in Kinds : WriteModel(kind)
    \/ \E s \in Scorers :
          \/ Poll(s) \/ PollOther(s)
          \/ BeginLoad(s) \/ BootStep(s) \/ TaskStep(s)
          \/ Pick(s)

ReloadSpec == ReloadInit /\ [][ReloadNext]_reloadVars

-----------------------------------------------------------------------------
(* The stamps, phases and sessions stay in their ranges, a pool is either  *)
(* complete or not there yet, and a snapshot in the making is never full.  *)
ReloadTypeOK ==
    /\ file \in [stamp : 1..MaxStamp, kind : Kinds]
    /\ boot \in [Scorers -> {"off", "load", "watch", "parity", "up", "refused"}]
    /\ task \in [Scorers -> {"off", "recv", "debounce", "build"}]
    /\ chan \in [Scorers -> Seq({"change", "other"})]
    /\ dirty \in [Scorers -> BOOLEAN]
    /\ seen \in [Scorers -> 0..MaxStamp]
    /\ made \in [Scorers -> Seq(Sessions)]
    /\ pool \in [Scorers -> Seq(Sessions)]
    /\ next \in [Scorers -> 0..(PoolSize - 1)]
    /\ \A s \in Scorers :
          /\ Len(pool[s]) \in {0, PoolSize} /\ Len(made[s]) < PoolSize
          /\ made[s] # <<>> => boot[s] = "load" \/ task[s] = "build"

AllOf(ss, n) == \A i \in 1..Len(ss) : ss[i].stamp = n
Current(s) == pool[s] # <<>> /\ AllOf(pool[s], file.stamp)

(* start_watcher: once the poller has reported the file as it stands, and  *)
(* it is whole, the task is not done until every session of the pool is of *)
(* that content.  An event drained, skipped or waiting behind a build, and *)
(* a write between two sessions of one pool, never leave an old model.     *)
ReloadNeverLost ==
    \A s \in Scorers :
        (/\ seen[s] = file.stamp /\ Loads
         /\ task[s] = "recv" /\ chan[s] = <<>>) => Current(s)

(* The five-second poll and the watcher task run for ever.                 *)
ReloadFairness ==
    \A s \in Scorers : WF_reloadVars(Poll(s)) /\ WF_reloadVars(TaskStep(s))

(* Hot reload: a whole model whose modification time the poller can tell   *)
(* from the last one ends up in every session, unless the file changes     *)
(* again or the process refuses to start.                                  *)
ModelConverges ==
    \A s \in Scorers : \A n \in 1..MaxStamp :
        (dirty[s] /\ Loads /\ file.stamp = n)
            ~> (Current(s) \/ file.stamp # n \/ Refused)

=============================================================================
