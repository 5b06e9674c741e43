--------------------------- MODULE ScoringProofs ---------------------------
(***************************************************************************)
(* The models are reloaded safely, for any number of scorers, sessions,    *)
(* writes and events.                                                      *)
(*                                                                         *)
(* ReloadNeverLost is not inductive: while the task sleeps, builds or has  *)
(* events to read the pool may be old.  Pending names what still stands    *)
(* between the reported content and the pool, per phase of the task; the   *)
(* fine point is a build that began on an older content, which may only go *)
(* on while the event of the newer one waits in the channel.               *)
(*                                                                         *)
(* The guarantees of the reloader hold in the whole scoring system: the    *)
(* scorer tree decides when models are loaded and requests pick sessions,  *)
(* and neither takes a step the reloader does not allow.                   *)
(*                                                                         *)
(* Requests are scored as a whole, for any tree, batch, chunk size and     *)
(* scores.  ScoringInv follows a request: what a leaf has done so far the  *)
(* model did, what it returns comes from one source, and a cascade whose   *)
(* stage 2 runs has stage 1 behind it and the best of it in its clones.    *)
(* The last part rests on what a sort is: an order of a finite set exists  *)
(* (OrderExists) and its first places hold the best (SortedByScore).       *)
(***************************************************************************)
EXTENDS Scoring, FiniteSetTheorems, SequenceTheorems, TLAPS

(* An event the task will act on waits in the channel.                     *)
HasChange(ch) == \E i \in 1..Len(ch) : ch[i] = "change"

(* What stands between a content the poller reported and the pool.         *)
Pending(s) ==
    \/ HasChange(chan[s])
    \/ task[s] = "debounce"
    \/ task[s] = "build" /\ AllOf(made[s], file.stamp)
    \/ task[s] = "recv" /\ Current(s)

(* A scorer is watched after it is loaded; stamps are reported as written. *)
BootOrder ==
    \A s \in Scorers :
        /\ boot[s] \in {"off", "load", "watch"} => task[s] = "off"
        /\ task[s] = "off" => seen[s] = 0 /\ ~dirty[s]
        /\ seen[s] <= file.stamp

(* A whole file the poller reported is pending or in the pool.             *)
ReportedIsPending ==
    \A s \in Scorers : (seen[s] = file.stamp /\ Loads) => Pending(s)

Inv == ReloadTypeOK /\ BootOrder /\ ReportedIsPending

-----------------------------------------------------------------------------
(* What tx.send does to the channel.                                       *)
LEMMA AppendKeepsChange ==
    ASSUME NEW ch \in Seq({"change", "other"}), NEW e \in {"change", "other"}
    PROVE  /\ Append(ch, e) \in Seq({"change", "other"})
           /\ HasChange(ch) \/ e = "change" => HasChange(Append(ch, e))
<1>1. /\ Append(ch, e) \in Seq({"change", "other"})
      /\ Len(Append(ch, e)) = Len(ch) + 1
      /\ Append(ch, e)[Len(ch) + 1] = e
      /\ \A i \in 1..Len(ch) : Append(ch, e)[i] = ch[i]
  OBVIOUS
<1>2. QED BY <1>1 DEF HasChange

(* What rx.recv does to the channel.                                       *)
LEMMA TailKeepsChange ==
    ASSUME NEW ch \in Seq({"change", "other"}), ch # <<>>
    PROVE  /\ Tail(ch) \in Seq({"change", "other"})
           /\ HasChange(ch) => Head(ch) = "change" \/ HasChange(Tail(ch))
<1>1. Tail(ch) \in Seq({"change", "other"}) /\ Len(Tail(ch)) = Len(ch) - 1
  OBVIOUS
<1>2. ASSUME HasChange(ch), Head(ch) # "change"
      PROVE  HasChange(Tail(ch))
  <2>1. PICK i \in 1..Len(ch) : ch[i] = "change"
    BY <1>2 DEF HasChange
  <2>2. i # 1
    BY <1>2, <2>1
  <2>3. i - 1 \in 1..Len(Tail(ch)) /\ Tail(ch)[i - 1] = ch[i]
    BY <1>1, <2>2
  <2>4. QED BY <2>1, <2>3 DEF HasChange
<1>3. QED BY <1>1, <1>2

(* Before any scorer is built there is nothing to reload.                  *)
LEMMA InitInv == ReloadInit => Inv
  BY ReloadAssumption
  DEF ReloadInit, Inv, ReloadTypeOK, BootOrder, ReportedIsPending, Kinds, Loads

(* A session can be added to a snapshot in the making.                     *)
LEMMA BuildType ==
    ASSUME ReloadTypeOK, Loads, NEW s \in Scorers
    PROVE  /\ BuildSession(s) \in Seq(Sessions)
           /\ BuildSession(s) # <<>>
           /\ Complete(s) => Len(BuildSession(s)) = PoolSize
           /\ ~Complete(s) => Len(BuildSession(s)) < PoolSize
           /\ AllOf(made[s], file.stamp) => AllOf(BuildSession(s), file.stamp)
<1>1. made[s] \in Seq(Sessions) /\ Session \in Sessions /\ Session.stamp = file.stamp
  BY ZenonT(30) DEF ReloadTypeOK, Loads, Session, Sessions, Kinds
<1> DEFINE new == Append(made[s], Session)
<1>2. /\ new \in Seq(Sessions) /\ Len(new) = Len(made[s]) + 1
      /\ new[Len(made[s]) + 1] = Session
      /\ \A i \in 1..Len(made[s]) : new[i] = made[s][i]
  BY <1>1
<1>3. Len(made[s]) \in Nat /\ Len(made[s]) < PoolSize
  BY DEF ReloadTypeOK
<1>4. AllOf(made[s], file.stamp) => AllOf(new, file.stamp)
  BY <1>1, <1>2 DEF AllOf
<1>5. new # <<>> /\ (IF Complete(s) THEN Len(new) = PoolSize ELSE Len(new) < PoolSize)
  BY <1>2, <1>3, ReloadAssumption DEF Complete
<1>6. QED BY <1>2, <1>4, <1>5 DEF BuildSession

(* Every step of the file, the poller, a boot and a watcher task keeps the *)
(* types.                                                                  *)
LEMMA TypeStep ==
    ReloadTypeOK /\ BootOrder /\ [ReloadNext]_reloadVars => ReloadTypeOK'
<1> USE ReloadAssumption
<1> SUFFICES ASSUME ReloadTypeOK, BootOrder, [ReloadNext]_reloadVars
             PROVE  ReloadTypeOK'
  OBVIOUS
<1>1. ASSUME NEW kind \in Kinds, WriteModel(kind) PROVE ReloadTypeOK'
  <2>1. file' \in [stamp : 1..MaxStamp, kind : Kinds]
    BY <1>1 DEF WriteModel, ReloadTypeOK
  <2>2. dirty' \in [Scorers -> BOOLEAN]
    BY <1>1, ZenonT(30) DEF WriteModel, ReloadTypeOK
  <2>3. QED BY <1>1, <2>1, <2>2 DEF WriteModel, ReloadTypeOK
<1>2. ASSUME NEW s \in Scorers, Poll(s) PROVE ReloadTypeOK'
  <2> DEFINE e == IF file.kind = "absent" THEN "other" ELSE "change"
  <2>0. Append(chan[s], e) \in Seq({"change", "other"})
    BY AppendKeepsChange DEF ReloadTypeOK
  <2>1. chan' \in [Scorers -> Seq({"change", "other"})]
    BY <1>2, <2>0 DEF Poll, ReloadTypeOK
  <2>2. QED BY <1>2, <2>1 DEF Poll, ReloadTypeOK
<1>3. ASSUME NEW s \in Scorers, PollOther(s) PROVE ReloadTypeOK'
  <2>0. Append(chan[s], "other") \in Seq({"change", "other"})
    BY AppendKeepsChange DEF ReloadTypeOK
  <2>1. chan' \in [Scorers -> Seq({"change", "other"})]
    BY <1>3, <2>0 DEF PollOther, ReloadTypeOK
  <2>2. QED BY <1>3, <2>1 DEF PollOther, ReloadTypeOK
<1>4. ASSUME NEW s \in Scorers, BeginLoad(s) PROVE ReloadTypeOK'
  BY <1>4 DEF BeginLoad, ReloadTypeOK, watcher
<1>5. ASSUME NEW s \in Scorers, Load(s) PROVE ReloadTypeOK'
  <2>1. Loads
    BY <1>5 DEF Load
  <2>2. CASE Complete(s)
    <3>1. /\ pool' = [pool EXCEPT ![s] = BuildSession(s)]
          /\ next' = [next EXCEPT ![s] = 0]
          /\ made' = [made EXCEPT ![s] = <<>>]
      BY <1>5, <2>2 DEF Load, Publish
    <3>2. Len(BuildSession(s)) = PoolSize /\ BuildSession(s) \in Seq(Sessions)
      BY <2>1, <2>2, BuildType
    <3>3. /\ pool' \in [Scorers -> Seq(Sessions)] /\ made' \in [Scorers -> Seq(Sessions)]
          /\ next' \in [Scorers -> 0..(PoolSize - 1)]
      BY <3>1, <3>2 DEF ReloadTypeOK
    <3>4. \A t \in Scorers :
              /\ Len(pool'[t]) \in {0, PoolSize} /\ Len(made'[t]) < PoolSize
              /\ made'[t] # <<>> => t # s /\ (boot[t] = "load" \/ task[t] = "build")
      BY <3>1, <3>2 DEF ReloadTypeOK
    <3>5. QED BY <1>5, <2>2, <3>3, <3>4, ZenonT(30) DEF Load, ReloadTypeOK, watcher
  <2>3. CASE ~Complete(s)
    <3>1. made' = [made EXCEPT ![s] = BuildSession(s)] /\ UNCHANGED <<boot, pool, next>>
      BY <1>5, <2>3 DEF Load
    <3>2. Len(BuildSession(s)) < PoolSize /\ BuildSession(s) \in Seq(Sessions)
      BY <2>1, <2>3, BuildType
    <3>3. QED BY <1>5, <3>1, <3>2 DEF Load, ReloadTypeOK, watcher
  <2>4. QED BY <2>2, <2>3
<1>6. ASSUME NEW s \in Scorers, LoadFails(s) PROVE ReloadTypeOK'
  BY <1>6 DEF LoadFails, ReloadTypeOK, watcher
<1>7. ASSUME NEW s \in Scorers, StartWatcher(s) PROVE ReloadTypeOK'
  BY <1>7, ZenonT(30) DEF StartWatcher, ReloadTypeOK, BootOrder
<1>8. ASSUME NEW s \in Scorers, VerifyParity(s) \/ SkipParity(s) PROVE ReloadTypeOK'
  <2>1. /\ boot' \in {[boot EXCEPT ![s] = "up"], [boot EXCEPT ![s] = "refused"]}
        /\ boot[s] = "parity" /\ UNCHANGED <<file, watcher, made, pool, next>>
    BY <1>8 DEF VerifyParity, SkipParity
  <2>2. QED BY <2>1, ZenonT(30) DEF ReloadTypeOK, watcher
<1>9. ASSUME NEW s \in Scorers, TaskRecv(s) PROVE ReloadTypeOK'
  <2>1. chan' \in [Scorers -> Seq({"change", "other"})]
    BY <1>9, TailKeepsChange DEF TaskRecv, ReloadTypeOK
  <2>2. QED BY <1>9, <2>1 DEF TaskRecv, ReloadTypeOK
<1>10. ASSUME NEW s \in Scorers, TaskDebounce(s) PROVE ReloadTypeOK'
  BY <1>10 DEF TaskDebounce, ReloadTypeOK
<1>11. ASSUME NEW s \in Scorers, TaskBuild(s) PROVE ReloadTypeOK'
  <2>1. Loads
    BY <1>11 DEF TaskBuild
  <2>2. CASE Complete(s)
    <3>1. /\ pool' = [pool EXCEPT ![s] = BuildSession(s)]
          /\ next' = [next EXCEPT ![s] = 0]
          /\ made' = [made EXCEPT ![s] = <<>>]
      BY <1>11, <2>2 DEF TaskBuild, Publish
    <3>2. Len(BuildSession(s)) = PoolSize /\ BuildSession(s) \in Seq(Sessions)
      BY <2>1, <2>2, BuildType
    <3>3. /\ pool' \in [Scorers -> Seq(Sessions)] /\ made' \in [Scorers -> Seq(Sessions)]
          /\ next' \in [Scorers -> 0..(PoolSize - 1)]
      BY <3>1, <3>2 DEF ReloadTypeOK
    <3>4. \A t \in Scorers :
              /\ Len(pool'[t]) \in {0, PoolSize} /\ Len(made'[t]) < PoolSize
              /\ made'[t] # <<>> => t # s /\ (boot[t] = "load" \/ task[t] = "build")
      BY <3>1, <3>2 DEF ReloadTypeOK
    <3>5. QED BY <1>11, <2>2, <3>3, <3>4, ZenonT(30) DEF TaskBuild, ReloadTypeOK
  <2>3. CASE ~Complete(s)
    <3>1. made' = [made EXCEPT ![s] = BuildSession(s)] /\ UNCHANGED <<task, pool, next>>
      BY <1>11, <2>3 DEF TaskBuild
    <3>2. Len(BuildSession(s)) < PoolSize /\ BuildSession(s) \in Seq(Sessions)
      BY <2>1, <2>3, BuildType
    <3>3. QED BY <1>11, <3>1, <3>2 DEF TaskBuild, ReloadTypeOK
  <2>4. QED BY <2>2, <2>3
<1>12. ASSUME NEW s \in Scorers, TaskBuildFails(s) PROVE ReloadTypeOK'
  BY <1>12 DEF TaskBuildFails, ReloadTypeOK
<1>13. ASSUME NEW s \in Scorers, Pick(s) PROVE ReloadTypeOK'
  <2>1. (next[s] + 1) % PoolSize \in 0..(PoolSize - 1)
    BY DEF ReloadTypeOK
  <2>2. next' \in [Scorers -> 0..(PoolSize - 1)]
    BY <1>13, <2>1 DEF Pick, ReloadTypeOK
  <2>3. QED BY <1>13, <2>2 DEF Pick, ReloadTypeOK, watcher
<1>14. CASE UNCHANGED reloadVars
  BY <1>14 DEF ReloadTypeOK, reloadVars, watcher
<1>15. QED
  BY <1>1, <1>2, <1>3, <1>4, <1>5, <1>6, <1>7, <1>8, <1>9, <1>10, <1>11, <1>12, <1>13,
     <1>14 DEF ReloadNext, BootStep, TaskStep

(* A scorer is watched only once it is loaded, and only what the file      *)
(* already held is reported.                                               *)
LEMMA BootOrderStep ==
    ReloadTypeOK /\ BootOrder /\ [ReloadNext]_reloadVars => BootOrder'
<1> SUFFICES ASSUME ReloadTypeOK, BootOrder, [ReloadNext]_reloadVars
             PROVE  BootOrder'
  OBVIOUS
<1> USE DEF ReloadTypeOK, BootOrder
<1>1. ASSUME NEW kind \in Kinds, WriteModel(kind) PROVE BootOrder'
  BY <1>1 DEF WriteModel
<1>2. ASSUME NEW s \in Scorers, Poll(s) PROVE BootOrder'
  BY <1>2 DEF Poll
<1>3. ASSUME NEW s \in Scorers, PollOther(s) \/ Pick(s) PROVE BootOrder'
  <2>1. UNCHANGED <<file, boot, task, dirty, seen>>
    BY <1>3 DEF PollOther, Pick, watcher
  <2>2. QED BY <2>1
<1>4. ASSUME NEW s \in Scorers, BeginLoad(s) \/ LoadFails(s) PROVE BootOrder'
  BY <1>4 DEF BeginLoad, LoadFails, watcher
<1>5. ASSUME NEW s \in Scorers, Load(s) PROVE BootOrder'
  BY <1>5 DEF Load, Publish, watcher
<1>6. ASSUME NEW s \in Scorers, StartWatcher(s) PROVE BootOrder'
  BY <1>6 DEF StartWatcher
<1>7. ASSUME NEW s \in Scorers, VerifyParity(s) \/ SkipParity(s) PROVE BootOrder'
  <2>1. /\ boot' \in {[boot EXCEPT ![s] = "up"], [boot EXCEPT ![s] = "refused"]}
        /\ UNCHANGED <<file, watcher>>
    BY <1>7 DEF VerifyParity, SkipParity
  <2>2. QED BY <2>1 DEF watcher
<1>8. ASSUME NEW s \in Scorers, TaskRecv(s) \/ TaskDebounce(s) PROVE BootOrder'
  BY <1>8 DEF TaskRecv, TaskDebounce
<1>9. ASSUME NEW s \in Scorers, TaskBuild(s) \/ TaskBuildFails(s) PROVE BootOrder'
  BY <1>9 DEF TaskBuild, TaskBuildFails, Publish
<1>10. CASE UNCHANGED reloadVars
  BY <1>10 DEF reloadVars, watcher
<1>11. QED
  BY <1>1, <1>2, <1>3, <1>4, <1>5, <1>6, <1>7, <1>8, <1>9, <1>10
  DEF ReloadNext, BootStep, TaskStep

(* A scorer whose file, poller, task and pool a step leaves alone stays    *)
(* pending.                                                                *)
LEMMA PendingUnchanged ==
    ASSUME NEW t \in Scorers, UNCHANGED <<file, task[t], chan[t], made[t], pool[t]>>,
           Pending(t)
    PROVE  Pending(t)'
  BY DEF Pending, HasChange, AllOf, Current

(* Whatever was reported stays on its way into the pool.                   *)
LEMMA PendingStep == Inv /\ [ReloadNext]_reloadVars => ReportedIsPending'
<1> SUFFICES ASSUME Inv, [ReloadNext]_reloadVars,
                    NEW t \in Scorers, seen'[t] = file'.stamp, Loads'
             PROVE  Pending(t)'
  BY DEF ReportedIsPending
<1> USE DEF Inv
<1>0. ASSUME UNCHANGED <<file, seen[t], task[t], chan[t], made[t], pool[t]>>
      PROVE  Pending(t)'
  BY <1>0, PendingUnchanged DEF ReportedIsPending, Loads
<1>1. ASSUME NEW kind \in Kinds, WriteModel(kind) PROVE Pending(t)'
  BY <1>1 DEF WriteModel, BootOrder, ReloadTypeOK
<1>2. ASSUME NEW s \in Scorers, Poll(s) PROVE Pending(t)'
  <2>1. CASE s = t
    BY <1>2, <2>1, AppendKeepsChange DEF Poll, Pending, Loads, ReloadTypeOK
  <2>2. CASE s # t
    BY <1>0, <1>2, <2>2 DEF Poll, ReloadTypeOK
  <2>3. QED BY <2>1, <2>2
<1>3. ASSUME NEW s \in Scorers, PollOther(s) PROVE Pending(t)'
  <2>1. CASE s = t
    <3>1. Pending(t) /\ chan'[t] = Append(chan[t], "other")
      BY <1>3, <2>1 DEF PollOther, ReportedIsPending, ReloadTypeOK, Loads
    <3>2. HasChange(chan[t]) => HasChange(chan'[t])
      BY <3>1, AppendKeepsChange DEF ReloadTypeOK
    <3>3. QED BY <1>3, <3>1, <3>2 DEF PollOther, Pending, HasChange, AllOf, Current
  <2>2. CASE s # t
    BY <1>0, <1>3, <2>2 DEF PollOther, ReloadTypeOK
  <2>3. QED BY <2>1, <2>2
<1>4. ASSUME NEW s \in Scorers,
             BeginLoad(s) \/ VerifyParity(s) \/ SkipParity(s) \/ Pick(s)
      PROVE  Pending(t)'
  BY <1>0, <1>4 DEF BeginLoad, VerifyParity, SkipParity, Pick, watcher
<1>5. ASSUME NEW s \in Scorers, Load(s) \/ LoadFails(s) \/ StartWatcher(s)
      PROVE  Pending(t)'
  <2>1. s # t
    <3>1. boot[s] \in {"off", "load", "watch"} /\ UNCHANGED <<file, seen>>
      BY <1>5 DEF Load, LoadFails, StartWatcher, watcher
    <3>2. QED BY <3>1 DEF BootOrder, ReloadTypeOK
  <2>2. UNCHANGED <<file, seen[t], task[t], chan[t], made[t], pool[t]>>
    BY <1>5, <2>1 DEF Load, LoadFails, StartWatcher, Publish, watcher, ReloadTypeOK
  <2>3. QED BY <1>0, <2>2
<1>6. ASSUME NEW s \in Scorers, TaskRecv(s) PROVE Pending(t)'
  <2>1. CASE s = t
    <3>1. Pending(t) /\ chan'[t] = Tail(chan[t]) /\ chan[t] # <<>>
      BY <1>6, <2>1 DEF TaskRecv, ReportedIsPending, ReloadTypeOK, Loads
    <3>2. HasChange(chan[t]) => Head(chan[t]) = "change" \/ HasChange(chan'[t])
      BY <3>1, TailKeepsChange DEF ReloadTypeOK
    <3>3. QED BY <1>6, <2>1, <3>1, <3>2
              DEF TaskRecv, Pending, HasChange, AllOf, Current, ReloadTypeOK
  <2>2. CASE s # t
    BY <1>0, <1>6, <2>2 DEF TaskRecv, ReloadTypeOK
  <2>3. QED BY <2>1, <2>2
<1>7. ASSUME NEW s \in Scorers, TaskDebounce(s) PROVE Pending(t)'
  <2>1. CASE s = t
    <3>1. made[t] = <<>>
      BY <1>7, <2>1, ZenonT(30) DEF TaskDebounce, ReloadTypeOK, BootOrder
    <3>2. task'[t] = "build" /\ made'[t] = <<>>
      BY <1>7, <2>1, <3>1 DEF TaskDebounce, ReloadTypeOK
    <3>3. QED BY <3>2 DEF Pending, AllOf
  <2>2. CASE s # t
    BY <1>0, <1>7, <2>2 DEF TaskDebounce, ReloadTypeOK
  <2>3. QED BY <2>1, <2>2
<1>8. ASSUME NEW s \in Scorers, TaskBuild(s) PROVE Pending(t)'
  <2>1. CASE s = t
    <3>1. /\ Loads /\ task[t] = "build" /\ UNCHANGED <<file, chan, seen>>
          /\ HasChange(chan[t]) \/ AllOf(made[t], file.stamp)
      BY <1>8, <2>1 DEF TaskBuild, ReportedIsPending, Pending
    <3>2. CASE HasChange(chan[t])
      BY <3>1, <3>2 DEF Pending, HasChange
    <3>3. CASE AllOf(made[t], file.stamp)
      <4>1. AllOf(BuildSession(t), file.stamp) /\ BuildSession(t) # <<>>
        BY <3>1, <3>3, BuildType
      <4>2. CASE Complete(t)
        BY <1>8, <2>1, <4>1, <4>2
        DEF TaskBuild, Publish, Pending, Current, AllOf, ReloadTypeOK
      <4>3. CASE ~Complete(t)
        BY <1>8, <2>1, <3>1, <4>1, <4>3 DEF TaskBuild, Pending, AllOf, ReloadTypeOK
      <4>4. QED BY <4>2, <4>3
    <3>4. QED BY <3>1, <3>2, <3>3
  <2>2. CASE s # t
    BY <1>0, <1>8, <2>2 DEF TaskBuild, Publish, ReloadTypeOK
  <2>3. QED BY <2>1, <2>2
<1>9. ASSUME NEW s \in Scorers, TaskBuildFails(s) PROVE Pending(t)'
  BY <1>9 DEF TaskBuildFails, Loads
<1>10. CASE UNCHANGED reloadVars
  BY <1>0, <1>10 DEF reloadVars, watcher
<1>11. QED
  BY <1>1, <1>2, <1>3, <1>4, <1>5, <1>6, <1>7, <1>8, <1>9, <1>10
  DEF ReloadNext, BootStep, TaskStep

-----------------------------------------------------------------------------
(* The inductive invariant holds in every reachable state.                 *)
LEMMA ReloadInductive == ReloadSpec => []Inv
<1>1. Inv /\ [ReloadNext]_reloadVars => Inv'
  BY TypeStep, BootOrderStep, PendingStep DEF Inv
<1>2. QED BY InitInv, <1>1, PTL DEF ReloadSpec

(* The model reloader keeps its types.                                     *)
THEOREM ReloadTypeCorrect == ReloadSpec => []ReloadTypeOK
<1>1. Inv => ReloadTypeOK
  BY DEF Inv
<1>2. QED BY ReloadInductive, <1>1, PTL

(* The watcher task of start_watcher is never back at recv, its channel    *)
(* empty, with the pool older than the content the poller last reported,   *)
(* for any number of scorers, sessions per pool, writes and events.        *)
THEOREM ReloadSafe == ReloadSpec => []ReloadNeverLost
<1>1. Inv => ReloadNeverLost
  <2> SUFFICES ASSUME Inv, NEW s \in Scorers, seen[s] = file.stamp, Loads,
                      task[s] = "recv", chan[s] = <<>>
               PROVE  Current(s)
    BY DEF ReloadNeverLost
  <2>1. ~HasChange(chan[s])
    BY DEF HasChange
  <2>2. QED BY <2>1 DEF Inv, ReportedIsPending, Pending
<1>2. QED BY ReloadInductive, <1>1, PTL

-----------------------------------------------------------------------------
(* The configuration never changes, so every ml leaf has its MLScorer.     *)
SystemInv == Inv /\ config \in Configs

(* Each step of the scoring system is a step of the reloader or leaves it  *)
(* alone.                                                                  *)
LEMMA ScoringStep ==
    SystemInv /\ [Next]_vars => [ReloadNext]_reloadVars /\ UNCHANGED config
<1> SUFFICES ASSUME SystemInv, [Next]_vars
             PROVE  [ReloadNext]_reloadVars /\ UNCHANGED config
  OBVIOUS
<1>1. CASE BuildNext
  <2>1. PICK i \in 1..Len(Models) : BeginLoad(i) /\ UNCHANGED scoringVars
    BY <1>1 DEF BuildNext
  <2>2. i \in Scorers
    BY <2>1, ScorersAssumption DEF Models, Tree, SystemInv
  <2>3. QED BY <2>1, <2>2 DEF ReloadNext, scoringVars
<1>2. ASSUME NEW kind \in Kinds, WriteModel(kind), UNCHANGED scoringVars
      PROVE  [ReloadNext]_reloadVars /\ UNCHANGED config
  BY <1>2 DEF ReloadNext, scoringVars
<1>3. ASSUME NEW s \in Scorers, Poll(s) \/ PollOther(s) \/ BootStep(s) \/ TaskStep(s),
             UNCHANGED scoringVars
      PROVE  [ReloadNext]_reloadVars /\ UNCHANGED config
  BY <1>3 DEF ReloadNext, scoringVars
<1>4. ASSUME NEW r \in Requests, PickSession(r)
      PROVE  [ReloadNext]_reloadVars /\ UNCHANGED config
  <2> DEFINE n == Number(Leaf(req[r]))
  <2>1. Pick(n) /\ UNCHANGED config
    BY <1>4 DEF PickSession
  <2>2. CASE n \in Scorers
    BY <2>1, <2>2 DEF ReloadNext
  <2>3. CASE n \notin Scorers
    <3>1. next' = next
      BY <2>1, <2>3 DEF Pick, SystemInv, Inv, ReloadTypeOK
    <3>2. QED BY <2>1, <3>1 DEF Pick, reloadVars, watcher
  <2>4. QED BY <2>2, <2>3
<1>5. ASSUME NEW r \in Requests,
             \/ Arrive(r) \/ Drop(r) \/ NextImp(r) \/ CallLinear(r)
             \/ RunChunk(r) \/ ChunkFails(r)
      PROVE  [ReloadNext]_reloadVars /\ UNCHANGED config
  BY <1>5, ZenonT(30) DEF Arrive, Drop, NextImp, CallLinear, RunChunk, ChunkFails
<1>6. CASE UNCHANGED vars
  BY <1>6 DEF vars, scoringVars
<1>7. QED
  BY <1>1, <1>2, <1>3, <1>4, <1>5, <1>6 DEF Next, RequestStep

(* The reloader's inductive invariant holds while requests are scored.     *)
LEMMA SystemInductive == Spec => []SystemInv
<1>1. Init => SystemInv
  BY InitInv DEF Init, SystemInv
<1>2. SystemInv /\ [Next]_vars => SystemInv'
  BY ScoringStep, TypeStep, BootOrderStep, PendingStep DEF SystemInv, Inv
<1>3. QED BY <1>1, <1>2, PTL DEF Spec

(* Scoring implements the reloader: the tree main.rs builds and the        *)
(* requests that pick sessions add no step to it.                          *)
THEOREM ScoringRefinesReload == Spec => ReloadSpec
<1>1. Init => ReloadInit
  BY DEF Init
<1>2. QED BY <1>1, ScoringStep, SystemInductive, PTL DEF Spec, ReloadSpec

(* start_watcher in the running system: whatever requests are doing, the   *)
(* task is never idle with a pool older than the content last reported.    *)
THEOREM ScoringReloadSafe == Spec => []ReloadNeverLost
  BY ScoringRefinesReload, ReloadSafe, PTL

-----------------------------------------------------------------------------
(* Sorting a batch                                                         *)

(* A finite set can be put in order by any strict total order, which is    *)
(* given here by the predecessors B[x] of each element: an element's place *)
(* is one more than the number of those before it.                         *)
LEMMA OrderExists ==
    ASSUME NEW S, IsFiniteSet(S), NEW B \in [S -> SUBSET S],
           \A x \in S : x \notin B[x],
           \A x, y \in S : x = y \/ x \in B[y] \/ y \in B[x],
           \A x, y \in S : x \in B[y] => B[x] \subseteq B[y]
    PROVE  \E f \in SetToSeqs(S) : \A i, j \in DOMAIN f : i < j => f[i] \in B[f[j]]
<1> DEFINE n == Cardinality(S)
           g == [x \in S |-> Cardinality(B[x]) + 1]
           f == [i \in 1..n |-> CHOOSE x \in S : g[x] = i]
<1>1. n \in Nat
  BY FS_CardinalityType
<1>2. \A x \in S : IsFiniteSet(B[x]) /\ Cardinality(B[x]) \in Nat
  BY FS_Subset, FS_CardinalityType
<1>3. ASSUME NEW x \in S, NEW y \in S, x \in B[y]
      PROVE  Cardinality(B[x]) < Cardinality(B[y])
  <2>1. B[x] \subseteq B[y] /\ B[x] # B[y]
    BY <1>3
  <2>2. /\ Cardinality(B[x]) <= Cardinality(B[y])
        /\ Cardinality(B[y]) = Cardinality(B[x]) => B[y] = B[x]
    BY <1>2, <2>1, FS_Subset
  <2>3. QED BY <1>2, <2>1, <2>2
<1>4. \A x \in S : g[x] \in 1..n
  <2> TAKE x \in S
  <2>1. Cardinality(B[x]) <= n /\ (n = Cardinality(B[x]) => S = B[x])
    BY FS_Subset
  <2>2. S # B[x]
    OBVIOUS
  <2>3. QED BY <1>1, <1>2, <2>1, <2>2
<1>5. \A x, y \in S : g[x] = g[y] => x = y
  BY <1>2, <1>3
<1>6. g \in Injection(S, 1..n)
  BY <1>4, <1>5 DEF Injection, IsInjective
<1>7. IsFiniteSet(1..n) /\ Cardinality(1..n) = n
  BY <1>1, FS_Interval
<1>8. g \in Surjection(S, 1..n)
  <2> HIDE DEF g
  <2>1. QED BY <1>6, <1>7, FS_Injection
<1>9. \A i \in 1..n : \E x \in S : g[x] = i
  <2> HIDE DEF g
  <2>1. QED BY <1>8 DEF Surjection
<1>10. \A i \in 1..n : f[i] \in S /\ g[f[i]] = i
  <2> HIDE DEF g
  <2>1. QED BY <1>9
<1>11. f \in SetToSeqs(S)
  <2> HIDE DEF g
  <2>1. \A i, j \in 1..n : i # j => f[i] # f[j]
    BY <1>10
  <2>2. f \in [1..n -> S]
    BY <1>10
  <2>3. QED
    <3> HIDE DEF f
    <3>1. QED BY <2>1, <2>2 DEF SetToSeqs
<1>12. ASSUME NEW i \in DOMAIN f, NEW j \in DOMAIN f, i < j PROVE f[i] \in B[f[j]]
  <2>1. i \in 1..n /\ j \in 1..n
    BY <1>12
  <2>2. f[i] \in S /\ f[j] \in S /\ g[f[i]] < g[f[j]]
    <3> HIDE DEF g, f
    <3>1. QED BY <1>10, <1>12, <2>1
  <2>3. ~(f[j] \in B[f[i]]) /\ f[i] # f[j]
    <3>1. ASSUME f[j] \in B[f[i]] PROVE FALSE
      <4>1. Cardinality(B[f[j]]) < Cardinality(B[f[i]])
        BY <1>3, <2>2, <3>1
      <4>2. QED
        <5>1. g[f[i]] = Cardinality(B[f[i]]) + 1 /\ g[f[j]] = Cardinality(B[f[j]]) + 1
          BY <2>2
        <5> HIDE DEF g, f
        <5>2. QED BY <1>2, <2>2, <4>1, <5>1
    <3>2. f[i] # f[j]
      <4>1. g[f[i]] \in Nat
        BY <1>4, <2>2
      <4> HIDE DEF g, f
      <4>2. QED BY <2>2, <4>1
    <3>3. QED BY <3>1, <3>2
  <2>4. QED
    <3> HIDE DEF g, f
    <3>1. QED BY <2>2, <2>3
<1>13. QED
  <2> HIDE DEF f
  <2>1. QED BY <1>11, <1>12

(* A sequence without repetitions of all elements of a finite set reaches  *)
(* each of them.                                                           *)
LEMMA OrderReaches ==
    ASSUME NEW S, IsFiniteSet(S), NEW f \in SetToSeqs(S)
    PROVE  /\ Cardinality(S) \in Nat /\ f \in [1..Cardinality(S) -> S]
           /\ \A i, j \in 1..Cardinality(S) : f[i] = f[j] => i = j
           /\ \A x \in S : \E i \in 1..Cardinality(S) : f[i] = x
<1> DEFINE n == Cardinality(S)
<1>1. n \in Nat
  BY FS_CardinalityType
<1>2. f \in [1..n -> S] /\ \A i, j \in 1..n : f[i] = f[j] => i = j
  BY DEF SetToSeqs
<1>3. f \in Injection(1..n, S)
  BY <1>2 DEF Injection, IsInjective
<1>4. IsFiniteSet(1..n) /\ Cardinality(1..n) = n
  BY <1>1, FS_Interval
<1>5. f \in Surjection(1..n, S)
  BY <1>3, <1>4, FS_Injection
<1>6. QED BY <1>1, <1>2, <1>5 DEF Surjection

(* The first n places are n.                                               *)
LEMMA FirstPlaces ==
    ASSUME NEW n \in Nat PROVE IsFiniteSet(1..n) /\ Cardinality(1..n) = n
  BY FS_Interval

(* The impressions a request is asked about name each candidate once, as   *)
(* retrieval picks one creative per campaign.                              *)
Imps == {s \in Seq(Candidates) : IsInjective(s)}

(* A score of the model or of the formula is a number.                     *)
LEMMA ValueType ==
    ASSUME NEW c \in Candidates, NEW sc \in Scores PROVE Value(c, sc) \in Int
<1>1. CASE sc = Unscored
  BY <1>1 DEF Unscored, Value
<1>2. CASE sc = Linear
  <2>1. Value(c, sc) = FwScore[c]
    BY <1>2 DEF Linear, Value
  <2>2. QED BY <2>1, ScoringAssumption
<1>3. ASSUME NEW n \in 1..MaxStamp, sc = Inferred(n) PROVE Value(c, sc) \in Int
  <2>1. Value(c, sc) = MlScore(n, c)
    BY <1>3 DEF Inferred, Value
  <2>2. QED BY <2>1, ScoringAssumption
<1>4. QED BY <1>1, <1>2, <1>3 DEF Scores

(* The stable sort by descending score orders the places of a batch.       *)
LEMMA SortedByScore ==
    ASSUME NEW batch \in Seq(Candidates), NEW score \in [Candidates -> Scores],
           NEW S \in SUBSET (DOMAIN batch)
    PROVE  LET f == InOrder(S, [x \in S |-> {y \in S : Ahead(batch, score, y, x)}])
           IN  /\ IsFiniteSet(S) /\ f \in SetToSeqs(S)
               /\ \A i, j \in DOMAIN f : i < j => Ahead(batch, score, f[i], f[j])
<1> DEFINE V(k) == Value(batch[k], score[batch[k]])
           B == [x \in S |-> {y \in S : Ahead(batch, score, y, x)}]
           f == InOrder(S, B)
<1>1. \A k \in DOMAIN batch : k \in Nat /\ V(k) \in Int
  BY ValueType
<1>2. \A x, y \in S : Ahead(batch, score, y, x) <=> V(y) > V(x) \/ (V(y) = V(x) /\ y < x)
  BY DEF Ahead
<1>3. IsFiniteSet(S)
  <2>1. DOMAIN batch = 1..Len(batch) /\ Len(batch) \in Nat
    OBVIOUS
  <2>2. IsFiniteSet(1..Len(batch))
    BY <2>1, FS_Interval
  <2>3. QED BY <2>1, <2>2, FS_Subset
<1>4. \A x \in S : x \notin B[x]
  <2> HIDE DEF V
  <2>1. QED BY <1>1, <1>2
<1>5. \A x, y \in S : x = y \/ x \in B[y] \/ y \in B[x]
  <2> HIDE DEF V
  <2>1. QED BY <1>1, <1>2
<1>6. ASSUME NEW x \in S, NEW y \in S, x \in B[y] PROVE B[x] \subseteq B[y]
  <2> HIDE DEF V
  <2>1. QED BY <1>1, <1>2, <1>6
<1>7. \E s \in SetToSeqs(S) : \A i, j \in DOMAIN s : i < j => s[i] \in B[s[j]]
  <2>1. B \in [S -> SUBSET S]
    OBVIOUS
  <2> HIDE DEF B
  <2>2. QED BY <1>3, <1>4, <1>5, <1>6, <2>1, OrderExists
<1>8. f \in SetToSeqs(S) /\ \A i, j \in DOMAIN f : i < j => f[i] \in B[f[j]]
  <2> HIDE DEF B
  <2>1. QED BY <1>7, ZenonT(30) DEF InOrder
<1>9. \A i, j \in DOMAIN f : i < j => Ahead(batch, score, f[i], f[j])
  <2> HIDE DEF f
  <2>1. f \in [1..Cardinality(S) -> S]
    BY <1>3, <1>8, OrderReaches
  <2>2. ASSUME NEW i \in DOMAIN f, NEW j \in DOMAIN f, i < j
        PROVE  Ahead(batch, score, f[i], f[j])
    <3>1. f[i] \in B[f[j]] /\ f[j] \in S
      BY <1>8, <2>1, <2>2, ZenonT(30)
    <3>2. QED BY <3>1
  <2>3. QED BY <2>2
<1>10. QED BY <1>3, <1>8, <1>9, ZenonT(30)

(* advance_keys: whoever goes on to stage 2 is at or above the threshold,  *)
(* and who is and does not go on is behind top_k others.                   *)
LEMMA AdvanceBest ==
    ASSUME NEW t, t.top_k \in Nat, t.threshold \in Int,
           NEW batch \in Imps, NEW score \in [Candidates -> Scores]
    PROVE  LET keys == AdvanceKeys(t, batch, score)
               V(c) == Value(c, score[c])
           IN  /\ keys \subseteq ToSet(batch)
               /\ \A c \in keys : V(c) >= t.threshold
               /\ \A c \in ToSet(batch) \ keys : V(c) >= t.threshold =>
                     Cardinality(keys) = t.top_k /\ \A d \in keys : V(d) >= V(c)
<1> DEFINE V(c) == Value(c, score[c])
           keys == AdvanceKeys(t, batch, score)
           S == {i \in DOMAIN batch : V(batch[i]) >= t.threshold}
           f == InOrder(S, [x \in S |-> {y \in S : Ahead(batch, score, y, x)}])
           n == Cardinality(S)
           K == {m \in 1..n : t.top_k > 0 => m <= t.top_k}
<1>1. /\ batch \in Seq(Candidates)
      /\ \A i, j \in DOMAIN batch : batch[i] = batch[j] => i = j
  BY DEF Imps, IsInjective
<1>2. \A i \in DOMAIN batch : batch[i] \in Candidates /\ V(batch[i]) \in Int
  BY <1>1, ValueType
<1>3. /\ IsFiniteSet(S) /\ f \in SetToSeqs(S)
      /\ \A i, j \in DOMAIN f : i < j => Ahead(batch, score, f[i], f[j])
  BY <1>1, SortedByScore, ZenonT(30)
<1>4. /\ n \in Nat /\ f \in [1..n -> S]
      /\ \A i, j \in 1..n : f[i] = f[j] => i = j
      /\ \A x \in S : \E i \in 1..n : f[i] = x
  <2> HIDE DEF S, f
  <2>1. QED BY <1>3, OrderReaches
<1>5. keys = {batch[f[m]] : m \in K}
  <2>1. keys = {batch[f[m]] : m \in {x \in DOMAIN f : t.top_k > 0 => x <= t.top_k}}
    BY DEF AdvanceKeys
  <2>2. DOMAIN f = 1..n
    BY <1>4, ZenonT(30)
  <2> HIDE DEF keys, f, n
  <2>3. QED BY <2>1, <2>2
<1>6. \A i \in S : i \in DOMAIN batch /\ V(batch[i]) >= t.threshold
  OBVIOUS
<1>7. ASSUME NEW m \in 1..n PROVE f[m] \in DOMAIN batch /\ V(batch[f[m]]) >= t.threshold
  <2> HIDE DEF f, S, V
  <2>1. QED BY <1>4, <1>6
<1>8. /\ keys \subseteq ToSet(batch)
      /\ \A c \in keys : V(c) >= t.threshold
  <2> HIDE DEF f, S, V, keys
  <2>1. QED BY <1>5, <1>7 DEF ToSet
<1>9. ASSUME NEW c \in ToSet(batch) \ keys, V(c) >= t.threshold
      PROVE  Cardinality(keys) = t.top_k /\ \A d \in keys : V(d) >= V(c)
  <2>1. PICK i \in DOMAIN batch : c = batch[i]
    BY DEF ToSet
  <2>2. i \in S
    BY <1>9, <2>1
  <2>3. PICK m \in 1..n : f[m] = i
    <3> HIDE DEF f, S
    <3>1. QED BY <1>4, <2>2
  <2>4. t.top_k > 0 /\ t.top_k < m
    <3> HIDE DEF f, S, V, keys
    <3>1. m \notin K
      BY <1>5, <2>1, <2>3
    <3>2. QED BY <1>4, <3>1
  <2>5. K = 1..t.top_k
    <3> HIDE DEF f, S, V, keys
    <3>1. n \in Nat /\ m <= n
      BY <1>4
    <3>2. QED BY <2>4, <3>1
  <2>6. ASSUME NEW d \in keys PROVE V(d) >= V(c)
    <3>1. PICK x \in K : d = batch[f[x]]
      BY <1>5, ZenonT(30)
    <3>2. x \in DOMAIN f /\ m \in DOMAIN f /\ x < m
      <4> HIDE DEF f, S, V, keys
      <4>1. QED BY <1>4, <2>4, <2>5
    <3>3. Ahead(batch, score, f[x], i)
      <4> HIDE DEF f, S, V, keys
      <4>1. QED BY <1>3, <2>3, <3>2
    <3>4. V(d) > V(c) \/ V(d) = V(c)
      BY <2>1, <3>1, <3>3, ZenonT(30) DEF Ahead
    <3>5. V(d) \in Int /\ V(c) \in Int
      <4>1. f[x] \in DOMAIN batch
        BY <1>7, ZenonT(30)
      <4>2. QED BY <1>2, <2>1, <3>1, <4>1, ZenonT(30)
    <3>6. QED
      <4> HIDE DEF V
      <4>1. QED BY <3>4, <3>5
  <2>7. Cardinality(keys) = t.top_k
    <3> DEFINE h == [x \in 1..t.top_k |-> batch[f[x]]]
    <3>1. \A x, y \in 1..t.top_k : h[x] = h[y] => x = y
      <4>1. \A x \in 1..t.top_k : x \in 1..n /\ f[x] \in DOMAIN batch
        BY <1>7, <2>5, ZenonT(30)
      <4> HIDE DEF f, S, V, keys
      <4>2. QED BY <1>1, <1>4, <4>1
    <3>2. keys = {h[x] : x \in 1..t.top_k}
      <4> HIDE DEF f, S, V, keys
      <4>1. QED BY <1>5, <2>5, ZenonT(30)
    <3>3. h \in Bijection(1..t.top_k, keys)
      <4> HIDE DEF f, S, V, keys
      <4>1. h \in [1..t.top_k -> keys]
        BY <3>2
      <4>2. \A k \in keys : \E x \in 1..t.top_k : h[x] = k
        BY <3>2, ZenonT(30)
      <4> HIDE DEF h
      <4>3. QED BY <3>1, <4>1, <4>2 DEF Bijection, Injection, Surjection, IsInjective
    <3>4. IsFiniteSet(1..t.top_k) /\ Cardinality(1..t.top_k) = t.top_k
      BY FirstPlaces
    <3>5. ExistsBijection(1..t.top_k, keys)
      <4> HIDE DEF h, keys
      <4>1. QED BY <3>3 DEF ExistsBijection
    <3>6. QED
      <4> HIDE DEF h, keys
      <4>1. QED BY <3>4, <3>5, FS_Bijection
  <2>8. QED BY <2>6, <2>7
<1>10. QED BY <1>8, <1>9

-----------------------------------------------------------------------------
(* A request's progress                                                    *)

RequestType ==
    [pc : {"idle", "imp", "call", "run"}, user : Users \cup {Anonymous},
     todo : Seq(Imps), stage : 0..2, batch : Imps, at : Nat,
     session : Sessions \cup {NoSession}, work : [Candidates -> Scores],
     score : [Candidates -> Scores], advanced : SUBSET Candidates]

(* The candidates cs were all scored, and by one source.                   *)
OneSource(f, cs) == \E by \in {"fw", "ml"} : \A c \in cs : f[c].by = by

(* Stage 1 scored everyone, and the best of them go through stage 2.       *)
Advancing(q) ==
    LET V(c) == Value(c, q.score[c]) IN
    /\ Arm(q).scorer = "cascade"
    /\ q.advanced # {} /\ q.advanced \subseteq ToSet(q.batch)
    /\ OneSource(q.score, ToSet(q.batch))
    /\ \A c \in q.advanced : V(c) >= Arm(q).threshold
    /\ \A c \in ToSet(q.batch) \ q.advanced : V(c) >= Arm(q).threshold =>
          Cardinality(q.advanced) = Arm(q).top_k /\ \A d \in q.advanced : V(d) >= V(c)

(* A leaf is at work on its batch; what it has done so far, the model did. *)
ByModel(q) == \A i \in 1..q.at : q.work[Batch(q)[i]].by = "ml"

Working(q) ==
    /\ q.stage \in {1, 2} /\ q.at < Len(Batch(q))
    /\ q.stage = 1 => q.advanced = {}
    /\ q.stage = 2 => Advancing(q)
    /\ ByModel(q)
    /\ q.pc = "run" => q.session \in Sessions

(* The impression is scored: those that went through stage 2 by one source *)
(* and the others by one.                                                  *)
Settled(q) ==
    /\ q.advanced \subseteq ToSet(q.batch)
    /\ OneSource(q.score, q.advanced) /\ OneSource(q.score, ToSet(q.batch) \ q.advanced)

Progress(q) ==
    /\ q.at <= Len(Batch(q))
    /\ q.pc \in {"call", "run"} => Working(q)
    /\ q.pc = "imp" /\ q.batch # <<>> => Settled(q)

RequestsInv == req \in [Requests -> RequestType] /\ \A r \in Requests : Progress(req[r])

ScoringInv == SystemInv /\ RequestsInv

(* The clones are candidates of the batch, and just those that advanced.   *)
LEMMA ClonesFacts ==
    ASSUME NEW q \in RequestType
    PROVE  /\ Clones(q) \in Seq(Candidates)
           /\ q.advanced \subseteq ToSet(q.batch) => ToSet(Clones(q)) = q.advanced
<1> DEFINE S == {i \in DOMAIN q.batch : q.batch[i] \in q.advanced}
           B == [x \in S |-> {y \in S : y < x}]
           f == InOrder(S, B)
           n == Cardinality(S)
<1>1. q.batch \in Seq(Candidates) /\ q.advanced \subseteq Candidates
  BY DEF RequestType, Imps
<1>2. DOMAIN q.batch = 1..Len(q.batch) /\ Len(q.batch) \in Nat
  BY <1>1
<1>3. IsFiniteSet(S) /\ S \subseteq Nat
  BY <1>2, FirstPlaces, FS_Subset
<1>4. \E s \in SetToSeqs(S) : \A i, j \in DOMAIN s : i < j => s[i] \in B[s[j]]
  <2>0. \A x \in S : x \in Nat
    BY <1>3
  <2> HIDE DEF S
  <2>1. B \in [S -> SUBSET S]
    OBVIOUS
  <2>2. \A x, y \in S : x \in B[y] <=> x < y
    OBVIOUS
  <2> HIDE DEF B
  <2>3. \A x \in S : x \notin B[x]
    BY <2>0, <2>2
  <2>4. \A x, y \in S : x = y \/ x \in B[y] \/ y \in B[x]
    BY <2>0, <2>2
  <2>5. \A x, y \in S : x \in B[y] => B[x] \subseteq B[y]
    <3> SUFFICES ASSUME NEW x \in S, NEW y \in S, x \in B[y], NEW z \in B[x]
                 PROVE  z \in B[y]
      OBVIOUS
    <3>1. z \in S
      BY <2>1
    <3>2. QED BY <2>0, <2>2, <3>1
  <2>6. IsFiniteSet(S)
    BY <1>3
  <2> HIDE DEF f, n
  <2>7. QED BY <2>1, <2>3, <2>4, <2>5, <2>6, OrderExists
<1>5. f \in SetToSeqs(S)
  <2> HIDE DEF B, S
  <2>1. QED BY <1>4, ZenonT(30) DEF InOrder
<1>6. /\ n \in Nat /\ f \in [1..n -> S]
      /\ \A x \in S : \E i \in 1..n : f[i] = x
  <2> HIDE DEF S, f
  <2>1. QED BY <1>3, <1>5, OrderReaches
<1>7. Clones(q) = [i \in 1..n |-> q.batch[f[i]]]
  <2>1. Clones(q) = [i \in DOMAIN f |-> q.batch[f[i]]]
    BY DEF Clones
  <2>2. DOMAIN f = 1..n
    BY <1>6, ZenonT(30)
  <2> HIDE DEF f, S
  <2>3. QED BY <2>1, <2>2
<1>8. \A i \in 1..n : f[i] \in DOMAIN q.batch /\ q.batch[f[i]] \in q.advanced
  <2>1. \A x \in S : x \in DOMAIN q.batch /\ q.batch[x] \in q.advanced
    OBVIOUS
  <2> HIDE DEF f, S
  <2>2. QED BY <1>6, <2>1
<1>9. Clones(q) \in Seq(Candidates)
  <2> HIDE DEF f, S
  <2>1. Clones(q) \in [1..n -> Candidates]
    BY <1>1, <1>7, <1>8
  <2>2. QED BY <1>6, <2>1, IsASeq
<1>10. ASSUME q.advanced \subseteq ToSet(q.batch) PROVE ToSet(Clones(q)) = q.advanced
  <2>1. ToSet(Clones(q)) = {q.batch[f[i]] : i \in 1..n}
    <3> HIDE DEF f, S, n
    <3>1. QED BY <1>7 DEF ToSet
  <2>2. ASSUME NEW c \in q.advanced PROVE \E i \in 1..n : q.batch[f[i]] = c
    <3>1. PICK x \in DOMAIN q.batch : q.batch[x] = c
      BY <1>10, <2>2 DEF ToSet
    <3>2. x \in S
      BY <2>2, <3>1
    <3> HIDE DEF f, S
    <3>3. QED BY <1>6, <3>1, <3>2
  <2> HIDE DEF f, S
  <2>3. QED BY <1>8, <2>1, <2>2
<1>11. QED BY <1>9, <1>10

(* The batch of a leaf is a sequence of candidates.                        *)
LEMMA BatchType == ASSUME NEW q \in RequestType PROVE Batch(q) \in Seq(Candidates)
  BY ClonesFacts, ZenonT(30) DEF Batch, RequestType, Imps

(* A chunk is the next part of the batch, and not empty before its end.    *)
LEMMA ChunkFacts ==
    ASSUME NEW q \in RequestType, q.at < Len(Batch(q))
    PROVE  /\ End(q) \in (q.at + 1)..Len(Batch(q)) /\ Chunk(q) # <<>>
           /\ ToSet(Chunk(q)) = {Batch(q)[i] : i \in (q.at + 1)..End(q)}
<1> DEFINE b == Batch(q)
           e == End(q)
           k == q.at
<1>1. b \in Seq(Candidates) /\ Len(b) \in Nat /\ k \in Nat /\ MaxBatch \in Nat \ {0}
  BY BatchType, ScoringAssumption DEF RequestType
<1>2. e \in (k + 1)..Len(b)
  BY <1>1 DEF End
<1>3. Chunk(q) = SubSeq(b, k + 1, e)
  BY DEF Chunk
<1> HIDE DEF b, e, k
<1>4. /\ SubSeq(b, k + 1, e) \in Seq(Candidates)
      /\ Len(SubSeq(b, k + 1, e)) = e - k
      /\ \A i \in 1..(e - k) : SubSeq(b, k + 1, e)[i] = b[k + i]
  BY <1>1, <1>2
<1>5. ToSet(SubSeq(b, k + 1, e)) = {b[i] : i \in (k + 1)..e}
  <2> DEFINE s == SubSeq(b, k + 1, e)
  <2>1. DOMAIN s = 1..(e - k) /\ \A i \in 1..(e - k) : s[i] = b[k + i]
    BY <1>4
  <2> HIDE DEF s
  <2>2. ASSUME NEW i \in (k + 1)..e PROVE \E j \in 1..(e - k) : s[j] = b[i]
    <3>1. i - k \in 1..(e - k) /\ k + (i - k) = i
      BY <1>1, <1>2, <2>2
    <3>2. QED BY <2>1, <3>1
  <2>3. ASSUME NEW j \in 1..(e - k) PROVE k + j \in (k + 1)..e /\ s[j] = b[k + j]
    BY <1>1, <1>2, <2>1, <2>3
  <2>4. ToSet(s) = {s[j] : j \in 1..(e - k)}
    BY <2>1 DEF ToSet
  <2>5. {s[j] : j \in 1..(e - k)} = {b[i] : i \in (k + 1)..e}
    BY <2>2, <2>3
  <2>6. QED BY <2>4, <2>5, ZenonT(30) DEF s
<1>6. SubSeq(b, k + 1, e) # <<>>
  <2>1. e - k # 0
    BY <1>1, <1>2
  <2>2. QED BY <1>4, <2>1
<1>7. QED BY <1>2, <1>3, <1>5, <1>6 DEF b, e, k

-----------------------------------------------------------------------------
(* The tree of scorers                                                     *)

(* Only build_cascade makes a cascade, with the values of its section.     *)
LEMMA CascadeBuilt ==
    ASSUME NEW cfg, NEW kind, NEW at, BuildLeafOrCascade(cfg, kind, at).scorer = "cascade"
    PROVE  LET t == BuildLeafOrCascade(cfg, kind, at)
           IN  t.top_k = cfg.cascade.top_k /\ t.threshold = cfg.cascade.threshold
<1>1. CASE kind = "cascade"
  <2>1. BuildLeafOrCascade(cfg, kind, at) = BuildCascade(cfg, at)
    BY <1>1 DEF BuildLeafOrCascade
  <2>2. BuildCascade(cfg, at) # Bad
    BY <2>1 DEF Bad
  <2>3. QED BY <2>1, <2>2 DEF BuildCascade
<1>2. CASE kind # "cascade"
  BY <1>2 DEF BuildLeafOrCascade, BuildLeaf, BuildMl, Fw, Bad
<1>3. QED BY <1>1, <1>2

(* Whichever arm scores for a request, main.rs built it.                   *)
LEMMA ArmBuilt ==
    ASSUME NEW q
    PROVE  \E kind, at : Arm(q) = BuildLeafOrCascade(config, kind, at)
<1>1. CASE Tree.scorer = "ab_test"
  <2>1. CASE config.kind = "ab_test"
    <3>1. Tree = BuildAbTest(config) /\ Tree # Bad
      BY <1>1, <2>1 DEF Tree, BuildScorerRoot, Bad
    <3>2. /\ Tree.control = BuildLeafOrCascade(config, config.ab_test.control, <<"control">>)
          /\ Tree.treatment =
                BuildLeafOrCascade(config, config.ab_test.treatment, <<"treatment">>)
      BY <3>1 DEF BuildAbTest
    <3>3. Arm(q) = Tree.control \/ Arm(q) = Tree.treatment
      BY <1>1 DEF Arm, PickArm
    <3>4. QED BY <3>2, <3>3
  <2>2. CASE config.kind # "ab_test"
    <3>1. Tree = BuildLeafOrCascade(config, config.kind, <<>>)
      BY <2>2 DEF Tree, BuildScorerRoot
    <3>2. Tree.scorer # "ab_test"
      BY <3>1 DEF BuildLeafOrCascade, BuildCascade, BuildLeaf, BuildMl, Fw, Bad
    <3>3. QED BY <1>1, <3>2
  <2>3. QED BY <2>1, <2>2
<1>2. CASE Tree.scorer # "ab_test"
  <2>1. Arm(q) = Tree
    BY <1>2 DEF Arm
  <2>2. CASE config.kind = "ab_test"
    <3>1. Tree = Bad
      BY <1>2, <2>2 DEF Tree, BuildScorerRoot, BuildAbTest
    <3>2. BuildLeafOrCascade(config, "", <<>>) = Bad
      BY DEF BuildLeafOrCascade, BuildLeaf
    <3>3. QED BY <2>1, <3>1, <3>2, ZenonT(30)
  <2>3. CASE config.kind # "ab_test"
    BY <2>1, <2>3 DEF Tree, BuildScorerRoot
  <2>4. QED BY <2>2, <2>3
<1>3. QED BY <1>1, <1>2

(* A cascade's cut is typed, as the configuration is.                      *)
LEMMA CutType ==
    ASSUME config \in Configs, NEW q, Arm(q).scorer = "cascade"
    PROVE  Arm(q).top_k \in Nat /\ Arm(q).threshold \in Int
<1>1. PICK kind, at : Arm(q) = BuildLeafOrCascade(config, kind, at)
  BY ArmBuilt
<1>2. Arm(q).top_k = config.cascade.top_k /\ Arm(q).threshold = config.cascade.threshold
  BY <1>1, CascadeBuilt
<1>3. QED BY <1>2, ScoringAssumption

Among(x, s) == \E i \in 1..Len(s) : s[i] = x

(* What is in a part is in the whole.                                      *)
LEMMA AmongConcat ==
    ASSUME NEW S, NEW s \in Seq(S), NEW t \in Seq(S), NEW x, Among(x, s) \/ Among(x, t)
    PROVE  Among(x, s \o t)
<1>1. /\ Len(s) \in Nat /\ Len(t) \in Nat /\ Len(s \o t) = Len(s) + Len(t)
      /\ \A i \in 1..Len(s) : (s \o t)[i] = s[i]
      /\ \A i \in 1..Len(t) : (s \o t)[Len(s) + i] = t[i]
  BY ConcatProperties
<1>2. \A i \in 1..Len(s) : i \in 1..Len(s \o t)
  BY <1>1
<1>3. \A i \in 1..Len(t) : Len(s) + i \in 1..Len(s \o t)
  BY <1>1
<1>4. CASE Among(x, s)
  BY <1>1, <1>2, <1>4 DEF Among
<1>5. CASE Among(x, t)
  <2>1. PICK i \in 1..Len(t) : t[i] = x
    BY <1>5 DEF Among
  <2>2. (s \o t)[Len(s) + i] = x
    BY <1>1, <2>1
  <2>3. QED BY <1>3, <2>1, <2>2 DEF Among
<1>6. QED BY <1>4, <1>5

(* An ml leaf is counted where it stands.                                  *)
LEMMA LeafCounted ==
    ASSUME NEW t
    PROVE  /\ LeafModels(t) \in Seq({t.at})
           /\ t.scorer = "ml" => Among(t.at, LeafModels(t))
<1>1. CASE t.scorer = "ml"
  <2>1. LeafModels(t) = <<t.at>>
    BY <1>1 DEF LeafModels
  <2>2. QED BY <2>1 DEF Among
<1>2. CASE t.scorer # "ml"
  BY <1>2 DEF LeafModels
<1>3. QED BY <1>1, <1>2

(* So is it in an arm,                                                     *)
LEMMA ArmCounted ==
    ASSUME NEW t
    PROVE  /\ ArmModels(t) \in Seq({t.at, t.stage1.at, t.stage2.at})
           /\ t.scorer = "ml" => Among(t.at, ArmModels(t))
           /\ t.scorer = "cascade" /\ t.stage1.scorer = "ml" => Among(t.stage1.at, ArmModels(t))
           /\ t.scorer = "cascade" /\ t.stage2.scorer = "ml" => Among(t.stage2.at, ArmModels(t))
<1> DEFINE S == {t.at, t.stage1.at, t.stage2.at}
<1>1. /\ LeafModels(t) \in Seq(S)
      /\ LeafModels(t.stage1) \in Seq(S) /\ LeafModels(t.stage2) \in Seq(S)
  <2>1. Seq({t.at}) \subseteq Seq(S)
    BY SeqMonotonic
  <2>2. Seq({t.stage1.at}) \subseteq Seq(S)
    BY SeqMonotonic
  <2>3. Seq({t.stage2.at}) \subseteq Seq(S)
    BY SeqMonotonic
  <2> HIDE DEF S
  <2>4. QED BY <2>1, <2>2, <2>3, LeafCounted
<1>2. CASE t.scorer = "cascade"
  <2>1. ArmModels(t) = LeafModels(t.stage1) \o LeafModels(t.stage2)
    BY <1>2 DEF ArmModels
  <2> HIDE DEF S
  <2>2. ArmModels(t) \in Seq(S)
    BY <1>1, <2>1, ConcatProperties
  <2>3. t.stage1.scorer = "ml" => Among(t.stage1.at, ArmModels(t))
    BY <1>1, <2>1, LeafCounted, AmongConcat, ZenonT(30)
  <2>4. t.stage2.scorer = "ml" => Among(t.stage2.at, ArmModels(t))
    BY <1>1, <2>1, LeafCounted, AmongConcat, ZenonT(30)
  <2>5. QED BY <1>2, <2>2, <2>3, <2>4 DEF S
<1>3. CASE t.scorer # "cascade"
  <2>1. ArmModels(t) = LeafModels(t)
    BY <1>3 DEF ArmModels
  <2>2. QED BY <1>1, <1>3, <2>1, LeafCounted, ZenonT(30)
<1>4. QED BY <1>2, <1>3

(* and the ml leaf that scores for a request is one of the tree's, so that *)
(* it has an MLScorer.                                                     *)
LEMMA LeafNumbered ==
    ASSUME config \in Configs, NEW q, Leaf(q).scorer = "ml"
    PROVE  Number(Leaf(q)) \in Scorers
<1>1. Among(Leaf(q).at, ArmModels(Arm(q)))
  <2>1. CASE Arm(q).scorer # "cascade"
    <3>1. Leaf(q) = Arm(q)
      BY <2>1 DEF Leaf
    <3>2. QED BY <3>1, ArmCounted, ZenonT(30)
  <2>2. CASE Arm(q).scorer = "cascade"
    <3>1. Leaf(q) = Arm(q).stage1 \/ Leaf(q) = Arm(q).stage2
      <4>1. CASE q.stage = 1
        BY <2>2, <4>1 DEF Leaf
      <4>2. CASE q.stage # 1
        BY <2>2, <4>2 DEF Leaf
      <4>3. QED BY <4>1, <4>2
    <3>2. QED BY <2>2, <3>1, ArmCounted, ZenonT(30)
  <2>3. QED BY <2>1, <2>2
<1>2. Among(Leaf(q).at, Models)
  <2>1. CASE Tree.scorer = "ab_test"
    <3> DEFINE c == Tree.control
               t == Tree.treatment
               S == {c.at, c.stage1.at, c.stage2.at, t.at, t.stage1.at, t.stage2.at}
    <3>1. Models = ArmModels(c) \o ArmModels(t)
      BY <2>1 DEF Models, TreeModels
    <3>2. Arm(q) = c \/ Arm(q) = t
      BY <2>1 DEF Arm, PickArm
    <3>3. ArmModels(c) \in Seq(S) /\ ArmModels(t) \in Seq(S)
      <4>1. Seq({c.at, c.stage1.at, c.stage2.at}) \subseteq Seq(S)
        BY SeqMonotonic
      <4>2. Seq({t.at, t.stage1.at, t.stage2.at}) \subseteq Seq(S)
        BY SeqMonotonic
      <4> HIDE DEF S, c, t
      <4>3. QED BY <4>1, <4>2, ArmCounted, ZenonT(30)
    <3> HIDE DEF S, c, t
    <3>4. Among(Leaf(q).at, ArmModels(c)) \/ Among(Leaf(q).at, ArmModels(t))
      BY <1>1, <3>2
    <3>5. QED BY <3>1, <3>3, <3>4, AmongConcat
  <2>2. CASE Tree.scorer # "ab_test"
    BY <1>1, <2>2 DEF Models, TreeModels, Arm
  <2>3. QED BY <2>1, <2>2
<1>3. Number(Leaf(q)) \in 1..Len(Models)
  BY <1>2 DEF Number, Among
<1>4. QED BY <1>3, ScorersAssumption DEF Models, Tree

-----------------------------------------------------------------------------
(* The steps of a request                                                  *)

(* Nobody is scored at first.                                              *)
LEMMA NoScoresType == NoScores \in [Candidates -> Scores]
  BY DEF NoScores, Scores

(* A request that is not being scored is well formed.                      *)
LEMMA IdleOK == Idle \in RequestType /\ Progress(Idle)
<1>1. <<>> \in Imps /\ <<>> \in Seq(Imps)
  BY DEF Imps, IsInjective
<1>2. Idle \in RequestType
  BY <1>1, NoScoresType DEF Idle, RequestType
<1>3. Batch(Idle) = <<>> /\ Idle.pc = "idle" /\ Idle.at = 0
  BY DEF Batch, Idle
<1>4. QED BY <1>2, <1>3 DEF Progress

(* What a scorer returns to the stage, or to its cascade, is well formed,  *)
(* when it has scored its whole batch from one source.                     *)
LEMMA ReturnOK ==
    ASSUME config \in Configs, NEW q \in RequestType, Working(q),
           NEW work \in [Candidates -> Scores], OneSource(work, ToSet(Batch(q)))
    PROVE  Return(q, work) \in RequestType /\ Progress(Return(q, work))
<1> DEFINE p == Return(q, work)
           keys == AdvanceKeys(Arm(q), q.batch, work)
<1>t. /\ q.user \in Users \cup {Anonymous} /\ q.todo \in Seq(Imps) /\ q.batch \in Imps
      /\ q.at \in Nat /\ q.score \in [Candidates -> Scores]
      /\ q.advanced \in SUBSET Candidates /\ q.batch \in Seq(Candidates)
      /\ q.stage \in {1, 2} /\ q.at <= Len(Batch(q)) /\ Len(Batch(q)) \in Nat
  <2>1. /\ q.user \in Users \cup {Anonymous} /\ q.todo \in Seq(Imps) /\ q.batch \in Imps
        /\ q.at \in Nat /\ q.score \in [Candidates -> Scores]
        /\ q.advanced \in SUBSET Candidates
    BY DEF RequestType
  <2>2. q.batch \in Seq(Candidates)
    BY <2>1 DEF Imps
  <2>3. Len(Batch(q)) \in Nat
    BY BatchType
  <2>4. q.stage \in {1, 2} /\ q.at < Len(Batch(q))
    BY DEF Working
  <2>5. QED BY <2>1, <2>2, <2>3, <2>4
<1>1. CASE q.stage = 2
  <2> DEFINE sc == [c \in Candidates |-> IF c \in q.advanced THEN work[c] ELSE q.score[c]]
  <2>1. p = [[q EXCEPT !.pc = "imp", !.session = NoSession, !.work = NoScores]
                EXCEPT !.score = sc]
    BY <1>1 DEF Return
  <2>2. sc \in [Candidates -> Scores]
    BY <1>t
  <2>3. p \in RequestType
    <3> HIDE DEF sc
    <3>1. QED BY <1>t, <2>1, <2>2, NoScoresType, ZenonT(30) DEF RequestType
  <2>4. /\ p.pc = "imp" /\ p.batch = q.batch /\ p.advanced = q.advanced
        /\ p.at = q.at /\ p.stage = q.stage /\ p.score = sc
    <3> HIDE DEF sc
    <3>1. QED BY <2>1 DEF RequestType
  <2>5. Batch(p) = Batch(q)
    <3> HIDE DEF p
    <3>1. Clones(p) = Clones(q)
      BY <2>4 DEF Clones
    <3>2. QED BY <2>4, <3>1 DEF Batch
  <2>6. Advancing(q)
    BY <1>1, ZenonT(30) DEF Working
  <2>7. ToSet(Batch(q)) = q.advanced /\ q.advanced \subseteq ToSet(q.batch)
    BY <1>1, <2>6, ClonesFacts, ZenonT(30) DEF Batch, Advancing
  <2>8. OneSource(sc, q.advanced)
    BY <1>t, <2>7, ZenonT(30) DEF OneSource
  <2>9. OneSource(sc, ToSet(q.batch) \ q.advanced)
    <3>1. ToSet(q.batch) \subseteq Candidates
      BY <1>t DEF ToSet
    <3>2. QED BY <2>6, <3>1, ZenonT(30) DEF OneSource, Advancing
  <2> HIDE DEF p, sc
  <2>10. Settled(p)
    BY <2>4, <2>7, <2>8, <2>9, ZenonT(30) DEF Settled
  <2>11. p.at <= Len(Batch(p))
    BY <1>t, <2>4, <2>5
  <2>12. Progress(p)
    BY <2>4, <2>10, <2>11 DEF Progress
  <2>13. QED BY <2>3, <2>12 DEF p
<1>2. CASE q.stage = 1 /\ ~(Arm(q).scorer = "cascade" /\ keys # {})
  <2>1. p = [[q EXCEPT !.pc = "imp", !.session = NoSession, !.work = NoScores]
                EXCEPT !.score = work]
    BY <1>2 DEF Return
  <2>2. p \in RequestType
    BY <1>t, <2>1, NoScoresType, ZenonT(30) DEF RequestType
  <2>3. /\ p.pc = "imp" /\ p.batch = q.batch /\ p.advanced = q.advanced
        /\ p.at = q.at /\ p.stage = q.stage /\ p.score = work
    BY <2>1 DEF RequestType
  <2>4. Batch(p) = Batch(q) /\ Batch(q) = q.batch /\ q.advanced = {}
    <3> HIDE DEF p, keys
    <3>1. q.advanced = {}
      BY <1>2 DEF Working
    <3>2. q.stage # 2 /\ p.stage # 2
      BY <1>2, <2>3
    <3>3. QED BY <2>3, <3>1, <3>2 DEF Batch
  <2>5. OneSource(work, {}) /\ OneSource(work, ToSet(q.batch) \ {})
    BY <2>4 DEF OneSource
  <2> HIDE DEF p
  <2>6. Settled(p)
    <3>1. OneSource(p.score, p.advanced) /\ OneSource(p.score, ToSet(p.batch) \ p.advanced)
      BY <2>3, <2>4, <2>5
    <3>2. p.advanced \subseteq ToSet(p.batch)
      BY <2>3, <2>4
    <3>3. QED BY <3>1, <3>2 DEF Settled
  <2>7. p.at <= Len(Batch(p))
    BY <1>t, <2>3, <2>4
  <2>8. Progress(p)
    BY <2>3, <2>6, <2>7 DEF Progress
  <2>9. QED BY <2>2, <2>8 DEF p
<1>3. CASE q.stage = 1 /\ Arm(q).scorer = "cascade" /\ keys # {}
  <2> DEFINE wk == [c \in Candidates |-> IF c \in keys THEN work[c] ELSE Unscored]
  <2>1. p = [q EXCEPT !.pc = "call", !.session = NoSession, !.at = 0, !.stage = 2,
                      !.work = wk, !.score = work, !.advanced = keys]
    BY <1>3 DEF Return
  <2>2. Arm(q).top_k \in Nat /\ Arm(q).threshold \in Int
    BY <1>3, CutType, ZenonT(30)
  <2>3. /\ keys \subseteq ToSet(q.batch)
        /\ \A c \in keys : Value(c, work[c]) >= Arm(q).threshold
        /\ \A c \in ToSet(q.batch) \ keys : Value(c, work[c]) >= Arm(q).threshold =>
              /\ Cardinality(keys) = Arm(q).top_k
              /\ \A d \in keys : Value(d, work[d]) >= Value(c, work[c])
    BY <1>t, <2>2, AdvanceBest, ZenonT(30)
  <2> HIDE DEF keys
  <2>4. ToSet(q.batch) \subseteq Candidates
    BY <1>t DEF ToSet
  <2>5. wk \in [Candidates -> Scores]
    BY ZenonT(30) DEF Scores
  <2> HIDE DEF wk
  <2>6. p \in RequestType
    <3>1. keys \in SUBSET Candidates
      BY <2>3, <2>4
    <3>2. p = [pc |-> "call", user |-> q.user, todo |-> q.todo, stage |-> 2,
               batch |-> q.batch, at |-> 0, session |-> NoSession,
               work |-> wk, score |-> work, advanced |-> keys]
      BY <2>1, ZenonT(30) DEF RequestType
    <3> HIDE DEF p
    <3>3. 0 \in Nat /\ 2 \in 0..2
      OBVIOUS
    <3>4. QED BY <1>t, <2>5, <3>1, <3>2, <3>3, ZenonT(30) DEF RequestType
  <2>7. /\ p.pc = "call" /\ p.batch = q.batch /\ p.advanced = keys /\ p.user = q.user
        /\ p.at = 0 /\ p.stage = 2 /\ p.score = work
    BY <2>1, ZenonT(30) DEF RequestType
  <2> HIDE DEF p
  <2>8. Arm(p) = Arm(q)
    BY <2>7, ZenonT(30) DEF Arm
  <2>9. Advancing(p)
    <3>1. OneSource(work, ToSet(q.batch))
      BY <1>3 DEF Batch
    <3>2. QED BY <1>3, <2>3, <2>7, <2>8, <3>1 DEF Advancing
  <2>10. Batch(p) \in Seq(Candidates) /\ ToSet(Batch(p)) = keys
    BY <2>3, <2>6, <2>7, ClonesFacts DEF Batch
  <2>11. Len(Batch(p)) \in Nat \ {0}
    <3>1. Batch(p) # <<>>
      BY <1>3, <2>10 DEF ToSet
    <3>2. QED BY <2>10, <3>1
  <2>12. Working(p)
    <3>1. ByModel(p)
      BY <2>7 DEF ByModel
    <3>2. QED BY <2>7, <2>9, <2>11, <3>1 DEF Working
  <2>13. Progress(p)
    BY <2>7, <2>11, <2>12 DEF Progress
  <2>14. QED BY <2>6, <2>13 DEF p
<1>4. QED BY <1>t, <1>1, <1>2, <1>3, ZenonT(30)

(* The [scoring] section decides a request's progress and nothing else     *)
(* does.                                                                   *)
LEMMA ProgressKept ==
    ASSUME config' = config, NEW q, Progress(q)
    PROVE  Progress(q)'
<1>1. Arm(q)' = Arm(q)
  BY DEF Arm, Tree
<1>2. Advancing(q) => Advancing(q)'
  BY <1>1 DEF Advancing
<1>3. Working(q) => Working(q)'
  BY <1>1, <1>2 DEF Working
<1>4. QED BY <1>3 DEF Progress

(* A step that changes one request changes no other.                       *)
LEMMA RequestsJoin ==
    ASSUME RequestsInv, config' = config, NEW r \in Requests,
           NEW p \in RequestType, Progress(p), req' = [req EXCEPT ![r] = p]
    PROVE  RequestsInv'
<1>1. req' \in [Requests -> RequestType]
  BY DEF RequestsInv
<1>2. ASSUME NEW x \in Requests PROVE Progress(req[x])'
  <2>1. PICK q : q = req'[x]
    OBVIOUS
  <2>2. Progress(q)
    BY <2>1 DEF RequestsInv
  <2>3. Progress(q)'
    BY <2>2, ProgressKept
  <2>4. QED BY <2>1, <2>3
<1>3. QED BY <1>1, <1>2, ZenonT(30) DEF RequestsInv, RequestType

(* A leaf that scores a whole batch with the linear formula scores it from *)
(* one source.                                                             *)
LEMMA LinearWhole ==
    ASSUME NEW work \in [Candidates -> Scores], NEW batch \in Seq(Candidates)
    PROVE  /\ ScoreLinear(work, batch) \in [Candidates -> Scores]
           /\ OneSource(ScoreLinear(work, batch), ToSet(batch))
<1>1. ToSet(batch) \subseteq Candidates
  BY DEF ToSet
<1>2. \A c \in ToSet(batch) : ScoreLinear(work, batch)[c].by = "fw"
  BY <1>1 DEF ScoreLinear, Linear
<1>3. ScoreLinear(work, batch) \in [Candidates -> Scores]
  BY DEF ScoreLinear, Scores
<1>4. QED BY <1>2, <1>3 DEF OneSource

(* ScoringStage::execute: a request arrives with nobody scored yet.        *)
LEMMA ArriveStep ==
    ASSUME ScoringInv, NEW r \in Requests, Arrive(r) PROVE RequestsInv'
<1>1. PICK user \in Users \cup {Anonymous}, todo \in Asked :
        req' = [req EXCEPT ![r] = [Idle EXCEPT !.pc = "imp", !.user = user, !.todo = todo]]
  BY ZenonT(30) DEF Arrive
<1> DEFINE p == [Idle EXCEPT !.pc = "imp", !.user = user, !.todo = todo]
<1>2. todo \in Seq(Imps)
  BY ScoringAssumption DEF Imps
<1>3. p \in RequestType
  BY <1>2, IdleOK, ZenonT(30) DEF RequestType
<1>4. p.pc = "imp" /\ p.batch = <<>> /\ p.stage = 0 /\ p.at = 0
  BY DEF Idle
<1>5. req' = [req EXCEPT ![r] = p]
  BY <1>1
<1> HIDE DEF p
<1>6. Progress(p)
  BY <1>4 DEF Progress, Batch
<1>7. QED BY <1>3, <1>5, <1>6, RequestsJoin, ZenonT(30) DEF Arrive, ScoringInv

(* A request dropped by the HTTP timeout leaves nothing behind.            *)
LEMMA DropStep ==
    ASSUME ScoringInv, NEW r \in Requests, Drop(r) PROVE RequestsInv'
  BY IdleOK, RequestsJoin, ZenonT(30) DEF Drop, ScoringInv

(* The next impression begins with its batch and no scores,                *)
LEMMA BegunType ==
    ASSUME NEW user \in Users \cup {Anonymous}, NEW todo \in Seq(Imps),
           NEW at \in {"imp", "call"}, NEW imp \in Imps
    PROVE  [Idle EXCEPT !.user = user, !.todo = todo, !.pc = at, !.stage = 1,
                        !.batch = imp] \in RequestType
<1>1. 1 \in 0..2 /\ at \in {"idle", "imp", "call", "run"}
  OBVIOUS
<1>2. QED BY <1>1, IdleOK, ZenonT(30) DEF RequestType

(* and the stage goes on to it, or is done.                                *)
LEMMA NextImpStep ==
    ASSUME ScoringInv, NEW r \in Requests, NextImp(r) PROVE RequestsInv'
<1> DEFINE q == req[r]
           at == IF Head(q.todo) = <<>> THEN "imp" ELSE "call"
           p == [Idle EXCEPT !.user = q.user, !.todo = Tail(q.todo), !.pc = at,
                             !.stage = 1, !.batch = Head(q.todo)]
<1>1. q \in RequestType
  BY DEF ScoringInv, RequestsInv
<1>2. CASE q.todo = <<>>
  <2>1. req' = [req EXCEPT ![r] = Idle]
    BY <1>2 DEF NextImp
  <2>2. QED BY <2>1, IdleOK, RequestsJoin, ZenonT(30) DEF NextImp, ScoringInv
<1>3. CASE q.todo # <<>>
  <2>1. req' = [req EXCEPT ![r] = p]
    BY <1>3 DEF NextImp
  <2>2. q.todo \in Seq(Imps) /\ q.user \in Users \cup {Anonymous}
    BY <1>1 DEF RequestType
  <2>3. Head(q.todo) \in Imps /\ Tail(q.todo) \in Seq(Imps)
    BY <1>3, <2>2
  <2>4. /\ p.pc = at /\ p.at = 0
        /\ p.stage = 1 /\ p.batch = Head(q.todo) /\ p.advanced = {}
    BY DEF Idle
  <2>5. p \in RequestType
    <3>0. at \in {"imp", "call"}
      OBVIOUS
    <3> HIDE DEF at, q
    <3>1. QED BY <2>2, <2>3, <3>0, BegunType, ZenonT(30)
  <2> HIDE DEF p
  <2>6. Batch(p) = Head(q.todo) /\ Len(Head(q.todo)) \in Nat
    BY <2>3, <2>4 DEF Batch, Imps
  <2>7. p.pc = "call" => Working(p)
    <3> HAVE p.pc = "call"
    <3>1. Len(Head(q.todo)) > 0
      BY <2>3, <2>4 DEF Imps
    <3>2. ByModel(p)
      BY <2>4 DEF ByModel
    <3>3. QED BY <2>4, <2>6, <3>1, <3>2 DEF Working
  <2>8. Progress(p)
    BY <2>4, <2>6, <2>7 DEF Progress
  <2>9. QED BY <2>1, <2>5, <2>8, RequestsJoin, ZenonT(30) DEF NextImp, ScoringInv
<1>4. QED BY <1>2, <1>3

(* FeatureWeightedScorer::score_all writes every score of its batch.       *)
LEMMA CallLinearStep ==
    ASSUME ScoringInv, NEW r \in Requests, CallLinear(r) PROVE RequestsInv'
<1> DEFINE q == req[r]
           work == ScoreLinear(q.work, Batch(q))
           p == Return(q, work)
<1>1. q \in RequestType /\ Progress(q) /\ q.pc = "call"
  BY DEF ScoringInv, RequestsInv, CallLinear
<1>2. Working(q) /\ q.work \in [Candidates -> Scores] /\ Batch(q) \in Seq(Candidates)
  BY <1>1, BatchType DEF Progress, RequestType
<1>3. req' = [req EXCEPT ![r] = p]
  BY DEF CallLinear
<1> HIDE DEF q
<1>4. work \in [Candidates -> Scores] /\ OneSource(work, ToSet(Batch(q)))
  BY <1>2, LinearWhole, ZenonT(30)
<1> HIDE DEF work
<1>5. p \in RequestType /\ Progress(p)
  BY <1>1, <1>2, <1>4, ReturnOK DEF ScoringInv, SystemInv
<1> HIDE DEF p
<1>6. QED BY <1>3, <1>5, RequestsJoin, ZenonT(30) DEF CallLinear, ScoringInv

(* MLScorer::score_all picks a session of the snapshot it loads.           *)
LEMMA PickSessionStep ==
    ASSUME ScoringInv, NEW r \in Requests, PickSession(r) PROVE RequestsInv'
<1> DEFINE q == req[r]
           s == Number(Leaf(q))
           p == [q EXCEPT !.pc = "run", !.session = Picked(s)]
<1>1. q \in RequestType /\ Progress(q) /\ q.pc = "call"
  BY DEF ScoringInv, RequestsInv, PickSession
<1>2. s \in Scorers
  BY LeafNumbered DEF PickSession, ScoringInv, SystemInv
<1>3. Pick(s) /\ config' = config
  BY DEF PickSession
<1>4. req' = [req EXCEPT ![r] = p]
  <2>1. req' = [req EXCEPT ![r].pc = "run", ![r].session = Picked(s)]
    BY DEF PickSession
  <2> HIDE DEF s
  <2>2. req \in [Requests -> RequestType]
    BY DEF ScoringInv, RequestsInv
  <2>3. QED BY <2>1, <2>2, ZenonT(30) DEF RequestType
<1> HIDE DEF s, q
<1>5. Picked(s) \in Sessions
  <2>1. /\ pool[s] \in Seq(Sessions) /\ next[s] \in 0..(PoolSize - 1)
        /\ Len(pool[s]) \in {0, PoolSize}
    BY <1>2 DEF ScoringInv, SystemInv, Inv, ReloadTypeOK
  <2>2. pool[s] # <<>>
    BY <1>3 DEF Pick
  <2>3. Len(pool[s]) = PoolSize /\ PoolSize \in Nat
    BY <2>1, <2>2
  <2>4. next[s] + 1 \in 1..Len(pool[s])
    BY <2>1, <2>3
  <2>5. QED BY <2>1, <2>4 DEF Picked
<1>6. p \in RequestType
  BY <1>1, <1>5, ZenonT(30) DEF RequestType
<1>7. /\ p.pc = "run" /\ p.session = Picked(s)
      /\ p.user = q.user /\ p.stage = q.stage /\ p.batch = q.batch /\ p.at = q.at
      /\ p.work = q.work /\ p.score = q.score /\ p.advanced = q.advanced
  BY <1>1, ZenonT(30) DEF RequestType
<1> HIDE DEF p
<1>8. Batch(p) = Batch(q) /\ Arm(p) = Arm(q)
  BY <1>7 DEF Batch, Clones, Arm
<1>9. Working(q) /\ q.at <= Len(Batch(q))
  BY <1>1 DEF Progress
<1>10. Advancing(q) => Advancing(p)
  BY <1>7, <1>8, ZenonT(30) DEF Advancing
<1>11. Working(p)
  <2>1. ByModel(q) => ByModel(p)
    BY <1>7, <1>8 DEF ByModel
  <2>2. QED BY <1>5, <1>7, <1>8, <1>9, <1>10, <2>1, ZenonT(30) DEF Working
<1>12. Progress(p)
  BY <1>7, <1>8, <1>9, <1>11 DEF Progress
<1>13. QED BY <1>3, <1>4, <1>6, <1>12, RequestsJoin, ZenonT(30) DEF ScoringInv

(* MLScorer::score_all goes on to the next chunk, or has scored the whole  *)
(* batch with the model.                                                   *)
LEMMA RunChunkStep ==
    ASSUME ScoringInv, NEW r \in Requests, RunChunk(r) PROVE RequestsInv'
<1> DEFINE q == req[r]
           b == Batch(q)
           work == [c \in Candidates |->
                      IF c \in ToSet(Chunk(q)) THEN Inferred(q.session.stamp) ELSE q.work[c]]
           next1 == [q EXCEPT !.pc = "call", !.session = NoSession, !.work = work,
                              !.at = End(q)]
           p == IF End(q) = Len(b) THEN Return(q, work) ELSE next1
<1>1. q \in RequestType /\ Progress(q) /\ q.pc = "run" /\ config \in Configs
  BY DEF ScoringInv, SystemInv, RequestsInv, RunChunk
<1>2. req' = [req EXCEPT ![r] = p] /\ config' = config
  BY DEF RunChunk
<1> HIDE DEF q
<1>3. /\ Working(q) /\ q.work \in [Candidates -> Scores] /\ b \in Seq(Candidates)
      /\ q.session \in Sessions /\ q.at \in Nat
  BY <1>1, BatchType, ZenonT(30) DEF Progress, Working, RequestType
<1>4. Len(b) \in Nat /\ q.at < Len(b)
  BY <1>3 DEF Working
<1>5. End(q) \in (q.at + 1)..Len(b) /\ ToSet(Chunk(q)) = {b[i] : i \in (q.at + 1)..End(q)}
  BY <1>1, <1>4, ChunkFacts, ZenonT(30)
<1>6. work \in [Candidates -> Scores]
  <2>1. q.session.stamp \in 1..MaxStamp
    BY <1>3 DEF Sessions
  <2>2. Inferred(q.session.stamp) \in Scores
    BY <2>1 DEF Scores
  <2>3. QED BY <1>3, <2>2
<1>7. ASSUME NEW i \in 1..End(q) PROVE work[b[i]].by = "ml"
  <2>1. i \in 1..Len(b) /\ b[i] \in Candidates
    BY <1>3, <1>4, <1>5
  <2>2. CASE b[i] \in ToSet(Chunk(q))
    BY <2>1, <2>2, ZenonT(30) DEF Inferred
  <2>3. CASE b[i] \notin ToSet(Chunk(q))
    <3>1. i \notin (q.at + 1)..End(q)
      BY <1>5, <2>3
    <3>2. i \in 1..q.at
      BY <1>3, <1>5, <3>1
    <3>3. q.work[b[i]].by = "ml"
      BY <1>3, <3>2 DEF Working, ByModel
    <3>4. QED BY <2>1, <2>3, <3>3
  <2>4. QED BY <2>2, <2>3
<1> HIDE DEF work
<1>8. CASE End(q) = Len(b)
  <2>1. \A c \in ToSet(b) : work[c].by = "ml"
    BY <1>3, <1>7, <1>8 DEF ToSet
  <2>2. OneSource(work, ToSet(b))
    BY <2>1 DEF OneSource
  <2>3. p = Return(q, work)
    BY <1>8, ZenonT(30)
  <2> HIDE DEF p
  <2>4. p \in RequestType /\ Progress(p)
    BY <1>1, <1>3, <1>6, <2>2, <2>3, ReturnOK
  <2>5. QED BY <1>2, <2>4, RequestsJoin, ZenonT(30) DEF ScoringInv
<1>9. CASE End(q) # Len(b)
  <2>1. p = next1
    BY <1>9
  <2>2. End(q) \in Nat /\ End(q) < Len(b) /\ End(q) > 0
    BY <1>3, <1>4, <1>5, <1>9
  <2>3. p \in RequestType
    BY <1>1, <1>6, <2>1, <2>2, ZenonT(30) DEF RequestType
  <2>4. /\ p.pc = "call" /\ p.at = End(q) /\ p.work = work
        /\ p.user = q.user /\ p.stage = q.stage /\ p.batch = q.batch
        /\ p.score = q.score /\ p.advanced = q.advanced
    BY <1>1, <2>1, ZenonT(30) DEF RequestType
  <2> HIDE DEF p
  <2>5. Batch(p) = b /\ Arm(p) = Arm(q)
    BY <2>4 DEF Batch, Clones, Arm
  <2>6. Advancing(q) => Advancing(p)
    BY <2>4, <2>5, ZenonT(30) DEF Advancing
  <2>7. Working(p)
    <3>1. ByModel(p)
      BY <1>7, <2>4, <2>5 DEF ByModel
    <3>2. QED BY <1>3, <2>2, <2>4, <2>5, <2>6, <3>1, ZenonT(30) DEF Working
  <2>8. Progress(p)
    BY <2>2, <2>4, <2>5, <2>7 DEF Progress
  <2>9. QED BY <1>2, <2>3, <2>8, RequestsJoin, ZenonT(30) DEF ScoringInv
<1>10. QED BY <1>8, <1>9

(* MLScorer::score_all falls back: the linear formula scores all of it.    *)
LEMMA ChunkFailsStep ==
    ASSUME ScoringInv, NEW r \in Requests, ChunkFails(r) PROVE RequestsInv'
<1> DEFINE q == req[r]
           p == Return(q, FallBack(q))
<1>1. q \in RequestType /\ Progress(q) /\ q.pc = "run"
  BY DEF ScoringInv, RequestsInv, ChunkFails
<1>2. req' = [req EXCEPT ![r] = p] /\ config' = config
  BY DEF ChunkFails
<1> HIDE DEF q
<1>3. Working(q) /\ Batch(q) \in Seq(Candidates)
  BY <1>1, BatchType DEF Progress
<1>4. FallBack(q) \in [Candidates -> Scores] /\ OneSource(FallBack(q), ToSet(Batch(q)))
  BY <1>3, NoScoresType, LinearWhole DEF FallBack
<1>5. p \in RequestType /\ Progress(p)
  BY <1>1, <1>3, <1>4, ReturnOK DEF ScoringInv, SystemInv
<1> HIDE DEF p
<1>6. QED BY <1>2, <1>5, RequestsJoin, ZenonT(30) DEF ScoringInv

(* ScoringInv is inductive.                                                *)
LEMMA ScoringInductive == Spec => []ScoringInv
<1>1. Init => RequestsInv
  BY IdleOK DEF Init, RequestsInv
<1>2. ASSUME ScoringInv, [Next]_vars PROVE RequestsInv'
  <2>1. config' = config
    BY <1>2, ScoringStep DEF ScoringInv
  <2>2. CASE req' = req
    <3>1. req' \in [Requests -> RequestType]
      BY <1>2, <2>2 DEF ScoringInv, RequestsInv
    <3>2. ASSUME NEW x \in Requests PROVE Progress(req[x])'
      <4>1. PICK q : q = req'[x]
        OBVIOUS
      <4>2. Progress(q)
        BY <1>2, <2>2, <4>1 DEF ScoringInv, RequestsInv
      <4>3. Progress(q)'
        BY <2>1, <4>2, ProgressKept
      <4>4. QED BY <4>1, <4>3
    <3>3. QED BY <3>1, <3>2, ZenonT(30) DEF RequestsInv, RequestType
  <2>3. ASSUME NEW r \in Requests, Arrive(r) \/ RequestStep(r) \/ Drop(r)
        PROVE  RequestsInv'
    BY <1>2, <2>3, ArriveStep, DropStep, NextImpStep, CallLinearStep, PickSessionStep,
       RunChunkStep, ChunkFailsStep DEF RequestStep
  <2>4. QED BY <1>2, <2>2, <2>3 DEF Next, BuildNext, vars, scoringVars
<1>3. QED BY <1>1, <1>2, SystemInductive, PTL DEF Spec, ScoringInv

(* TypeOK, for every tree build_scorer_root builds and every request: a    *)
(* chunk of MLScorer::score_all is never empty, and a session in use is    *)
(* one that a pool had.                                                    *)
THEOREM ScoringTypeCorrect == Spec => []TypeOK
<1>1. ASSUME ScoringInv PROVE TypeOK
  <2>1. ReloadTypeOK /\ config \in Configs
    BY <1>1 DEF ScoringInv, SystemInv, Inv
  <2>2. ASSUME NEW r \in Requests
        PROVE  /\ req[r].pc \in {"idle", "imp", "call", "run"}
               /\ req[r].at \in 0..Len(Batch(req[r]))
               /\ req[r].pc \in {"call", "run"} => Chunk(req[r]) # <<>>
               /\ req[r].pc = "run" => req[r].session \in Sessions
               /\ req[r].work \in [Candidates -> Scores]
               /\ req[r].score \in [Candidates -> Scores]
    <3> DEFINE q == req[r]
    <3>1. q \in RequestType /\ Progress(q)
      BY <1>1 DEF ScoringInv, RequestsInv
    <3> HIDE DEF q
    <3>2. /\ q.pc \in {"idle", "imp", "call", "run"} /\ q.at \in Nat
          /\ q.work \in [Candidates -> Scores] /\ q.score \in [Candidates -> Scores]
      BY <3>1 DEF RequestType
    <3>3. q.at \in 0..Len(Batch(q))
      BY <3>1, <3>2, BatchType DEF Progress
    <3>4. q.pc \in {"call", "run"} => Working(q)
      BY <3>1 DEF Progress
    <3>5. q.pc \in {"call", "run"} => Chunk(q) # <<>>
      BY <3>1, <3>4, ChunkFacts, ZenonT(30) DEF Working
    <3>6. q.pc = "run" => q.session \in Sessions
      BY <3>4 DEF Working
    <3>7. QED BY <3>2, <3>3, <3>5, <3>6 DEF q
  <2>3. QED BY <2>1, <2>2 DEF TypeOK
<1>2. QED BY <1>1, ScoringInductive, PTL

(* MLScorer::score_all, "never emit a partial score": whichever chunks     *)
(* fail while models are swapped, one scorer's candidates are all scored,  *)
(* by one source; for every batch, chunk size, tree and number of models.  *)
THEOREM ScoresAreWhole == Spec => []NoPartialScore
<1>1. ASSUME ScoringInv, NEW r \in Requests, Scored(req[r])
      PROVE  LET q == req[r]
                 left == ToSet(q.batch) \ q.advanced
             IN  /\ \A cs \in {left, q.advanced} : Cardinality(Sources(q, cs)) <= 1
                 /\ "none" \notin Sources(q, ToSet(q.batch))
  <2> DEFINE q == req[r]
             left == ToSet(q.batch) \ q.advanced
  <2>1. Settled(q)
    BY <1>1 DEF ScoringInv, RequestsInv, Progress, Scored
  <2> HIDE DEF q
  <2>2. ASSUME NEW cs, OneSource(q.score, cs) PROVE Cardinality(Sources(q, cs)) <= 1
    <3>1. PICK by \in {"fw", "ml"} : \A c \in cs : q.score[c].by = by
      BY <2>2 DEF OneSource
    <3>2. CASE cs = {}
      <4>1. Sources(q, cs) = {}
        BY <3>2 DEF Sources
      <4>2. QED BY <4>1, FS_EmptySet
    <3>3. CASE cs # {}
      <4>1. Sources(q, cs) = {by}
        BY <3>1, <3>3 DEF Sources
      <4>2. QED BY <4>1, FS_Singleton
    <3>4. QED BY <3>2, <3>3
  <2>3. OneSource(q.score, left) /\ OneSource(q.score, q.advanced)
    BY <2>1 DEF Settled
  <2>4. ASSUME NEW c \in ToSet(q.batch) PROVE q.score[c].by # "none"
    BY <2>3 DEF OneSource
  <2>5. "none" \notin Sources(q, ToSet(q.batch))
    BY <2>4 DEF Sources
  <2>6. QED BY <2>2, <2>3, <2>5, ZenonT(30) DEF q
<1>2. ScoringInv => NoPartialScore
  BY <1>1 DEF NoPartialScore
<1>3. QED BY <1>2, ScoringInductive, PTL

(* CascadeScorer::score_all: stage 2 is given the best top_k of those that *)
(* reach the threshold, for every batch and every two models that scored   *)
(* its stage 1.                                                            *)
THEOREM CascadeAdvances == Spec => []CascadeAdvancesBest
<1>1. ASSUME ScoringInv, NEW r \in Requests, req[r].pc \in {"call", "run"}, req[r].stage = 2
      PROVE  Advancing(req[r])
  BY <1>1 DEF ScoringInv, RequestsInv, Progress, Working
<1>2. ScoringInv => CascadeAdvancesBest
  BY <1>1, ZenonT(30) DEF CascadeAdvancesBest, Advancing
<1>3. QED BY <1>2, ScoringInductive, PTL

=============================================================================
