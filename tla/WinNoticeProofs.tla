-------------------------- MODULE WinNoticeProofs --------------------------
(***************************************************************************)
(* The win path has the side effects of a win no more often than its dedup *)
(* key was set, and counts an accepted win no more often than its EVALs    *)
(* are sent, for any wins, exchanges, handlers, workers and channel, and   *)
(* any number of notices, keys that run out, outages and restarts.         *)
(*                                                                         *)
(* None of it is inductive as it stands.  Claims sets the events of a win  *)
(* and the handlers that hold an "ok" for it against the times its key was *)
(* set: a handler trades its "ok" for the event, and Redis gives another   *)
(* only with the key.  OnePlace follows an accepted win through the        *)
(* recorder: it is in one place at a time, and no window is written there  *)
(* but those the worker has sent an EVAL for.  Explained names the reason  *)
(* for each key in Redis, each "nil" and each orphan.                      *)
(***************************************************************************)
EXTENDS WinNotice, FiniteSetTheorems, SequenceTheorems, TLAPS

(* A handler has a win exactly while it serves a notice, and a reply only  *)
(* while it waits for the SET-NX.                                          *)
Handling ==
    \A a \in Handlers :
        /\ pc[a] = "idle" <=> win[a] = None
        /\ reply[a] # None => pc[a] = "set"

(* The handlers that Redis has given the win w, and that are about to      *)
(* account for it.                                                         *)
Holders(w) == {a \in Handlers : win[a] = w /\ reply[a] = "ok"}

(* Every event and every holder has a setting of the key to itself.        *)
Claims == \A w \in Wins : events[w] + Cardinality(Holders(w)) <= lives[w]

(* Why a SET-NX may find the key: the win was processed or given up.       *)
Excused(w) == Processed(w) \/ w \in lost

Explained ==
    /\ \A w \in keys \cup orphans \cup duplicate : Excused(w)
    /\ \A a \in Handlers : reply[a] = "nil" => Excused(win[a])

GateTyped ==
    /\ pc \in [Handlers -> {"idle", "gate", "set"}]
    /\ win \in [Handlers -> Wins \cup {None}]
    /\ reply \in [Handlers -> {None, "ok", "nil"}]
    /\ keys \subseteq Wins /\ orphans \subseteq Wins
    /\ lives \in [Wins -> Nat]
    /\ events \in [Wins -> Nat]
    /\ duplicate \subseteq Wins /\ lost \subseteq Wins

-----------------------------------------------------------------------------
(* Where the recorder has an accepted win: in the channel, in the          *)
(* dispatcher's hand or with a worker.                                     *)
Queued(i) == \E n \in 1..Len(queue) : queue[n] = i
Held(i) == hand = i
With(k, i) == job[k].imp = i

(* What waits was accepted, is not written yet, and is in one place;       *)
Waiting ==
    \A i \in Impressions : Queued(i) \/ Held(i) =>
        /\ i \in DOMAIN written
        /\ \A x \in Windows : written[i][x] = 0
        /\ \A k \in Workers : ~With(k, i)
        /\ ~(Queued(i) /\ Held(i))

Once == \A m, n \in 1..Len(queue) : queue[m] = queue[n] => m = n

(* a worker has written its windows in order, each no more often than it   *)
(* sent the EVAL, the one under way not counted.                           *)
Progress(k, i) ==
    /\ job[k].todo = <<"h", "d">> => written[i]["h"] < job[k].sent /\ written[i]["d"] = 0
    /\ job[k].todo = <<"d">> => written[i]["d"] < job[k].sent

Assigned ==
    /\ \A k \in Workers, i \in Impressions : With(k, i) => i \in DOMAIN written /\ Progress(k, i)
    /\ \A k, l \in Workers, i \in Impressions : With(k, i) /\ With(l, i) => k = l

OnePlace == Waiting /\ Once /\ Assigned

Jobs == [imp : Impressions, todo : Todos, sent : 1..MaxAttempts]

RecorderTyped ==
    /\ queue \in Seq(Impressions) /\ Len(queue) <= QueueCap
    /\ hand \in Impressions \cup {NoImpression}
    /\ job \in [Workers -> Jobs \cup {Idle}]
    /\ DOMAIN written \subseteq Impressions
    /\ \A i \in DOMAIN written : written[i] \in [Windows -> Nat]

(* An accepted win bears the number of one of its events.                  *)
Numbered == \A i \in DOMAIN written : i.nth <= events[i.win]

(* What holds of the handlers and Redis, and what holds of the recorder.   *)
GateInv == GateTyped /\ Handling /\ Claims /\ Explained
RecorderInv == RecorderTyped /\ Numbered /\ OnePlace /\ NeverOvercounted

BoundsTyped == up \in BOOLEAN /\ notices \in [Wins -> Nat] /\ crashes \in 0..MaxCrashes

Inv == GateInv /\ RecorderInv /\ BoundsTyped

-----------------------------------------------------------------------------
(* Inv says all that the run checks.                                       *)
LEMMA InvImplies == Inv => TypeOK /\ NeverOvercounted /\ DuplicateExplained
<1> SUFFICES ASSUME Inv PROVE TypeOK /\ NeverOvercounted /\ DuplicateExplained
  OBVIOUS
<1>1. TypeOK
  BY DEF Inv, GateInv, RecorderInv, GateTyped, RecorderTyped, BoundsTyped, Jobs, TypeOK
<1>2. DuplicateExplained
  BY DEF Inv, GateInv, Explained, Excused, DuplicateExplained
<1>3. QED BY <1>1, <1>2 DEF Inv, RecorderInv

(* An accepted win is not the empty slot of the recorder.                  *)
LEMMA Distinct == NoImpression \notin Impressions /\ Idle \notin Jobs
<1>1. NoImpression \notin Impressions
  BY DEF NoImpression, Accepted, Impressions
<1>2. QED BY <1>1 DEF Idle, Jobs

(* Holders are handlers, of which there are finitely many.                 *)
LEMMA HoldersFinite ==
    ASSUME NEW w
    PROVE  IsFiniteSet(Holders(w)) /\ Cardinality(Holders(w)) \in Nat
<1>1. IsFiniteSet(Holders(w))
  BY WinAssumption, FS_Subset DEF Holders
<1>2. QED BY <1>1, FS_CardinalityType

(* Nothing was noticed, claimed or written yet.                            *)
LEMMA Initially == Init => Inv
<1> SUFFICES ASSUME Init PROVE Inv
  OBVIOUS
<1>1. GateTyped /\ Handling /\ Explained
  BY WinAssumption DEF Init, GateTyped, Handling, Explained, None
<1>2. Claims
  <2>1. ASSUME NEW w \in Wins PROVE events[w] + Cardinality(Holders(w)) <= lives[w]
    <3>1. Holders(w) = {}
      BY DEF Init, Holders, None
    <3>2. Cardinality(Holders(w)) = 0
      BY <3>1, FS_EmptySet
    <3>3. QED BY <3>2 DEF Init
  <2>2. QED BY <2>1 DEF Claims
<1>3. DOMAIN written = {} /\ queue = <<>> /\ hand = NoImpression
  BY DEF Init
<1>4. RecorderTyped
  <2>1. queue \in Seq(Impressions) /\ Len(queue) <= QueueCap
    <3>1. QueueCap \in Nat
      BY WinAssumption
    <3>2. QED BY <1>3, <3>1
  <2>2. job \in [Workers -> Jobs \cup {Idle}]
    BY DEF Init
  <2>3. QED BY <1>3, <2>1, <2>2 DEF RecorderTyped
<1>5. Numbered /\ NeverOvercounted
  BY <1>3 DEF Numbered, NeverOvercounted
<1>6. OnePlace
  <2>1. \A k \in Workers : job[k].imp = NoImpression
    BY DEF Init, Idle
  <2>2. QED BY <1>3, <2>1, Distinct DEF OnePlace, Waiting, Once, Assigned, Queued, Held, With
<1>7. BoundsTyped
  <2>1. MaxCrashes \in Nat
    BY WinAssumption
  <2>2. QED BY <2>1 DEF Init, BoundsTyped
<1>8. QED BY <1>1, <1>2, <1>4, <1>5, <1>6, <1>7 DEF Inv, GateInv, RecorderInv

-----------------------------------------------------------------------------
(* The recorder is left alone, and no win loses its event.                 *)
LEMMA RecorderKept ==
    ASSUME RecorderInv, UNCHANGED <<queue, hand, job, written, events>>
    PROVE  RecorderInv'
<1>1. RecorderTyped' /\ Numbered'
  BY DEF RecorderInv, RecorderTyped, Numbered
<1>2. OnePlace'
  BY DEF RecorderInv, OnePlace, Waiting, Once, Assigned, Queued, Held, With, Progress
<1>3. NeverOvercounted'
  BY DEF RecorderInv, NeverOvercounted
<1>4. QED BY <1>1, <1>2, <1>3 DEF RecorderInv

(* The handlers and the keys are left alone.                               *)
LEMMA GateKept ==
    ASSUME GateInv, UNCHANGED <<pc, win, reply, keys, orphans, lives, events, duplicate, lost>>
    PROVE  GateInv'
<1>1. GateTyped' /\ Handling'
  BY DEF GateInv, GateTyped, Handling
<1>2. Claims'
  BY DEF GateInv, Claims, Holders
<1>3. Explained'
  BY DEF GateInv, Explained, Excused, Processed
<1>4. QED BY <1>1, <1>2, <1>3 DEF GateInv

(* No win gains an event or a holder, and none loses a setting of its key. *)
LEMMA ClaimsKept ==
    ASSUME GateTyped, Claims, events' = events, lives' \in [Wins -> Nat],
           \A v \in Wins : lives[v] <= lives'[v],
           \A v \in Wins : Holders(v)' \subseteq Holders(v)
    PROVE  Claims'
<1>1. ASSUME NEW v \in Wins
      PROVE  events'[v] + Cardinality(Holders(v)') <= lives'[v]
  <2>1. /\ IsFiniteSet(Holders(v)') /\ Cardinality(Holders(v)') \in Nat
        /\ Cardinality(Holders(v)) \in Nat
        /\ Cardinality(Holders(v)') <= Cardinality(Holders(v))
    BY HoldersFinite, FS_Subset, FS_CardinalityType
  <2>2. /\ events[v] \in Nat /\ lives[v] \in Nat /\ lives'[v] \in Nat
        /\ events'[v] = events[v] /\ lives[v] <= lives'[v]
        /\ events[v] + Cardinality(Holders(v)) <= lives[v]
    BY DEF GateTyped, Claims
  <2>3. QED BY <2>1, <2>2
<1>2. QED BY <1>1 DEF Claims

(* SET NX: the key is there, and counts as set if it was not there.        *)
LEMMA SetKeyFacts ==
    ASSUME GateTyped, NEW w \in Wins, SetKey(w)
    PROVE  /\ keys' = keys \cup {w}
           /\ lives' \in [Wins -> Nat]
           /\ \A v \in Wins : lives[v] <= lives'[v]
           /\ w \in keys => lives' = lives
           /\ w \notin keys => lives' = [lives EXCEPT ![w] = @ + 1]
<1>1. /\ keys' = keys \cup {w}
      /\ w \in keys => lives' = lives
      /\ w \notin keys => lives' = [lives EXCEPT ![w] = @ + 1]
  BY DEF SetKey
<1>2. CASE w \in keys
  BY <1>1, <1>2 DEF GateTyped
<1>3. CASE w \notin keys
  BY <1>1, <1>3 DEF GateTyped
<1>4. QED BY <1>1, <1>2, <1>3

-----------------------------------------------------------------------------
(* The handler.  A notice that is admitted claims nothing.                 *)
LEMMA NotifyStep ==
    ASSUME GateInv, NEW a \in Handlers, NEW w \in Wins, Notify(a, w)
    PROVE  GateInv'
<1> USE DEF GateInv
<1>1. /\ pc[a] = "idle" /\ pc' = [pc EXCEPT ![a] = "gate"] /\ win' = [win EXCEPT ![a] = w]
      /\ UNCHANGED <<reply, keys, orphans, lives, events, duplicate, lost>>
  BY DEF Notify, redis
<1>2. GateTyped'
  BY <1>1 DEF GateTyped
<1>3. Handling'
  BY <1>1, WinAssumption DEF Handling, GateTyped
<1>4. reply[a] = None /\ reply' = reply /\ \A b \in Handlers \ {a} : win'[b] = win[b]
  BY <1>1 DEF Handling, GateTyped
<1>5. \A v \in Wins : Holders(v)' = Holders(v)
  BY <1>4 DEF Holders, None
<1>6. Claims'
  BY <1>1, <1>5 DEF Claims
<1>7. \A v \in Wins \cup {None} : Excused(v) => Excused(v)'
  BY <1>1, <1>4 DEF Excused, Processed, None
<1>8. Explained'
  BY <1>1, <1>4, <1>7 DEF Explained, GateTyped, None
<1>9. QED BY <1>2, <1>3, <1>6, <1>8

(* A handler that leaves holds nothing any more.                           *)
LEMMA LeaveStep ==
    ASSUME GateTyped, Handling, NEW a \in Handlers, Leave(a)
    PROVE  /\ pc' \in [Handlers -> {"idle", "gate", "set"}]
           /\ win' \in [Handlers -> Wins \cup {None}]
           /\ reply' \in [Handlers -> {None, "ok", "nil"}]
           /\ Handling'
           /\ win'[a] = None /\ reply'[a] = None
           /\ \A b \in Handlers \ {a} : win'[b] = win[b] /\ reply'[b] = reply[b]
           /\ \A v \in Wins : Holders(v)' = Holders(v) \ {a}
<1> USE DEF GateTyped
<1>1. /\ pc' \in [Handlers -> {"idle", "gate", "set"}]
      /\ win' \in [Handlers -> Wins \cup {None}]
      /\ reply' \in [Handlers -> {None, "ok", "nil"}]
  BY DEF Leave
<1>2. /\ win'[a] = None /\ reply'[a] = None
      /\ \A b \in Handlers \ {a} : win'[b] = win[b] /\ reply'[b] = reply[b]
  BY DEF Leave
<1>3. Handling'
  BY DEF Handling, Leave
<1>4. \A v \in Wins : Holders(v)' = Holders(v) \ {a}
  BY <1>2, ZenonT(30) DEF Holders, None
<1>5. QED BY <1>1, <1>2, <1>3, <1>4

(* 401, or on to Redis: nothing is claimed either way.                     *)
LEMMA CheckTokenStep ==
    ASSUME GateInv, NEW a \in Handlers, CheckToken(a)
    PROVE  GateInv'
<1> USE DEF GateInv
<1>1. /\ reply[a] = None /\ win[a] # None
      /\ UNCHANGED <<keys, orphans, lives, events, duplicate, lost>>
  BY DEF CheckToken, Handling, redis
<1>2. CASE pc' = [pc EXCEPT ![a] = "set"] /\ UNCHANGED <<win, reply>>
  <2>1. GateTyped' /\ Handling'
    BY <1>1, <1>2 DEF GateTyped, Handling
  <2>2. Claims'
    BY <1>1, <1>2 DEF Claims, Holders
  <2>3. Explained'
    BY <1>1, <1>2 DEF Explained, Excused, Processed
  <2>4. QED BY <2>1, <2>2, <2>3
<1>3. CASE Leave(a)
  <2>1. GateTyped' /\ Handling'
    BY <1>1, <1>3, LeaveStep DEF GateTyped
  <2>2. /\ win'[a] = None /\ reply'[a] = None
        /\ \A b \in Handlers \ {a} : win'[b] = win[b] /\ reply'[b] = reply[b]
        /\ \A v \in Wins : Holders(v)' \subseteq Holders(v)
    BY <1>3, LeaveStep
  <2>3. Claims'
    <3>1. \A v \in Wins : lives[v] <= lives'[v]
      BY <1>1 DEF GateTyped
    <3>2. QED BY <1>1, <2>1, <2>2, <3>1, ClaimsKept DEF GateTyped
  <2>4. \A v \in Wins \cup {None} : Excused(v) => Excused(v)'
    BY <1>1, <2>2 DEF Excused, Processed, None
  <2>5. Explained'
    BY <1>1, <2>2, <2>4 DEF Explained, GateTyped, None
  <2>6. QED BY <2>1, <2>3, <2>5
<1>4. QED BY <1>2, <1>3 DEF CheckToken

(* Redis answers "ok" only when it sets the key.                           *)
LEMMA SetNxStep ==
    ASSUME GateInv, NEW a \in Handlers, SetNx(a)
    PROVE  GateInv'
<1> USE DEF GateInv
<1>0. win[a] \in Wins /\ pc[a] = "set" /\ reply[a] = None
  BY DEF SetNx, Handling, GateTyped
<1>1. PICK w \in Wins : w = win[a] /\ pc[a] = "set" /\ reply[a] = None
  BY <1>0
<1>2. /\ reply'[a] = IF w \in keys THEN "nil" ELSE "ok"
      /\ \A b \in Handlers \ {a} : reply'[b] = reply[b]
      /\ UNCHANGED <<pc, win, orphans, events, duplicate, lost>>
  BY <1>1 DEF SetNx, GateTyped
<1>3. /\ keys' = keys \cup {w} /\ lives' \in [Wins -> Nat]
      /\ \A v \in Wins : lives[v] <= lives'[v]
      /\ w \in keys => lives' = lives
      /\ w \notin keys => lives' = [lives EXCEPT ![w] = @ + 1]
  BY <1>1, SetKeyFacts DEF SetNx
<1>4. GateTyped' /\ Handling'
  <2>1. reply' \in [Handlers -> {None, "ok", "nil"}]
    BY DEF SetNx, GateTyped
  <2>2. GateTyped'
    BY <1>1, <1>2, <1>3, <2>1 DEF GateTyped
  <2>3. Handling'
    BY <1>1, <1>2 DEF Handling
  <2>4. QED BY <2>2, <2>3
<1>5. /\ w \in keys => \A v \in Wins : Holders(v)' \subseteq Holders(v)
      /\ \A v \in Wins \ {w} : Holders(v)' \subseteq Holders(v)
      /\ Holders(w)' \subseteq Holders(w) \cup {a}
  BY <1>1, <1>2 DEF Holders
<1>6. Claims'
  <2>1. CASE w \in keys
    BY <1>2, <1>3, <1>5, <2>1, ClaimsKept
  <2>2. CASE w \notin keys
    <3>1. ASSUME NEW v \in Wins
          PROVE  events'[v] + Cardinality(Holders(v)') <= lives'[v]
      <4>1. /\ IsFiniteSet(Holders(v)) /\ Cardinality(Holders(v)) \in Nat
            /\ events[v] \in Nat /\ lives[v] \in Nat /\ events'[v] = events[v]
            /\ events[v] + Cardinality(Holders(v)) <= lives[v]
        BY <1>2, HoldersFinite DEF Claims, GateTyped
      <4>2. CASE v = w
        <5>1. Cardinality(Holders(w) \cup {a}) <= Cardinality(Holders(w)) + 1
          <6>1. Cardinality(Holders(w) \cup {a}) = IF a \in Holders(w) THEN Cardinality(Holders(w))
                                                   ELSE Cardinality(Holders(w)) + 1
            BY <4>1, <4>2, FS_AddElement
          <6>2. QED BY <4>1, <4>2, <6>1
        <5>2. IsFiniteSet(Holders(w) \cup {a})
          BY <4>1, <4>2, FS_AddElement
        <5>3. /\ Cardinality(Holders(w)') <= Cardinality(Holders(w) \cup {a})
              /\ Cardinality(Holders(w)') \in Nat
              /\ Cardinality(Holders(w) \cup {a}) \in Nat
          BY <1>5, <5>2, FS_Subset, FS_CardinalityType
        <5>4. lives'[w] = lives[w] + 1
          BY <1>1, <1>3, <2>2 DEF GateTyped
        <5>5. QED BY <4>1, <4>2, <5>1, <5>3, <5>4
      <4>3. CASE v # w
        <5>1. /\ Cardinality(Holders(v)') <= Cardinality(Holders(v))
              /\ Cardinality(Holders(v)') \in Nat
          BY <1>5, <4>1, <4>3, FS_Subset, FS_CardinalityType
        <5>2. lives'[v] = lives[v]
          BY <1>1, <1>3, <2>2, <4>3 DEF GateTyped
        <5>3. QED BY <4>1, <5>1, <5>2
      <4>4. QED BY <4>2, <4>3
    <3>2. QED BY <3>1 DEF Claims
  <2>3. QED BY <2>1, <2>2
<1>7. \A v \in Wins \cup {None} : Excused(v) => Excused(v)'
  BY <1>1, <1>2 DEF Excused, Processed, None
<1>8. Excused(w)'
  BY <1>1, <1>2, <1>7 DEF Explained, Excused, Processed
<1>9. Explained'
  BY <1>1, <1>2, <1>3, <1>7, <1>8 DEF Explained, GateTyped
<1>10. QED BY <1>4, <1>6, <1>9

(* A key set for nobody: the win is among those given up.                  *)
LEMMA SetForNobody ==
    ASSUME GateInv, NEW w \in Wins, SetKey(w), Excused(w)',
           orphans' \subseteq orphans, lost \subseteq lost', lost' \subseteq Wins,
           UNCHANGED <<pc, win, reply, events, duplicate>>
    PROVE  GateInv'
<1> USE DEF GateInv
<1>1. /\ keys' = keys \cup {w} /\ lives' \in [Wins -> Nat]
      /\ \A v \in Wins : lives[v] <= lives'[v]
  BY SetKeyFacts
<1>2. GateTyped' /\ Handling'
  BY <1>1 DEF GateTyped, Handling
<1>3. Claims'
  <2>1. \A v \in Wins : Holders(v)' \subseteq Holders(v)
    BY DEF Holders
  <2>2. QED BY <1>1, <2>1, ClaimsKept
<1>4. \A v \in Wins \cup {None} : Excused(v) => Excused(v)'
  BY DEF Excused, Processed
<1>5. Explained'
  BY <1>1, <1>4 DEF Explained, GateTyped
<1>6. QED BY <1>2, <1>3, <1>5

(* 200 for a duplicate: the reply was explained when it was given.         *)
LEMMA DuplicateStep ==
    ASSUME GateInv, NEW a \in Handlers, Duplicate(a)
    PROVE  GateInv'
<1> USE DEF GateInv
<1>1. win[a] \in Wins /\ reply[a] = "nil" /\ Excused(win[a])
  BY DEF Duplicate, Handling, GateTyped, Explained
<1>2. /\ win'[a] = None /\ reply'[a] = None
      /\ \A b \in Handlers \ {a} : win'[b] = win[b] /\ reply'[b] = reply[b]
      /\ \A v \in Wins : Holders(v)' \subseteq Holders(v)
      /\ duplicate' = duplicate \cup {win[a]}
      /\ UNCHANGED <<keys, orphans, lives, events, lost>>
  BY LeaveStep DEF Duplicate, redis
<1>3. GateTyped' /\ Handling'
  BY <1>1, <1>2, LeaveStep DEF Duplicate, GateTyped
<1>4. Claims'
  <2>1. \A v \in Wins : lives[v] <= lives'[v]
    BY <1>2 DEF GateTyped
  <2>2. QED BY <1>2, <1>3, <2>1, ClaimsKept DEF GateTyped
<1>5. \A v \in Wins \cup {None} : Excused(v) => Excused(v)'
  BY <1>1, <1>2 DEF Excused, Processed, None
<1>6. Explained'
  BY <1>1, <1>2, <1>5 DEF Explained, GateTyped, None
<1>7. QED BY <1>3, <1>4, <1>6

(* A handler that gives up its SET-NX, with or without a reply: what it    *)
(* held goes, and the win is among those given up.                         *)
LEMMA GiveUpStep ==
    ASSUME GateInv, NEW a \in Handlers, DedupUnavailable(a)
    PROVE  GateInv'
<1> USE DEF GateInv
<1>1. win[a] \in Wins
  BY DEF DedupUnavailable, GivenUp, Handling, GateTyped
<1>2. /\ win'[a] = None /\ reply'[a] = None
      /\ \A b \in Handlers \ {a} : win'[b] = win[b] /\ reply'[b] = reply[b]
      /\ \A v \in Wins : Holders(v)' \subseteq Holders(v)
      /\ lost' = lost \cup {win[a]}
      /\ orphans' \subseteq orphans \cup {win[a]}
      /\ UNCHANGED <<keys, lives, events, duplicate>>
  <2>1. \/ orphans' \in {orphans, orphans \cup {win[a]}}
        \/ orphans' \in {orphans}
    BY DEF DedupUnavailable, GivenUp
  <2>2. QED BY <2>1, LeaveStep DEF DedupUnavailable, GivenUp
<1>3. GateTyped' /\ Handling'
  BY <1>1, <1>2, LeaveStep DEF DedupUnavailable, GivenUp, GateTyped
<1>4. Claims'
  <2>1. \A v \in Wins : lives[v] <= lives'[v]
    BY <1>2 DEF GateTyped
  <2>2. QED BY <1>2, <1>3, <2>1, ClaimsKept DEF GateTyped
<1>5. \A v \in Wins \cup {None} : Excused(v) \/ v = win[a] => Excused(v)'
  BY <1>1, <1>2 DEF Excused, Processed, None
<1>6. Explained'
  BY <1>1, <1>2, <1>5 DEF Explained, GateTyped, None
<1>7. QED BY <1>3, <1>4, <1>6

(* The handler that holds an "ok" trades it for the event.                 *)
LEMMA AcceptGate ==
    ASSUME GateInv, NEW a \in Handlers, Accept(a)
    PROVE  /\ GateInv'
           /\ win[a] \in Wins /\ events[win[a]] < lives[win[a]]
           /\ events' = [events EXCEPT ![win[a]] = @ + 1] /\ lives' = lives
<1> USE DEF GateInv
<1>0. win[a] \in Wins /\ reply[a] = "ok"
  BY DEF Accept, Handling, GateTyped
<1>1. PICK w \in Wins : w = win[a] /\ reply[a] = "ok"
  BY <1>0
<1>2. /\ events' = [events EXCEPT ![w] = @ + 1]
      /\ UNCHANGED <<keys, orphans, lives, duplicate, lost>> /\ Leave(a)
  BY <1>1 DEF Accept, redis
<1>3. /\ win'[a] = None /\ reply'[a] = None
      /\ \A b \in Handlers \ {a} : win'[b] = win[b] /\ reply'[b] = reply[b]
      /\ \A v \in Wins : Holders(v)' = Holders(v) \ {a}
      /\ events'[w] = events[w] + 1 /\ \A v \in Wins \ {w} : events'[v] = events[v]
  BY <1>1, <1>2, LeaveStep DEF GateTyped
<1>4. GateTyped' /\ Handling'
  BY <1>1, <1>2, LeaveStep DEF GateTyped
<1>5. ASSUME NEW v \in Wins
      PROVE  /\ IsFiniteSet(Holders(v)) /\ Cardinality(Holders(v)) \in Nat
             /\ events[v] \in Nat /\ lives[v] \in Nat
             /\ events[v] + Cardinality(Holders(v)) <= lives[v]
             /\ Cardinality(Holders(v)') =
                   IF a \in Holders(v) THEN Cardinality(Holders(v)) - 1
                   ELSE Cardinality(Holders(v))
             /\ Cardinality(Holders(v)') \in Nat
  <2>1. /\ IsFiniteSet(Holders(v)) /\ Cardinality(Holders(v)) \in Nat
        /\ events[v] \in Nat /\ lives[v] \in Nat
        /\ events[v] + Cardinality(Holders(v)) <= lives[v]
    BY HoldersFinite DEF Claims, GateTyped
  <2>2. /\ IsFiniteSet(Holders(v) \ {a})
        /\ Cardinality(Holders(v) \ {a}) = IF a \in Holders(v) THEN Cardinality(Holders(v)) - 1
                                           ELSE Cardinality(Holders(v))
    BY <2>1, FS_RemoveElement, ZenonT(30)
  <2>3. QED BY <1>3, <2>1, <2>2, FS_CardinalityType
<1>6. a \in Holders(w)
  BY <1>1 DEF Holders
<1>7. events[w] < lives[w]
  <2>1. Cardinality(Holders(w)') = Cardinality(Holders(w)) - 1
    BY <1>1, <1>5, <1>6
  <2>2. QED BY <1>1, <1>5, <2>1
<1>8. Claims'
  <2>1. ASSUME NEW v \in Wins
        PROVE  events'[v] + Cardinality(Holders(v)') <= lives'[v]
    <3>1. CASE v = w
      BY <1>2, <1>3, <1>5, <1>6, <3>1
    <3>2. CASE v # w
      BY <1>2, <1>3, <1>5, <3>2
    <3>3. QED BY <3>1, <3>2
  <2>2. QED BY <2>1 DEF Claims
<1>9. \A v \in Wins : Excused(v) => Excused(v)'
  <2>1. events'[w] > 0
    BY <1>1, <1>3 DEF GateTyped
  <2>2. QED BY <1>1, <1>2, <1>3, <2>1 DEF Excused, Processed
<1>10. \A b \in Handlers : reply[b] = "nil" => win[b] \in Wins
  BY DEF Handling, GateTyped, None
<1>11. Explained'
  BY <1>1, <1>2, <1>3, <1>9, <1>10 DEF Explained, GateTyped, None
<1>12. QED BY <1>1, <1>2, <1>4, <1>7, <1>8, <1>11

(* A key that runs out takes no claim with it.                             *)
LEMMA DedupExpiresStep ==
    ASSUME GateInv, NEW w \in Wins, DedupExpires(w)
    PROVE  GateInv'
<1> USE DEF GateInv
<1>1. /\ keys' = keys \ {w}
      /\ UNCHANGED <<pc, win, reply, orphans, lives, events, duplicate, lost>>
  BY DEF DedupExpires, handler
<1>2. GateTyped' /\ Handling'
  BY <1>1 DEF GateTyped, Handling
<1>3. Claims'
  BY <1>1 DEF Claims, Holders
<1>4. Explained'
  BY <1>1 DEF Explained, Excused, Processed
<1>5. QED BY <1>2, <1>3, <1>4

(* A restart drops every holder, and gives up every win that had one.      *)
LEMMA CrashGate ==
    ASSUME GateInv, Crash
    PROVE  GateInv'
<1> USE DEF GateInv
<1>1. PICK s \in SUBSET {win[a] : a \in {b \in Handlers : pc[b] = "set" /\ reply[b] = None}} :
         orphans' = orphans \cup s
  BY ZenonT(30) DEF Crash
<1>2. \A w \in s : \E a \in Handlers : win[a] = w /\ pc[a] = "set"
  BY <1>1
<1>3. lost' = lost \cup {win[a] : a \in {b \in Handlers : pc[b] = "set"}}
  BY DEF Crash
<1>4. /\ \A a \in Handlers : pc'[a] = "idle" /\ win'[a] = None /\ reply'[a] = None
      /\ UNCHANGED <<keys, lives, events, duplicate>>
      /\ \A a \in Handlers : pc[a] = "set" => win[a] \in lost'
      /\ lost \subseteq lost'
  BY <1>3 DEF Crash
<1>5. \A a \in Handlers : pc[a] = "set" => win[a] \in Wins
  BY DEF Handling, GateTyped
<1>6. s \subseteq Wins /\ lost' \subseteq Wins
  BY <1>2, <1>3, <1>5 DEF GateTyped
<1>7. GateTyped' /\ Handling'
  BY <1>1, <1>4, <1>6 DEF Crash, GateTyped, Handling
<1>8. Claims'
  <2>1. \A v \in Wins : Holders(v)' \subseteq Holders(v)
    BY <1>4 DEF Holders, None
  <2>2. \A v \in Wins : lives[v] <= lives'[v]
    BY <1>4 DEF GateTyped
  <2>3. QED BY <1>4, <1>7, <2>1, <2>2, ClaimsKept DEF GateTyped
<1>9. \A v \in Wins : Excused(v) => Excused(v)'
  BY <1>4 DEF Excused, Processed, Handling, None
<1>10. \A v \in s : Excused(v)'
  BY <1>2, <1>4 DEF Excused
<1>11. Explained'
  BY <1>1, <1>4, <1>9, <1>10 DEF Explained, GateTyped, None
<1>12. QED BY <1>7, <1>8, <1>11

-----------------------------------------------------------------------------
(* The recorder.  A win that is accepted now is nowhere in it yet: its     *)
(* number is new.                                                          *)
LEMMA AcceptRecorder ==
    ASSUME RecorderInv, NEW w \in Wins, events \in [Wins -> Nat], NEW i,
           i = Accepted(w, events[w] + 1), events' = [events EXCEPT ![w] = @ + 1],
           TryRecord(i), UNCHANGED <<hand, job>>,
           written' = [j \in DOMAIN written \cup {i} |->
                         IF j = i THEN [x \in Windows |-> 0] ELSE written[j]]
    PROVE  RecorderInv'
<1> USE DEF RecorderInv
<1>1. i \in Impressions /\ i.win = w /\ i.nth = events[w] + 1
  BY DEF Accepted, Impressions
<1>2. i \notin DOMAIN written
  <2>1. ~(i.nth <= events[i.win])
    BY <1>1
  <2>2. QED BY <2>1 DEF Numbered
<1>3. ~Queued(i) /\ ~Held(i) /\ \A k \in Workers : ~With(k, i)
  BY <1>1, <1>2 DEF OnePlace, Waiting, Assigned
<1>4. /\ DOMAIN written' = DOMAIN written \cup {i}
      /\ \A x \in Windows : written'[i][x] = 0
      /\ \A j \in DOMAIN written : written'[j] = written[j]
      /\ written'[i] \in [Windows -> Nat]
  BY <1>2
<1>5. \/ queue' = queue
      \/ queue' = Append(queue, i) /\ Len(queue) < QueueCap
  BY DEF TryRecord
<1> DEFINE longer == Append(queue, i)
<1>6. /\ queue \in Seq(Impressions) /\ Len(queue) \in Nat
      /\ longer \in Seq(Impressions) /\ Len(longer) = Len(queue) + 1
      /\ longer[Len(queue) + 1] = i
      /\ \A n \in 1..Len(queue) : longer[n] = queue[n]
  BY <1>1 DEF RecorderTyped
<1> HIDE DEF longer
<1>7. RecorderTyped'
  <2>1. queue' \in Seq(Impressions) /\ Len(queue') <= QueueCap
    <3>1. QueueCap \in Nat /\ Len(queue) <= QueueCap
      BY WinAssumption DEF RecorderTyped
    <3>2. CASE queue' = queue
      BY <1>6, <3>1, <3>2
    <3>3. CASE queue' = longer /\ Len(queue) < QueueCap
      BY <1>6, <3>1, <3>3
    <3>4. QED BY <1>5, <3>2, <3>3 DEF longer
  <2>2. \A j \in DOMAIN written' : written'[j] \in [Windows -> Nat]
    BY <1>4 DEF RecorderTyped
  <2>3. DOMAIN written' \subseteq Impressions
    BY <1>1, <1>4 DEF RecorderTyped
  <2>4. QED BY <2>1, <2>2, <2>3 DEF RecorderTyped
<1>8. Numbered'
  <2>1. ASSUME NEW j \in DOMAIN written'
        PROVE  j.nth <= events'[j.win]
    <3>1. CASE j = i
      BY <1>1, <3>1
    <3>2. CASE j # i
      <4>1. j \in DOMAIN written /\ j.win \in Wins /\ j.nth \in Nat
        BY <1>4, <3>2 DEF RecorderTyped, Impressions
      <4>2. j.nth <= events[j.win]
        BY <4>1 DEF Numbered
      <4>3. events[j.win] \in Nat /\ events'[j.win] \in {events[j.win], events[j.win] + 1}
        BY <4>1
      <4>4. QED BY <4>1, <4>2, <4>3
    <3>3. QED BY <3>1, <3>2
  <2>2. QED BY <2>1 DEF Numbered
<1>9. NeverOvercounted'
  <2>1. MaxAttempts \in Nat
    BY WinAssumption
  <2>2. QED BY <1>4, <2>1 DEF NeverOvercounted
<1>10. \A j \in Impressions : Queued(j)' => Queued(j) \/ j = i
  <2>1. ASSUME NEW j \in Impressions, NEW n \in 1..Len(longer), longer[n] = j, j # i
        PROVE  Queued(j)
    <3>1. n \in 1..Len(queue)
      BY <1>6, <2>1
    <3>2. QED BY <1>6, <2>1, <3>1 DEF Queued
  <2>2. QED BY <1>5, <2>1 DEF Queued, longer
<1>11. \A m, n \in 1..Len(queue') : queue'[m] = queue'[n] => m = n
  <2>1. \A n \in 1..Len(queue) : queue[n] # i
    BY <1>3 DEF Queued
  <2>2. \A m, n \in 1..Len(queue) : queue[m] = queue[n] => m = n
    BY DEF OnePlace, Once
  <2>3. \A n \in 1..Len(longer) : n \in 1..Len(queue) \/ n = Len(queue) + 1
    BY <1>6
  <2>4. ASSUME NEW m \in 1..Len(longer), NEW n \in 1..Len(longer), longer[m] = longer[n]
        PROVE  m = n
    <3>1. CASE m \in 1..Len(queue) /\ n \in 1..Len(queue)
      BY <1>6, <2>2, <2>4, <3>1
    <3>2. CASE m = Len(queue) + 1 \/ n = Len(queue) + 1
      BY <1>6, <2>1, <2>3, <2>4, <3>2
    <3>3. QED BY <2>3, <3>1, <3>2
  <2>5. CASE queue' = queue
    BY <2>2, <2>5
  <2>6. CASE queue' = longer
    BY <2>4, <2>6
  <2>7. QED BY <1>5, <2>5, <2>6 DEF longer
<1>12. ASSUME NEW j \in Impressions
       PROVE  /\ Held(j)' <=> Held(j)
              /\ \A k \in Workers : With(k, j)' <=> With(k, j)
              /\ \A k \in Workers : j \in DOMAIN written /\ Progress(k, j) => Progress(k, j)'
  BY <1>4 DEF Held, With, Progress
<1>13. Waiting'
  <2>1. ASSUME NEW j \in Impressions, Queued(j)' \/ Held(j)'
        PROVE  /\ j \in DOMAIN written'
               /\ \A x \in Windows : written'[j][x] = 0
               /\ \A k \in Workers : ~With(k, j)'
               /\ ~(Queued(j)' /\ Held(j)')
    <3>1. CASE j = i
      BY <1>3, <1>4, <1>12, <3>1
    <3>2. CASE j # i
      <4>1. Queued(j) \/ Held(j)
        BY <1>10, <1>12, <2>1, <3>2
      <4>2. /\ j \in DOMAIN written
            /\ \A x \in Windows : written[j][x] = 0
            /\ \A k \in Workers : ~With(k, j)
            /\ ~(Queued(j) /\ Held(j))
        BY <4>1, ZenonT(30) DEF OnePlace, Waiting
      <4>3. QED BY <1>4, <1>10, <1>12, <3>2, <4>2, ZenonT(30)
    <3>3. QED BY <3>1, <3>2, ZenonT(30)
  <2>2. QED BY <2>1 DEF Waiting
<1>14. Assigned'
  <2>1. ASSUME NEW k \in Workers, NEW j \in Impressions, With(k, j)'
        PROVE  j \in DOMAIN written' /\ Progress(k, j)'
    BY <1>4, <1>12, <2>1, ZenonT(30) DEF OnePlace, Assigned
  <2>2. QED BY <1>12, <2>1, ZenonT(30) DEF OnePlace, Assigned
<1>15. OnePlace'
  BY <1>11, <1>13, <1>14 DEF OnePlace, Once
<1>16. QED BY <1>7, <1>8, <1>9, <1>15

(* The dispatcher takes the first of the channel.                          *)
LEMMA ReceiveStep ==
    ASSUME RecorderInv, Receive
    PROVE  RecorderInv'
<1> USE DEF RecorderInv
<1>1. /\ hand = NoImpression /\ queue # <<>> /\ hand' = Head(queue) /\ queue' = Tail(queue)
      /\ UNCHANGED <<job, events, written>>
  BY DEF Receive
<1>2. /\ queue \in Seq(Impressions) /\ Len(queue) \in Nat \ {0} /\ queue[1] = Head(queue)
      /\ Tail(queue) \in Seq(Impressions) /\ Len(Tail(queue)) = Len(queue) - 1
      /\ \A n \in 1..(Len(queue) - 1) : Tail(queue)[n] = queue[n + 1]
      /\ Head(queue) \in Impressions
  BY <1>1 DEF RecorderTyped
<1>3. RecorderTyped'
  <2>1. QueueCap \in Nat /\ Len(queue) <= QueueCap
    BY WinAssumption DEF RecorderTyped
  <2>2. Len(Tail(queue)) <= QueueCap
    BY <1>2, <2>1
  <2>3. QED BY <1>1, <1>2, <2>2 DEF RecorderTyped
<1>4. NeverOvercounted' /\ Numbered'
  BY <1>1 DEF NeverOvercounted, Numbered
<1>5. \A j \in Impressions : Queued(j)' \/ Held(j)' => Queued(j)
  BY <1>1, <1>2 DEF Queued, Held
<1>6. \A j \in Impressions : ~(Queued(j)' /\ Held(j)')
  <2>1. ASSUME NEW n \in 1..(Len(queue) - 1) PROVE Tail(queue)[n] # queue[1]
    BY <1>2 DEF OnePlace, Once
  <2>2. QED BY <1>1, <1>2, <2>1 DEF Queued, Held
<1>7. \A m, n \in 1..Len(queue') : queue'[m] = queue'[n] => m = n
  <2>1. ASSUME NEW m \in 1..(Len(queue) - 1), NEW n \in 1..(Len(queue) - 1),
               Tail(queue)[m] = Tail(queue)[n]
        PROVE  m = n
    <3>1. m + 1 \in 1..Len(queue) /\ n + 1 \in 1..Len(queue) /\ queue[m + 1] = queue[n + 1]
      BY <1>2, <2>1
    <3>2. m + 1 = n + 1
      BY <3>1 DEF OnePlace, Once
    <3>3. QED BY <3>2
  <2>2. QED BY <1>1, <1>2, <2>1
<1>8. OnePlace'
  <2>1. Assigned'
    BY <1>1 DEF OnePlace, Assigned, With, Progress
  <2>2. Waiting'
    BY <1>1, <1>5, <1>6 DEF OnePlace, Waiting, With
  <2>3. QED BY <1>7, <2>1, <2>2 DEF OnePlace, Once
<1>9. QED BY <1>3, <1>4, <1>8

(* The lists of windows a worker goes through.                             *)
LEMMA TodoFacts ==
    /\ Head(<<"d">>) = "d" /\ Len(<<"d">>) = 1 /\ <<"d">> # <<>>
    /\ Head(<<"h", "d">>) = "h" /\ Len(<<"h", "d">>) = 2 /\ Tail(<<"h", "d">>) = <<"d">>
    /\ <<"h", "d">> # <<>> /\ <<"h", "d">> # <<"d">>
OBVIOUS

(* The dispatcher hands what it holds to a worker that has nothing.        *)
LEMMA SpawnStep ==
    ASSUME RecorderInv, NEW k \in Workers, Spawn(k)
    PROVE  RecorderInv'
<1> USE DEF RecorderInv
<1>1. /\ hand \in Impressions /\ hand' = NoImpression
      /\ UNCHANGED <<queue, events, written>>
  BY DEF Spawn, RecorderTyped
<1>2. PICK i \in Impressions : i = hand
  BY <1>1
<1>3. job' = [job EXCEPT ![k] = [imp |-> i, todo |-> <<"h", "d">>, sent |-> 1]]
  BY <1>2 DEF Spawn
<1>4. /\ job'[k].imp = i /\ job'[k].todo = <<"h", "d">> /\ job'[k].sent = 1
      /\ \A l \in Workers \ {k} : job'[l] = job[l]
  BY <1>3 DEF RecorderTyped
<1>5. RecorderTyped'
  <2>1. 1 \in 1..MaxAttempts
    <3>1. MaxAttempts \in Nat \ {0}
      BY WinAssumption
    <3>2. QED BY <3>1
  <2>2. [imp |-> i, todo |-> <<"h", "d">>, sent |-> 1] \in Jobs
    BY <2>1 DEF Jobs, Todos
  <2>3. job' \in [Workers -> Jobs \cup {Idle}]
    BY <1>3, <2>2 DEF RecorderTyped
  <2>4. QED BY <1>1, <2>3 DEF RecorderTyped
<1>6. NeverOvercounted' /\ Numbered'
  BY <1>1 DEF NeverOvercounted, Numbered
<1>7. /\ i \in DOMAIN written /\ \A x \in Windows : written[i][x] = 0
      /\ ~Queued(i) /\ \A l \in Workers : ~With(l, i)
  BY <1>2 DEF OnePlace, Waiting, Held
<1>8. ASSUME NEW l \in Workers, NEW j \in Impressions
      PROVE  /\ With(l, j)' <=> (IF l = k THEN j = i ELSE With(l, j))
             /\ l # k => (Progress(l, j) => Progress(l, j)')
  BY <1>1, <1>4, ZenonT(30) DEF With, Progress
<1>9. Waiting'
  <2>1. ASSUME NEW j \in Impressions, Queued(j)' \/ Held(j)'
        PROVE  Queued(j) /\ j # i /\ ~Held(j)'
    <3>1. ~Held(j)'
      BY <1>1, Distinct DEF Held
    <3>2. QED BY <1>1, <1>7, <2>1, <3>1 DEF Queued
  <2>2. QED BY <1>1, <1>8, <2>1, ZenonT(30) DEF OnePlace, Waiting
<1>10. Progress(k, i)'
  <2>1. written'[i]["h"] = 0 /\ written'[i]["d"] = 0
    BY <1>1, <1>7, ZenonT(30) DEF Windows
  <2>2. QED BY <1>4, <2>1, TodoFacts DEF Progress
<1>11. Assigned'
  <2>1. ASSUME NEW l \in Workers, NEW j \in Impressions, With(l, j)'
        PROVE  j \in DOMAIN written' /\ Progress(l, j)'
    <3>1. CASE l = k
      BY <1>1, <1>7, <1>8, <1>10, <2>1, <3>1
    <3>2. CASE l # k
      BY <1>1, <1>8, <2>1, <3>2 DEF OnePlace, Assigned
    <3>3. QED BY <3>1, <3>2, ZenonT(30)
  <2>2. QED BY <1>7, <1>8, <2>1 DEF OnePlace, Assigned
<1>12. OnePlace'
  BY <1>1, <1>9, <1>11 DEF OnePlace, Once
<1>13. QED BY <1>5, <1>6, <1>12, ZenonT(30)

(* What a busy worker has.                                                 *)
LEMMA Busy ==
    ASSUME RecorderInv, NEW k \in Workers, job[k] # Idle
    PROVE  /\ job[k] \in Jobs /\ job[k].imp \in Impressions /\ job[k].imp \in DOMAIN written
           /\ job[k].sent \in Nat /\ 1 <= job[k].sent /\ job[k].sent <= MaxAttempts
           /\ Progress(k, job[k].imp)
           /\ \/ job[k].todo = <<"d">> /\ Head(job[k].todo) = "d"
              \/ job[k].todo = <<"h", "d">> /\ Head(job[k].todo) = "h"
<1>1. job[k] \in Jobs /\ MaxAttempts \in Nat
  BY WinAssumption DEF RecorderInv, RecorderTyped
<1>2. /\ job[k].imp \in Impressions /\ job[k].todo \in Todos
      /\ job[k].sent \in 1..MaxAttempts
  BY <1>1 DEF Jobs
<1>3. With(k, job[k].imp)
  BY DEF With
<1>4. job[k].imp \in DOMAIN written /\ Progress(k, job[k].imp)
  BY <1>2, <1>3 DEF RecorderInv, OnePlace, Assigned
<1>5. \/ job[k].todo = <<"d">> /\ Head(job[k].todo) = "d"
      \/ job[k].todo = <<"h", "d">> /\ Head(job[k].todo) = "h"
  BY <1>2, TodoFacts, ZenonT(30) DEF Todos
<1>6. QED BY <1>1, <1>2, <1>4, <1>5

(* An EVAL raises one window of one accepted win.                          *)
LEMMA IncrementFacts ==
    ASSUME RecorderInv, NEW k \in Workers, job[k] # Idle, NEW i, i = job[k].imp,
           NEW x, x = Head(job[k].todo), Increment(k) \/ UNCHANGED written
    PROVE  /\ x \in Windows /\ DOMAIN written' = DOMAIN written
           /\ \A j \in DOMAIN written \ {i} : written'[j] = written[j]
           /\ written'[i] \in [Windows -> Nat]
           /\ \A y \in Windows \ {x} : written'[i][y] = written[i][y]
           /\ written'[i][x] \in {written[i][x], written[i][x] + 1}
           /\ written'[i][x] <= job[k].sent
<1>1. i \in DOMAIN written /\ x \in Windows
  BY Busy DEF Windows
<1>2. written[i] \in [Windows -> Nat] /\ written[i][x] \in Nat
  BY <1>1 DEF RecorderInv, RecorderTyped
<1>3. written[i][x] < job[k].sent /\ job[k].sent \in Nat
  BY Busy, ZenonT(30) DEF Progress
<1>4. CASE UNCHANGED written
  BY <1>1, <1>2, <1>3, <1>4
<1>5. CASE Increment(k)
  <2> DEFINE n == written[i][x] + 1
             row == [written[i] EXCEPT ![x] = n]
  <2>1. written' = [written EXCEPT ![i] = row]
    BY <1>5 DEF Increment
  <2>2. row \in [Windows -> Nat] /\ row[x] = n /\ \A y \in Windows \ {x} : row[y] = written[i][y]
    BY <1>1, <1>2
  <2>3. n <= job[k].sent
    BY <1>2, <1>3
  <2> HIDE DEF n, row
  <2>4. /\ DOMAIN written' = DOMAIN written /\ written'[i] = row
        /\ \A j \in DOMAIN written \ {i} : written'[j] = written[j]
    BY <1>1, <2>1
  <2>5. QED BY <1>1, <2>2, <2>3, <2>4 DEF n
<1>6. QED BY <1>4, <1>5

(* A worker that wrote a window, or failed to, and goes on with the same   *)
(* accepted win or is done with it.                                        *)
LEMMA EvalStep ==
    ASSUME RecorderInv, NEW k \in Workers, job[k] # Idle, NEW i, i = job[k].imp,
           Increment(k) \/ UNCHANGED written, UNCHANGED <<queue, hand, events>>,
           NEW after \in Jobs \cup {Idle}, job' = [job EXCEPT ![k] = after],
           after = Idle \/ (after.imp = i /\ Progress(k, i)')
    PROVE  RecorderInv'
<1> USE DEF RecorderInv
<1>1. i \in Impressions /\ i \in DOMAIN written
  BY Busy
<1>2. PICK x : x = Head(job[k].todo)
  OBVIOUS
<1>3. /\ x \in Windows /\ DOMAIN written' = DOMAIN written
      /\ \A j \in DOMAIN written \ {i} : written'[j] = written[j]
      /\ written'[i] \in [Windows -> Nat]
      /\ \A y \in Windows \ {x} : written'[i][y] = written[i][y]
      /\ written'[i][x] <= job[k].sent
  BY <1>2, IncrementFacts
<1>4. job'[k] = after /\ \A l \in Workers \ {k} : job'[l] = job[l]
  BY DEF RecorderTyped
<1>5. RecorderTyped'
  <2>1. job' \in [Workers -> Jobs \cup {Idle}]
    BY DEF RecorderTyped
  <2>2. \A j \in DOMAIN written' : written'[j] \in [Windows -> Nat]
    BY <1>3 DEF RecorderTyped
  <2>3. QED BY <1>3, <2>1, <2>2, ZenonT(30) DEF RecorderTyped
<1>6. Numbered'
  BY <1>3 DEF Numbered
<1>7. NeverOvercounted'
  <2>1. ASSUME NEW j \in DOMAIN written, NEW y \in Windows
        PROVE  written'[j][y] <= MaxAttempts
    <3>1. CASE j = i /\ y = x
      <4>1. job[k].sent \in Nat /\ job[k].sent <= MaxAttempts
        BY Busy, ZenonT(30)
      <4>2. MaxAttempts \in Nat
        BY WinAssumption
      <4>3. written'[i][x] \in Nat /\ written'[i][x] <= job[k].sent
        BY <1>3, ZenonT(30)
      <4>4. written'[i][x] <= MaxAttempts
        BY <4>1, <4>2, <4>3
      <4>5. QED BY <3>1, <4>4, ZenonT(30)
    <3>2. CASE ~(j = i /\ y = x)
      <4>1. written'[j][y] = written[j][y]
        BY <1>3, <3>2
      <4>2. QED BY <4>1 DEF NeverOvercounted
    <3>3. QED BY <3>1, <3>2
  <2>2. QED BY <1>3, <2>1 DEF NeverOvercounted
<1>8. /\ With(k, i)
      /\ \A j \in Impressions : With(k, j)' => j = i /\ Progress(k, i)'
  <2>1. Idle.imp = NoImpression
    BY DEF Idle
  <2>2. CASE after = Idle
    BY <1>4, <2>1, <2>2, Distinct DEF With
  <2>3. CASE after.imp = i /\ Progress(k, i)'
    BY <1>4, <2>3, ZenonT(30) DEF With
  <2>4. QED BY <2>2, <2>3
<1>9. Waiting'
  <2>1. ASSUME NEW j \in Impressions, Queued(j)' \/ Held(j)'
        PROVE  /\ j \in DOMAIN written'
               /\ \A y \in Windows : written'[j][y] = 0
               /\ \A l \in Workers : ~With(l, j)'
               /\ ~(Queued(j)' /\ Held(j)')
    <3>1. (Queued(j)' <=> Queued(j)) /\ (Held(j)' <=> Held(j))
      BY ZenonT(30) DEF Queued, Held
    <3>2. /\ j \in DOMAIN written
          /\ \A y \in Windows : written[j][y] = 0
          /\ \A l \in Workers : ~With(l, j)
          /\ ~(Queued(j) /\ Held(j))
      BY <2>1, <3>1, ZenonT(30) DEF OnePlace, Waiting
    <3>3. j # i
      BY <1>8, <3>2, ZenonT(30)
    <3>4. \A l \in Workers : ~With(l, j)'
      BY <1>4, <1>8, <3>2, <3>3, ZenonT(30) DEF With
    <3>5. QED BY <1>3, <3>1, <3>2, <3>3, <3>4
  <2>2. QED BY <2>1, ZenonT(30) DEF Waiting
<1>10. Assigned'
  <2>1. ASSUME NEW l \in Workers, NEW j \in Impressions, With(l, j)'
        PROVE  With(l, j) /\ (l = k => j = i)
    <3>1. CASE l = k
      BY <1>8, <2>1, <3>1, ZenonT(30)
    <3>2. CASE l # k
      BY <1>4, <2>1, <3>2 DEF With
    <3>3. QED BY <3>1, <3>2
  <2>2. ASSUME NEW l \in Workers, NEW j \in Impressions, With(l, j)'
        PROVE  j \in DOMAIN written' /\ Progress(l, j)'
    <3>1. CASE l = k
      <4>1. j = i /\ Progress(k, i)'
        BY <1>8, <2>2, <3>1, ZenonT(30)
      <4>2. QED BY <1>1, <1>3, <3>1, <4>1
    <3>2. CASE l # k
      <4>1. j \in DOMAIN written /\ Progress(l, j) /\ j # i
        BY <1>8, <2>1, <2>2, <3>2, ZenonT(30) DEF OnePlace, Assigned
      <4>2. written'[j] = written[j] /\ job'[l] = job[l]
        BY <1>3, <1>4, <3>2, <4>1
      <4>3. QED BY <1>3, <4>1, <4>2, ZenonT(30) DEF Progress
    <3>3. QED BY <3>1, <3>2, ZenonT(30)
  <2>3. QED BY <2>1, <2>2 DEF OnePlace, Assigned
<1>11. OnePlace'
  BY <1>9, <1>10 DEF OnePlace, Once
<1>12. QED BY <1>5, <1>6, <1>7, <1>11, ZenonT(30)

(* A worker is answered: it goes on to the day window, or is done.         *)
LEMMA WriteStep ==
    ASSUME RecorderInv, NEW k \in Workers, WriteCounter(k)
    PROVE  RecorderInv'
<1>1. job[k] # Idle /\ (Increment(k) \/ UNCHANGED written) /\ UNCHANGED <<queue, hand, events>>
  BY DEF WriteCounter
<1>2. PICK i : i = job[k].imp
  OBVIOUS
<1>3. PICK after : after = IF Len(job[k].todo) = 1 THEN Idle
                           ELSE [imp |-> i, todo |-> Tail(job[k].todo), sent |-> 1]
  OBVIOUS
<1>4. job' = [job EXCEPT ![k] = after]
  BY <1>2, <1>3 DEF WriteCounter
<1>5. CASE job[k].todo = <<"d">>
  <2>1. after = Idle
    BY <1>3, <1>5, TodoFacts
  <2>2. QED BY <1>1, <1>2, <1>4, <2>1, EvalStep, ZenonT(30)
<1>6. CASE job[k].todo = <<"h", "d">>
  <2>1. after = [imp |-> i, todo |-> <<"d">>, sent |-> 1]
    BY <1>3, <1>6, TodoFacts
  <2>2. i \in Impressions /\ 1 \in 1..MaxAttempts
    <3>1. MaxAttempts \in Nat \ {0}
      BY WinAssumption
    <3>2. QED BY <1>1, <1>2, <3>1, Busy
  <2>3. after \in Jobs
    BY <2>1, <2>2 DEF Jobs, Todos
  <2>4. job'[k] = after
    BY <1>4 DEF RecorderInv, RecorderTyped
  <2>5. written'[i]["d"] = 0
    <3>1. Head(job[k].todo) = "h" /\ written[i]["d"] = 0
      BY <1>1, <1>2, <1>6, Busy, TodoFacts, ZenonT(30) DEF Progress
    <3>2. written'[i]["d"] = written[i]["d"]
      BY <1>1, <1>2, <3>1, IncrementFacts DEF Windows
    <3>3. QED BY <3>1, <3>2, ZenonT(30)
  <2>6. Progress(k, i)'
    <3>1. job'[k].todo = <<"d">> /\ job'[k].sent = 1
      BY <2>1, <2>4
    <3>2. QED BY <2>5, <3>1, TodoFacts DEF Progress
  <2>7. after.imp = i
    BY <2>1
  <2>8. QED BY <1>1, <1>2, <1>4, <2>3, <2>6, <2>7, EvalStep
<1>7. QED BY <1>1, <1>5, <1>6, Busy, ZenonT(30)

(* A worker's EVAL is sent again.                                          *)
LEMMA AgainStep ==
    ASSUME RecorderInv, NEW k \in Workers, WriteCounterAgain(k)
    PROVE  RecorderInv'
<1>1. /\ job[k] # Idle /\ Increment(k) /\ UNCHANGED <<queue, hand, events>>
      /\ job[k].sent < MaxAttempts
  BY DEF WriteCounterAgain
<1>2. PICK i : i = job[k].imp
  OBVIOUS
<1>3. /\ job[k] \in Jobs /\ i \in Impressions
      /\ job[k].sent \in Nat /\ 1 <= job[k].sent /\ MaxAttempts \in Nat
      /\ Progress(k, i)
      /\ \/ job[k].todo = <<"d">> /\ Head(job[k].todo) = "d"
         \/ job[k].todo = <<"h", "d">> /\ Head(job[k].todo) = "h"
  BY <1>1, <1>2, Busy, WinAssumption
<1>4. PICK after : after = [job[k] EXCEPT !.sent = @ + 1]
  OBVIOUS
<1>5. job' = [job EXCEPT ![k] = after]
  BY <1>4 DEF WriteCounterAgain
<1>6. /\ after \in Jobs /\ after.imp = i /\ after.todo = job[k].todo
      /\ after.sent = job[k].sent + 1
  <2>1. job[k].sent + 1 \in 1..MaxAttempts
    BY <1>1, <1>3
  <2>2. QED BY <1>2, <1>3, <1>4, <2>1 DEF Jobs
<1>7. job'[k] = after
  BY <1>5 DEF RecorderInv, RecorderTyped
<1>8. PICK x : x = Head(job[k].todo)
  OBVIOUS
<1>9. /\ x \in Windows /\ written'[i][x] <= job[k].sent /\ written'[i] \in [Windows -> Nat]
      /\ \A y \in Windows \ {x} : written'[i][y] = written[i][y]
  BY <1>1, <1>2, <1>8, IncrementFacts
<1>10. written'[i][x] < after.sent
  BY <1>3, <1>6, <1>9
<1>11. Progress(k, i)'
  <2>1. CASE job[k].todo = <<"d">> /\ x = "d"
    BY <1>6, <1>7, <1>10, <2>1, TodoFacts DEF Progress
  <2>2. CASE job[k].todo = <<"h", "d">> /\ x = "h"
    <3>1. written'[i]["d"] = 0
      BY <1>3, <1>9, <2>2 DEF Progress, Windows
    <3>2. QED BY <1>6, <1>7, <1>10, <2>2, <3>1, TodoFacts DEF Progress
  <2>3. QED BY <1>3, <1>8, <2>1, <2>2
<1>12. QED BY <1>1, <1>2, <1>5, <1>6, <1>11, EvalStep

(* A restart empties the recorder.                                         *)
LEMMA CrashRecorder ==
    ASSUME RecorderInv, Crash
    PROVE  RecorderInv'
<1> USE DEF RecorderInv
<1>1. /\ queue' = <<>> /\ hand' = NoImpression /\ job' = [k \in Workers |-> Idle]
      /\ UNCHANGED <<events, written>>
  BY DEF Crash
<1>2. RecorderTyped'
  <2>1. <<>> \in Seq(Impressions) /\ Len(<<>>) <= QueueCap
    <3>1. QueueCap \in Nat
      BY WinAssumption
    <3>2. QED BY <3>1
  <2>2. job' \in [Workers -> Jobs \cup {Idle}]
    BY <1>1
  <2>3. QED BY <1>1, <2>1, <2>2 DEF RecorderTyped
<1>3. Numbered' /\ NeverOvercounted'
  BY <1>1, ZenonT(30) DEF Numbered, NeverOvercounted
<1>4. OnePlace'
  <2>1. \A k \in Workers : job'[k].imp = NoImpression
    BY <1>1 DEF Idle
  <2>2. QED BY <1>1, <2>1, Distinct DEF OnePlace, Waiting, Once, Assigned, Queued, Held, With
<1>5. QED BY <1>2, <1>3, <1>4

-----------------------------------------------------------------------------
(* Every step of a handler, of Redis and of the recorder keeps Inv,        *)
LEMMA Inductive == Inv /\ [Next]_vars => Inv'
<1> SUFFICES ASSUME Inv, [Next]_vars PROVE Inv'
  OBVIOUS
<1> USE DEF Inv
<1>1. ASSUME NEW a \in Handlers, NEW w \in Wins, Notify(a, w)
      PROVE  Inv'
  <2>1. GateInv' /\ RecorderInv'
    BY <1>1, NotifyStep, RecorderKept DEF Notify, recorder
  <2>2. BoundsTyped'
    <3>1. notices' = [notices EXCEPT ![w] = @ + 1] /\ UNCHANGED <<up, crashes>>
      BY <1>1 DEF Notify, redis
    <3>2. notices' \in [Wins -> Nat]
      BY <3>1 DEF BoundsTyped
    <3>3. QED BY <3>1, <3>2, ZenonT(30) DEF BoundsTyped
  <2>3. QED BY <2>1, <2>2, ZenonT(30)
<1>2. ASSUME NEW a \in Handlers, CheckToken(a)
      PROVE  Inv'
  <2>1. GateInv' /\ RecorderInv'
    BY <1>2, CheckTokenStep, RecorderKept, ZenonT(30) DEF CheckToken, recorder
  <2>2. BoundsTyped'
    BY <1>2 DEF CheckToken, redis, bounds, BoundsTyped
  <2>3. QED BY <2>1, <2>2, ZenonT(30)
<1>3. ASSUME NEW a \in Handlers, SetNx(a)
      PROVE  Inv'
  <2>1. GateInv' /\ RecorderInv'
    BY <1>3, SetNxStep, RecorderKept DEF SetNx, recorder
  <2>2. BoundsTyped'
    BY <1>3 DEF SetNx, bounds, BoundsTyped
  <2>3. QED BY <2>1, <2>2
<1>4. ASSUME NEW a \in Handlers, SetNxAgain(a)
      PROVE  Inv'
  <2>1. /\ win[a] \in Wins /\ lost' = lost \cup {win[a]} /\ SetKey(win[a])
        /\ UNCHANGED <<pc, win, reply, orphans, events, duplicate>>
        /\ UNCHANGED <<up, notices, crashes, queue, hand, job, written>>
    BY <1>4 DEF SetNxAgain, handler, recorder, bounds, GateInv, GateTyped, Handling
  <2>2. lost' \subseteq Wins /\ Excused(win[a])'
    BY <2>1 DEF GateInv, GateTyped, Excused
  <2>3. PICK w \in Wins : w = win[a]
    BY <2>1
  <2>4. SetKey(w) /\ Excused(w)'
    BY <2>1, <2>2, <2>3
  <2>5. GateInv'
    BY <2>1, <2>2, <2>4, SetForNobody
  <2>6. RecorderInv' /\ BoundsTyped'
    BY <2>1, RecorderKept DEF BoundsTyped
  <2>7. QED BY <2>5, <2>6
<1>5. ASSUME NEW a \in Handlers, Accept(a)
      PROVE  Inv'
  <2>1. /\ GateInv' /\ win[a] \in Wins /\ events \in [Wins -> Nat]
        /\ events' = [events EXCEPT ![win[a]] = @ + 1]
    BY <1>5, AcceptGate DEF GateInv, GateTyped
  <2>2. PICK w \in Wins : w = win[a]
    BY <2>1
  <2>3. PICK i : i = Accepted(w, events[w] + 1)
    BY ZenonT(30)
  <2>4. /\ TryRecord(i) /\ UNCHANGED <<hand, job>>
        /\ written' = [j \in DOMAIN written \cup {i} |->
                         IF j = i THEN [x \in Windows |-> 0] ELSE written[j]]
    BY <1>5, <2>2, <2>3, ZenonT(30) DEF Accept
  <2>5. RecorderInv'
    BY <2>1, <2>2, <2>3, <2>4, AcceptRecorder, ZenonT(30)
  <2>6. BoundsTyped'
    BY <1>5 DEF Accept, redis, bounds, BoundsTyped
  <2>7. QED BY <2>1, <2>5, <2>6
<1>6. ASSUME NEW a \in Handlers, Duplicate(a)
      PROVE  Inv'
  <2>1. GateInv' /\ RecorderInv'
    BY <1>6, DuplicateStep, RecorderKept DEF Duplicate, recorder
  <2>2. BoundsTyped'
    BY <1>6 DEF Duplicate, redis, bounds, BoundsTyped
  <2>3. QED BY <2>1, <2>2, ZenonT(30)
<1>7. ASSUME NEW a \in Handlers, DedupUnavailable(a)
      PROVE  Inv'
  <2>1. GateInv' /\ RecorderInv'
    BY <1>7, GiveUpStep, RecorderKept DEF DedupUnavailable, recorder
  <2>2. BoundsTyped'
    BY <1>7 DEF DedupUnavailable, bounds, BoundsTyped
  <2>3. QED BY <2>1, <2>2
<1>8. ASSUME NEW w \in Wins, LateSet(w)
      PROVE  Inv'
  <2>1. /\ w \in orphans /\ orphans' = orphans \ {w} /\ SetKey(w)
        /\ UNCHANGED <<pc, win, reply, events, duplicate, lost>>
        /\ UNCHANGED <<up, notices, crashes, queue, hand, job, written>>
    BY <1>8 DEF LateSet, handler, recorder, bounds
  <2>2. Excused(w)' /\ lost' \subseteq Wins
    BY <2>1 DEF GateInv, GateTyped, Explained, Excused, Processed
  <2>3. GateInv'
    BY <2>1, <2>2, SetForNobody
  <2>4. RecorderInv' /\ BoundsTyped'
    BY <2>1, RecorderKept DEF BoundsTyped
  <2>5. QED BY <2>3, <2>4
<1>9. ASSUME NEW w \in Wins, DedupExpires(w)
      PROVE  Inv'
  <2>1. GateInv' /\ RecorderInv'
    BY <1>9, DedupExpiresStep, RecorderKept DEF DedupExpires, recorder
  <2>2. BoundsTyped'
    BY <1>9 DEF DedupExpires, bounds, BoundsTyped
  <2>3. QED BY <2>1, <2>2
<1>10. CASE Receive
  <2>1. GateInv' /\ RecorderInv'
    BY <1>10, ReceiveStep, GateKept DEF Receive, handler, redis
  <2>2. BoundsTyped'
    BY <1>10 DEF Receive, redis, bounds, BoundsTyped
  <2>3. QED BY <2>1, <2>2
<1>11. ASSUME NEW k \in Workers, Spawn(k)
       PROVE  Inv'
  <2>1. GateInv' /\ RecorderInv'
    BY <1>11, SpawnStep, GateKept DEF Spawn, handler, redis
  <2>2. BoundsTyped'
    BY <1>11 DEF Spawn, redis, bounds, BoundsTyped
  <2>3. QED BY <2>1, <2>2
<1>12. ASSUME NEW k \in Workers, WriteCounter(k)
       PROVE  Inv'
  <2>1. GateInv' /\ RecorderInv'
    BY <1>12, WriteStep, GateKept DEF WriteCounter, handler, redis
  <2>2. BoundsTyped'
    BY <1>12 DEF WriteCounter, redis, bounds, BoundsTyped
  <2>3. QED BY <2>1, <2>2
<1>13. ASSUME NEW k \in Workers, WriteCounterAgain(k)
       PROVE  Inv'
  <2>1. GateInv' /\ RecorderInv'
    BY <1>13, AgainStep, GateKept DEF WriteCounterAgain, handler, redis
  <2>2. BoundsTyped'
    BY <1>13 DEF WriteCounterAgain, redis, bounds, BoundsTyped
  <2>3. QED BY <2>1, <2>2
<1>14. CASE RedisChanges
  <2>1. GateInv' /\ RecorderInv'
    BY <1>14, GateKept, RecorderKept DEF RedisChanges, handler, recorder
  <2>2. BoundsTyped'
    BY <1>14 DEF RedisChanges, bounds, BoundsTyped
  <2>3. QED BY <2>1, <2>2
<1>15. CASE Crash
  <2>1. GateInv' /\ RecorderInv'
    BY <1>15, CrashGate, CrashRecorder, ZenonT(30)
  <2>2. crashes < MaxCrashes /\ crashes' = crashes + 1 /\ UNCHANGED <<up, notices>>
    BY <1>15 DEF Crash
  <2>3. MaxCrashes \in Nat
    BY WinAssumption
  <2>4. BoundsTyped'
    BY <2>2, <2>3 DEF BoundsTyped
  <2>5. QED BY <2>1, <2>4
<1>16. CASE UNCHANGED vars
  <2>1. GateInv' /\ RecorderInv'
    BY <1>16, GateKept, RecorderKept DEF vars, handler, redis, recorder
  <2>2. BoundsTyped'
    BY <1>16 DEF vars, redis, bounds, BoundsTyped
  <2>3. QED BY <2>1, <2>2
<1>17. QED
  BY ZenonT(30), <1>1, <1>2, <1>3, <1>4, <1>5, <1>6, <1>7, <1>8, <1>9, <1>10, <1>11, <1>12, <1>13,
     <1>14, <1>15, <1>16 DEF Next

(* which so holds in every reachable state.                                *)
LEMMA InvHolds == Spec => []Inv
<1>1. QED BY Initially, Inductive, PTL DEF Spec

(* The variables stay in their types and the channel of the recorder       *)
(* within its capacity, whatever is dropped, retried or lost.              *)
THEOREM WinTypeCorrect == Spec => []TypeOK
<1>1. QED BY InvHolds, InvImplies, PTL

(* An accepted win raises the counter of a window no more often than fred  *)
(* sends the EVAL, and only once where the connection holds (MaxAttempts = *)
(* 1), for any number of notices, workers, failed EVALs and restarts.      *)
THEOREM CountedOncePerEval == Spec => []NeverOvercounted
<1>1. QED BY InvHolds, InvImplies, PTL

(* A notice answered as a duplicate belongs to a win that was processed,   *)
(* or whose SET-NX was answered to nobody: nothing before the SET-NX       *)
(* leaves a key behind, and no key that runs out makes a stranger's notice *)
(* a duplicate.                                                            *)
THEOREM DuplicatesAreExplained == Spec => []DuplicateExplained
<1>1. QED BY InvHolds, InvImplies, PTL

(* SET NX is a claim of the ledger when it sets the key, and no step of it *)
(* when the key is there.                                                  *)
LEMMA SetKeyClaims ==
    ASSUME NEW w \in Wins, SetKey(w), events' = events
    PROVE  [Ledger!Next]_<<lives, events>>
<1>1. CASE w \in keys
  BY <1>1 DEF SetKey
<1>2. CASE w \notin keys
  <2>1. Ledger!Claim(w)
    BY <1>2 DEF SetKey, Ledger!Claim
  <2>2. QED BY <2>1, ZenonT(30) DEF Ledger!Next
<1>3. QED BY <1>1, <1>2

(* Each step claims one win, accounts for one that has a claim left, or    *)
(* does neither.                                                           *)
LEMMA LedgerStep == Inv /\ [Next]_vars => [Ledger!Next]_<<lives, events>>
<1> SUFFICES ASSUME Inv, [Next]_vars PROVE [Ledger!Next]_<<lives, events>>
  OBVIOUS
<1>1. ASSUME NEW a \in Handlers, Accept(a)
      PROVE  Ledger!Next
  <2>1. /\ win[a] \in Wins /\ events[win[a]] < lives[win[a]]
        /\ events' = [events EXCEPT ![win[a]] = @ + 1] /\ lives' = lives
    BY <1>1, AcceptGate DEF Inv
  <2>2. Ledger!Account(win[a])
    BY <2>1, ZenonT(30) DEF Ledger!Account
  <2>3. QED BY <2>1, <2>2, ZenonT(30) DEF Ledger!Next
<1>2. ASSUME NEW a \in Handlers, SetNx(a) \/ SetNxAgain(a)
      PROVE  [Ledger!Next]_<<lives, events>>
  <2>1. win[a] \in Wins /\ SetKey(win[a]) /\ events' = events
    BY <1>2 DEF SetNx, SetNxAgain, Inv, GateInv, GateTyped, Handling
  <2>2. PICK w \in Wins : w = win[a]
    BY <2>1
  <2>3. QED BY <2>1, <2>2, SetKeyClaims
<1>3. ASSUME NEW w \in Wins, LateSet(w)
      PROVE  [Ledger!Next]_<<lives, events>>
  BY <1>3, SetKeyClaims DEF LateSet
<1>4. ASSUME NEW a \in Handlers, NEW w \in Wins, Notify(a, w)
      PROVE  UNCHANGED <<lives, events>>
  BY <1>4, ZenonT(30) DEF Notify, redis
<1>5. ASSUME NEW a \in Handlers, CheckToken(a) \/ Duplicate(a) \/ DedupUnavailable(a)
      PROVE  UNCHANGED <<lives, events>>
  BY <1>5 DEF CheckToken, Duplicate, DedupUnavailable, redis
<1>6. ASSUME NEW w \in Wins, DedupExpires(w)
      PROVE  UNCHANGED <<lives, events>>
  BY <1>6 DEF DedupExpires
<1>7. ASSUME NEW k \in Workers, Spawn(k) \/ WriteCounter(k) \/ WriteCounterAgain(k)
      PROVE  UNCHANGED <<lives, events>>
  BY <1>7, ZenonT(30) DEF Spawn, WriteCounter, WriteCounterAgain, redis
<1>8. CASE Receive \/ RedisChanges \/ Crash \/ UNCHANGED vars
  BY <1>8 DEF Receive, RedisChanges, Crash, vars, redis
<1>9. QED
  BY <1>1, <1>2, <1>3, <1>4, <1>5, <1>6, <1>7, <1>8 DEF Next

(* The win path implements the ledger: a win has its side effects at most  *)
(* once for each time that Redis set its key anew, for any notices,        *)
(* timeouts, late and repeated commands, keys that run out and restarts.   *)
THEOREM WinsAreLedgered == Spec => AtMostOnce
<1>1. Init => Ledger!Init
  BY DEF Init, Ledger!Init
<1>2. QED BY <1>1, InvHolds, LedgerStep, PTL DEF Spec, AtMostOnce, Ledger!Spec

=============================================================================
