---------------------------- MODULE ServerProofs ----------------------------
(***************************************************************************)
(* Safety of the process from boot to exit, for any users, clients, segment *)
(* lists, requests, concurrency limit, warm list and self-test.            *)
(*                                                                         *)
(* The segment cache comes first: it fetches a user once at a time.        *)
(* OneFetchPerUser is not inductive: it says nothing of the fetcher while  *)
(* nobody waits.  Owner ties the fetcher of a user to the one client that  *)
(* is in a fetching phase for it, and Guarded says that nobody waits       *)
(* without one.                                                            *)
(*                                                                         *)
(* The properties of the process hold together with SegmentInv and four    *)
(* facts about main and the warm-up: a chunk is well formed (ChunkType),   *)
(* the warm-up asks the cache only while it inserts a user (WarmBusy), the *)
(* phases of boot, server, warm-up and self-test keep step (Phases,        *)
(* ReadyLast), and a stopped server has no request (Stopped).              *)
(***************************************************************************)
EXTENDS Server, FiniteSetTheorems, SequenceTheorems, TLAPS

FetchPhases == {"gate", "get", "decode"}

(* A client is the fetcher of a user exactly while it is in a fetching     *)
(* phase for that user.                                                    *)
Owner ==
    \A u \in Users, c \in Clients :
        (user[c] = u /\ pc[c] \in FetchPhases) <=> fetcher[u] = c

(* Whoever waits, waits for somebody.                                      *)
Guarded == \A c \in Clients : pc[c] = "wait" => fetcher[user[c]] # Nobody

(* Only a client with a user is past the door of the cache.                *)
Known == \A c \in Clients : pc[c] \in {"lookup", "wait"} \cup FetchPhases => user[c] \in Users

SegmentInv == SegmentTypeOK /\ Owner /\ Guarded /\ Known

-----------------------------------------------------------------------------
(* SegmentInv says what get_or_fetch promises.                             *)
LEMMA InvImpliesOneFetch == SegmentInv => OneFetchPerUser
<1> SUFFICES ASSUME SegmentInv, NEW u \in Users
             PROVE  /\ Cardinality(Fetching(u)) <= 1
                    /\ Waiters(u) # {} => Fetching(u) = {fetcher[u]}
  BY DEF OneFetchPerUser
<1> USE DEF SegmentInv, SegmentTypeOK
<1>1. \A c \in Clients : c \in Fetching(u) <=> fetcher[u] = c
  BY DEF Fetching, Owner, FetchPhases
<1>2. CASE fetcher[u] = Nobody
  <2>1. Fetching(u) = {}
    BY <1>1, <1>2, ClientsAssumption DEF Fetching, Clients
  <2>2. Waiters(u) = {}
    BY <1>2 DEF Waiters, Guarded
  <2>3. Cardinality(Fetching(u)) = 0
    BY <2>1, FS_EmptySet
  <2> QED BY <2>2, <2>3
<1>3. CASE fetcher[u] # Nobody
  <2>1. Fetching(u) = {fetcher[u]}
    BY <1>1, <1>3 DEF Fetching
  <2>2. Cardinality(Fetching(u)) = 1
    BY <2>1, FS_Singleton
  <2> QED BY <2>1, <2>2
<1> QED BY <1>2, <1>3

(* Nobody fetches and nobody waits at the start.                           *)
LEMMA SegmentInitInv == SegmentInit => SegmentInv
BY ClientsAssumption DEF SegmentInit, SegmentInv, SegmentTypeOK, Owner, Guarded, Known,
   FetchPhases, Entries, RawValues, Clients

(* What an answered fetch stores is an entry.                              *)
LEMMA DecodedIsEntry == \A r \in RawValues : Decoded(r) \in Entries
BY DEF RawValues, Decoded, Entries

-----------------------------------------------------------------------------
(* A fetch that is over: the fetcher, or a client that found nobody        *)
(* fetching, answers itself and those that wait for the user.              *)
LEMMA AnswerKeepsInv ==
    ASSUME SegmentInv, NEW c \in Clients, NEW entry \in Entries, Answer(c, entry),
           UNCHANGED <<redis, breaker, user>>,
           user[c] \in Users, fetcher[user[c]] \in {c, Nobody}
    PROVE  SegmentInv'
<1> USE DEF SegmentInv, SegmentTypeOK, Answer, Waiters
<1>1. SegmentTypeOK'
  BY DEF RawValues
<1>2. Owner'
  <2> SUFFICES ASSUME NEW u \in Users, NEW d \in Clients
               PROVE  (user[d] = u /\ pc'[d] \in FetchPhases) <=> fetcher'[u] = d
    BY DEF Owner
  <2>1. CASE u = user[c]
    <3>1. fetcher'[u] # d
      BY <2>1, ClientsAssumption DEF Clients
    <3>2. user[d] = u => pc'[d] \notin FetchPhases
      BY <2>1, ClientsAssumption DEF Owner, FetchPhases, Clients
    <3> QED BY <3>1, <3>2
  <2>2. CASE u # user[c]
    <3>1. fetcher'[u] = fetcher[u]
      BY <2>2
    <3>2. user[d] = u => pc'[d] = pc[d]
      BY <2>2
    <3> QED BY <3>1, <3>2 DEF Owner
  <2> QED BY <2>1, <2>2
<1>3. Guarded' /\ Known'
  BY DEF Guarded, Known, FetchPhases
<1> QED BY <1>1, <1>2, <1>3

(* A hit touches no fetch,                                                 *)
LEMMA HitKeepsInv ==
    ASSUME SegmentInv, NEW c \in Clients, Hit(c)
    PROVE  SegmentInv'
BY DEF SegmentInv, SegmentTypeOK, Owner, Guarded, Known, FetchPhases, Hit

(* a second miss waits for the fetch there is,                             *)
LEMMA JoinKeepsInv ==
    ASSUME SegmentInv, NEW c \in Clients, Join(c)
    PROVE  SegmentInv'
BY DEF SegmentInv, SegmentTypeOK, Owner, Guarded, Known, FetchPhases, Join, Busy

(* and the first one begins it.                                            *)
LEMMA LeadKeepsInv ==
    ASSUME SegmentInv, NEW c \in Clients, Lead(c)
    PROVE  SegmentInv'
<1> USE DEF SegmentInv, SegmentTypeOK, Lead, Busy
<1>1. SegmentTypeOK'
  OBVIOUS
<1>2. Owner'
  BY ClientsAssumption DEF Owner, Known, FetchPhases, Clients
<1>3. Guarded' /\ Known'
  BY ClientsAssumption DEF Guarded, Known, FetchPhases, Clients
<1> QED BY <1>1, <1>2, <1>3

(* A request dropped at any of its awaits, its user forgotten.             *)
LEMMA AbandonKeepsInv ==
    ASSUME SegmentInv, NEW c \in Clients, Abandon(c),
           user' = [user EXCEPT ![c] = Nobody], raw' = [raw EXCEPT ![c] = "absent"],
           UNCHANGED <<redis, breaker, cache>>
    PROVE  SegmentInv'
<1> USE DEF SegmentInv, SegmentTypeOK, Abandon
<1> DEFINE Woken(w) == w # c /\ \E u \in Users : fetcher[u] = c /\ w \in Waiters(u)
<1>a. \A w \in Clients : pc'[w] = IF w = c THEN "idle" ELSE IF Woken(w) THEN "lookup" ELSE pc[w]
  OBVIOUS
<1>b. \A w \in Clients : Woken(w) => pc[w] = "wait" /\ fetcher[user[w]] = c
  BY DEF Waiters
<1> HIDE DEF Woken
<1>1. SegmentTypeOK'
  <2>1. pc' \in [Clients -> {"idle", "queued", "lookup", "wait", "gate", "get", "decode", "done"}]
    BY <1>a
  <2> QED BY <2>1 DEF RawValues
<1>2. Owner'
  <2> SUFFICES ASSUME NEW u \in Users, NEW d \in Clients
               PROVE  (user'[d] = u /\ pc'[d] \in FetchPhases) <=> fetcher'[u] = d
    BY DEF Owner
  <2>1. CASE d = c
    BY <2>1, ClientsAssumption DEF Clients
  <2>2. CASE d # c
    <3>1. user'[d] = user[d] /\ (pc'[d] \in FetchPhases <=> pc[d] \in FetchPhases)
      BY <2>2, <1>a, <1>b DEF FetchPhases
    <3>2. fetcher'[u] = d <=> fetcher[u] = d
      BY <2>2, ClientsAssumption DEF Clients
    <3> QED BY <3>1, <3>2 DEF Owner
  <2> QED BY <2>1, <2>2
<1>3. Guarded'
  <2> SUFFICES ASSUME NEW d \in Clients, pc'[d] = "wait"
               PROVE  fetcher'[user'[d]] # Nobody
    BY DEF Guarded
  <2>1. d # c /\ pc[d] = "wait" /\ ~Woken(d) /\ user'[d] = user[d]
    BY <1>a
  <2>2. user[d] \in Users /\ fetcher[user[d]] # Nobody
    BY <2>1 DEF Guarded, Known
  <2>3. fetcher[user[d]] # c
    BY <2>1, <2>2 DEF Woken, Waiters
  <2> QED BY <2>1, <2>2, <2>3
<1>4. Known'
  BY <1>a, <1>b DEF Known, FetchPhases
<1> QED BY <1>1, <1>2, <1>3, <1>4

-----------------------------------------------------------------------------
(* RedisSegmentRepo::segments_for, step by step.                           *)
LEMMA FetchStepKeepsInv ==
    ASSUME SegmentInv, NEW c \in Clients, FetchStep(c)
    PROVE  SegmentInv'
<1>a. ASSUME pc[c] \in FetchPhases
      PROVE  user[c] \in Users /\ fetcher[user[c]] \in {c, Nobody}
  BY <1>a DEF SegmentInv, Owner, Known
<1>1. CASE Hit(c)
  BY <1>1, HitKeepsInv
<1>2. CASE Join(c)
  BY <1>2, JoinKeepsInv
<1>3. CASE Lead(c)
  BY <1>3, LeadKeepsInv
<1>4. CASE Gate(c)
  <2>1. CASE breaker = "refuses"
    BY <1>4, <2>1, <1>a, AnswerKeepsInv DEF Gate, FetchPhases, Entries
  <2>2. CASE breaker # "refuses"
    BY <1>4, <2>2 DEF Gate, SegmentInv, SegmentTypeOK, Owner, Guarded, Known, FetchPhases
  <2> QED BY <2>1, <2>2
<1>5. CASE Get(c)
  <2>1. user[c] \in Users
    BY <1>5, <1>a DEF Get, FetchPhases
  <2> QED BY <1>5, <2>1 DEF Get, SegmentInv, SegmentTypeOK, Owner, Guarded, Known, FetchPhases
<1>6. CASE GetFails(c)
  BY <1>6, <1>a, AnswerKeepsInv DEF GetFails, FetchPhases, Entries
<1>7. CASE Decode(c)
  <2>1. Decoded(raw[c]) \in Entries
    BY DecodedIsEntry DEF SegmentInv, SegmentTypeOK
  <2> QED BY <1>7, <2>1, <1>a, AnswerKeepsInv DEF Decode, FetchPhases
<1> QED BY <1>1, <1>2, <1>3, <1>4, <1>5, <1>6, <1>7 DEF FetchStep

(* The warm-up is a client like the others.                                *)
LEMMA WarmClientKeepsInv ==
    ASSUME SegmentInv, WarmClientStep
    PROVE  SegmentInv'
<1>0. Warmup \in Clients
  BY DEF Clients
<1>1. CASE WarmFill(Warmup)
  <2>1. Decoded(raw[Warmup]) \in Entries
    BY <1>0, DecodedIsEntry DEF SegmentInv, SegmentTypeOK
  <2>2. user[Warmup] \in Users /\ fetcher[user[Warmup]] = Nobody
    BY <1>0, <1>1 DEF WarmFill, Busy, SegmentInv, Known
  <2> QED BY <1>0, <1>1, <2>1, <2>2, AnswerKeepsInv DEF WarmFill
<1> QED BY <1>0, <1>1, HitKeepsInv, JoinKeepsInv DEF WarmClientStep

(* A client that moves is busy, and of the others it moves those that wait *)
(* for it only.                                                            *)
Moves(c) == /\ pc[c] # "idle"
            /\ \A d \in Clients \ {c} : pc[d] = "idle" => pc'[d] = "idle"

(* A fetching client wakes only clients that wait,                         *)
LEMMA FetchStepMoves ==
    ASSUME SegmentInv, NEW c \in Clients, FetchStep(c) \/ WarmFill(c)
    PROVE  Moves(c)
<1> USE DEF SegmentInv, SegmentTypeOK, Moves
<1>1. CASE Hit(c) \/ Join(c) \/ Lead(c) \/ Get(c)
  BY <1>1 DEF Hit, Join, Lead, Get
<1>2. CASE Gate(c) \/ GetFails(c) \/ Decode(c) \/ WarmFill(c)
  BY <1>2 DEF Gate, GetFails, Decode, WarmFill, Answer, Waiters
<1> QED BY <1>1, <1>2 DEF FetchStep

(* and so does one that is dropped.                                        *)
LEMMA AbandonMoves ==
    ASSUME SegmentInv, NEW c \in Clients, Abandon(c), pc[c] # "idle"
    PROVE  Moves(c)
BY DEF SegmentInv, SegmentTypeOK, Moves, Abandon, Waiters

(* Redis, the breaker and the TTL change nothing a client waits for.       *)
LEMMA SurroundingsKeepInv ==
    ASSUME SegmentInv,
           BreakerTurns \/ (\E u \in Users : WriteSegments(u) \/ Expire(u))
    PROVE  SegmentInv'
BY DEF SegmentInv, SegmentTypeOK, Owner, Guarded, Known, BreakerTurns, WriteSegments, Expire,
   Entries

-----------------------------------------------------------------------------
ChunkType == chunk \in Seq([user : Users, raw : RawValues])
WarmBusy == pc[Warmup] # "idle" => warm = "insert" /\ chunk # <<>>

Phases ==
    /\ warm = "off" <=> server = "none"
    /\ warm # "off" => boot = Len(BootSequence)
    /\ warm \notin {"test", "over"} => tests = 0 /\ failures = 0
    /\ warm = "over" => tests \in {0, Tests} /\ failures <= MaxFailures
    /\ warm # "connect" => tries = 0
    /\ Running /\ warm = "connect" => tries < Tries

Stopped ==
    /\ exit = "clean" => server = "stopped"
    /\ server = "stopped" => \A c \in Requests : pc[c] = "idle"

(* TypeOK without the part that is the segments'.                          *)
ProcessTypeOK ==
    /\ max_concurrency \in Limits
    /\ boot \in 0..Len(BootSequence)
    /\ server \in {"none", "spawned", "accepting", "draining", "stopped"}
    /\ warm \in {"off", "get", "mget", "insert", "connect", "test", "over"}
    /\ left \in Seq(Users) /\ Len(chunk) <= Batch
    /\ tries \in 0..Tries /\ failures \in 0..tests /\ tests \in 0..Tests
    /\ exit \in {"no", "clean", "failed", "killed"}
    /\ drop \in {"no", "over"}

ReadyLast == ready \in BOOLEAN /\ (ready => warm = "over")

ProcessInv == ProcessTypeOK /\ ChunkType /\ Phases /\ ReadyLast

Inv == SegmentInv /\ ProcessInv /\ WarmBusy /\ Stopped

-----------------------------------------------------------------------------
(* The fallible steps of main.                                             *)
LEMMA BootLength == Len(BootSequence) = 8
BY DEF BootSequence

(* The constants are positive numbers.                                     *)
LEMMA Constants ==
    /\ Batch \in Nat /\ Batch > 0
    /\ Tries \in Nat /\ Tries > 0
    /\ Tests \in Nat /\ Tests > 0
    /\ MaxFailures \in Nat
    /\ WarmUsers \in Seq(Users)
BY ServerAssumption

(* The process starts with nothing running.                                *)
LEMMA InitInv == Init => Inv
<1> SUFFICES ASSUME Init PROVE Inv
  OBVIOUS
<1> USE Constants, BootLength DEF Init
<1>1. SegmentInv
  BY SegmentInitInv
<1>2. ReadyLast
  BY DEF ReadyLast
<1>3. ProcessTypeOK /\ ChunkType /\ Phases
  BY DEF ProcessTypeOK, ChunkType, Phases, Running
<1>4. WarmBusy /\ Stopped
  BY DEF WarmBusy, Stopped, SegmentInit, Clients
<1> QED BY <1>1, <1>2, <1>3, <1>4 DEF Inv, ProcessInv

-----------------------------------------------------------------------------
(* Steps of main leave the segments alone.                                 *)
LEMMA MainStep ==
    ASSUME Inv, BootStep \/ BootFails \/ Serve \/ Listen \/ Sigterm \/ Drained \/ End \/ Drop
    PROVE  Inv'
<1>0. UNCHANGED segmentVars /\ UNCHANGED <<max_concurrency, left, chunk, tries, tests, failures>>
  BY DEF BootStep, BootFails, Serve, Listen, Sigterm, Drained, End, Drop, mainVars, warmVars
<1>r. ReadyLast'
  <2>1. CASE Serve
    <3>1. warm # "over"
      BY <2>1 DEF Serve, Inv, ProcessInv, Phases
    <3>2. ready = FALSE
      BY <3>1 DEF Inv, ProcessInv, ReadyLast
    <3>3. ready' = FALSE \/ (ready' = TRUE /\ warm' = "over")
      BY <2>1, <3>2, Zenon DEF Serve
    <3> QED BY <3>3, Zenon DEF ReadyLast
  <2>2. CASE ~Serve
    BY <2>2 DEF Inv, ProcessInv, ReadyLast, mainVars, warmVars,
       BootStep, BootFails, Listen, Sigterm, Drained, End, Drop
  <2> QED BY <2>1, <2>2
<1>1. SegmentInv' /\ ChunkType'
  BY <1>0 DEF Inv, SegmentInv, SegmentTypeOK, Owner, Guarded, Known, segmentVars, ProcessInv,
     ChunkType
<1> USE Constants, BootLength DEF Inv, ProcessInv, ProcessTypeOK, Phases, WarmBusy, Stopped,
    Running, segmentVars, mainVars, warmVars
<1>2. CASE BootStep
  BY <1>0, <1>r, <1>1, <1>2 DEF BootStep
<1>3. CASE BootFails
  BY <1>0, <1>r, <1>1, <1>3 DEF BootFails
<1>4. CASE Serve
  BY <1>0, <1>r, <1>1, <1>4 DEF Serve
<1>5. CASE Listen
  BY <1>0, <1>r, <1>1, <1>5 DEF Listen
<1>6. CASE Sigterm
  BY <1>0, <1>r, <1>1, <1>6 DEF Sigterm
<1>7. CASE Drained
  BY <1>0, <1>r, <1>1, <1>7 DEF Drained
<1>8. CASE End
  BY <1>0, <1>r, <1>1, <1>8 DEF End
<1>9. CASE Drop
  BY <1>0, <1>r, <1>1, <1>9 DEF Drop
<1> QED BY <1>2, <1>3, <1>4, <1>5, <1>6, <1>7, <1>8, <1>9

(* Steps of clients leave the process alone.  A stopped server has no      *)
(* busy request, so nothing but the warm-up moves then.                    *)
LEMMA ClientStep ==
    ASSUME Inv, SegmentInv', UNCHANGED processVars, NEW c \in Clients, Moves(c)
    PROVE  Inv'
<1> USE DEF processVars, mainVars, warmVars
<1>1. ProcessInv'
  BY DEF Inv, ProcessInv, ProcessTypeOK, ChunkType, Phases, ReadyLast, Running
<1>2. WarmBusy'
  BY DEF Inv, WarmBusy, Moves, Clients
<1>3. Stopped'
  BY ClientsAssumption DEF Inv, Stopped, Moves, Clients
<1> QED BY <1>1, <1>2, <1>3 DEF Inv

(* The steps of a request keep the invariant,                              *)
LEMMA RequestKeepsInv ==
    ASSUME Inv, NEW c \in Requests, Arrive(c) \/ RequestStep(c)
    PROVE  Inv'
<1>0. c \in Clients /\ c # Warmup
  BY ClientsAssumption DEF Clients
<1>1. CASE Arrive(c)
  <2>1. SegmentInv'
    BY <1>0, <1>1 DEF Inv, Arrive, SegmentInv, SegmentTypeOK, Owner, Guarded, Known, FetchPhases
  <2>2. ProcessInv'
    BY <1>1 DEF Inv, Arrive, ProcessInv, ProcessTypeOK, ChunkType, Phases, ReadyLast,
       Running, processVars, mainVars, warmVars
  <2>3. WarmBusy' /\ Stopped'
    BY <1>0, <1>1 DEF Inv, Arrive, WarmBusy, Stopped, Running, SegmentInv, SegmentTypeOK,
       Clients, processVars, mainVars, warmVars
  <2> QED BY <2>1, <2>2, <2>3 DEF Inv
<1>2. CASE RequestStep(c)
  <2>0. UNCHANGED processVars /\ SegmentInv
    BY <1>2 DEF RequestStep, Inv
  <2>1. CASE Admit(c)
    <3>1. SegmentInv'
      BY <1>0, <2>0, <2>1 DEF Admit, SegmentInv, SegmentTypeOK, Owner, Guarded, Known, FetchPhases
    <3>2. Moves(c)
      BY <1>0, <2>0, <2>1 DEF Admit, Moves, SegmentInv, SegmentTypeOK
    <3> QED BY <1>0, <2>0, <3>1, <3>2, ClientStep
  <2>2. CASE FetchStep(c)
    BY <1>0, <2>0, <2>2, FetchStepKeepsInv, FetchStepMoves, ClientStep
  <2>3. CASE Respond(c)
    <3>1. SegmentInv'
      BY <1>0, <2>0, <2>3, ClientsAssumption
      DEF Respond, SegmentInv, SegmentTypeOK, Owner, Guarded, Known, FetchPhases
    <3>2. Moves(c)
      BY <1>0, <2>0, <2>3 DEF Respond, Moves, SegmentInv, SegmentTypeOK
    <3> QED BY <1>0, <2>0, <3>1, <3>2, ClientStep
  <2>4. CASE Timeout(c)
    <3>1. SegmentInv'
      BY <1>0, <2>0, <2>4, AbandonKeepsInv DEF Timeout
    <3>2. Moves(c)
      BY <1>0, <2>0, <2>4, AbandonMoves DEF Timeout
    <3> QED BY <1>0, <2>0, <3>1, <3>2, ClientStep
  <2> QED BY <1>2, <2>1, <2>2, <2>3, <2>4 DEF RequestStep
<1> QED BY <1>1, <1>2

-----------------------------------------------------------------------------
(* The steps of the warm-up that do not touch the segments.                *)
LEMMA WarmPhase ==
    ASSUME Inv, Running, WarmGet \/ WarmMget \/ Connect \/ SelfTest \/ SetReady
    PROVE  Inv'
<1> USE Constants DEF mainVars
<1>0. UNCHANGED segmentVars /\ UNCHANGED <<mainVars, drop>> /\ exit' # "clean" /\ exit # "clean"
  BY DEF WarmGet, WarmMget, Connect, SelfTest, SetReady, Running
<1>1. SegmentInv'
  BY <1>0 DEF Inv, SegmentInv, SegmentTypeOK, Owner, Guarded, Known, segmentVars
<1>2. Stopped'
  BY <1>0 DEF Inv, Stopped, segmentVars
<1>3. WarmBusy'
  BY <1>0 DEF Inv, WarmBusy, WarmGet, WarmMget, Connect, SelfTest, SetReady, segmentVars
<1>r. ReadyLast'
  <2>1. CASE SetReady
    BY <2>1, Zenon DEF SetReady, Inv, ProcessInv, ReadyLast
  <2>2. CASE ~SetReady
    <3>1. warm # "over" /\ ready' = ready
      BY <2>2 DEF WarmGet, WarmMget, Connect, SelfTest
    <3>2. ready = FALSE
      BY <3>1 DEF Inv, ProcessInv, ReadyLast
    <3> QED BY <3>1, <3>2, Zenon DEF ReadyLast
  <2> QED BY <2>1, <2>2
<1>4. CASE WarmMget
  <2> DEFINE n == IF Len(left) < Batch THEN Len(left) ELSE Batch
  <2>1. n \in Nat /\ n <= Batch /\ n <= Len(left) /\ left \in Seq(Users)
    BY DEF Inv, ProcessInv, ProcessTypeOK
  <2>2. CASE warm' = "connect" /\ left' = <<>> /\ UNCHANGED chunk
    BY <1>0, <1>r, <1>1, <1>2, <1>3, <1>4, <2>2, SMTT(30)
    DEF WarmMget, Inv, ProcessInv, ProcessTypeOK, ChunkType, Phases, Running
  <2>3. CASE /\ left # <<>>
             /\ chunk' = [i \in 1..n |-> [user |-> left[i], raw |-> redis[left[i]]]]
             /\ left' = SubSeq(left, n + 1, Len(left))
             /\ warm' = "insert"
    <3>1. left' \in Seq(Users)
      BY <2>1, <2>3
    <3>2. \A i \in 1..n : [user |-> left[i], raw |-> redis[left[i]]]
                            \in [user : Users, raw : RawValues]
      BY <2>1 DEF Inv, SegmentInv, SegmentTypeOK
    <3>3. chunk' \in Seq([user : Users, raw : RawValues]) /\ Len(chunk') = n
      <4> DEFINE S == [user : Users, raw : RawValues]
                 E(i) == [user |-> left[i], raw |-> redis[left[i]]]
      <4>1. \A i \in 1..n : E(i) \in S
        BY <3>2
      <4>2. chunk' = [i \in 1..n |-> E(i)]
        BY <2>3
      <4> HIDE DEF S, E, n
      <4>3. chunk' \in Seq(S) /\ Len(chunk') = n
        BY <2>1, <4>1, <4>2
      <4> QED BY <4>3 DEF S
    <3> HIDE DEF n
    <3>4. ProcessInv'
      BY <1>0, <1>r, <1>4, <2>1, <2>3, <3>1, <3>3
      DEF WarmMget, Inv, ProcessInv, ProcessTypeOK, ChunkType, Phases, Running
    <3> QED BY <1>1, <1>2, <1>3, <3>4 DEF Inv
  <2> QED BY <1>4, <2>2, <2>3 DEF WarmMget
<1> USE DEF Inv, ProcessInv, ProcessTypeOK, ChunkType, Phases, Running
<1>5. CASE WarmGet
  BY <1>0, <1>r, <1>1, <1>2, <1>3, <1>5 DEF WarmGet
<1>6. CASE Connect
  BY <1>0, <1>r, <1>1, <1>2, <1>3, <1>6 DEF Connect
<1>7. CASE SelfTest
  BY <1>0, <1>r, <1>1, <1>2, <1>3, <1>7 DEF SelfTest
<1>8. CASE SetReady
  BY <1>0, <1>r, <1>1, <1>2, <1>3, <1>8 DEF SetReady
<1> QED BY <1>4, <1>5, <1>6, <1>7, <1>8

(* The warm-up takes a user to the cache and comes back.                   *)
LEMMA WarmInsert ==
    ASSUME Inv, Running, WarmNext \/ WarmInserted
    PROVE  Inv'
<1> USE Constants DEF mainVars
<1>0. UNCHANGED <<redis, breaker, cache, fetcher, mainVars, left, tries, tests, failures,
                  ready, exit, drop>>
      /\ Warmup \in Clients
  BY DEF WarmNext, WarmInserted, Clients
<1>1. chunk # <<>> => /\ Head(chunk) \in [user : Users, raw : RawValues]
                      /\ Tail(chunk) \in Seq([user : Users, raw : RawValues])
                      /\ Len(Tail(chunk)) <= Batch
  <2> DEFINE S == [user : Users, raw : RawValues]
  <2>1. chunk \in Seq(S) /\ Len(chunk) <= Batch
    BY DEF Inv, ProcessInv, ProcessTypeOK, ChunkType
  <2> HIDE DEF S
  <2>2. chunk # <<>> => Head(chunk) \in S /\ Tail(chunk) \in Seq(S) /\ Len(Tail(chunk)) <= Batch
    BY <2>1
  <2> QED BY <2>2 DEF S
<1>2. chunk' = chunk \/ (chunk # <<>> /\ chunk' = Tail(chunk))
  BY DEF WarmNext, WarmInserted, Inv, WarmBusy
<1>3. warm = "insert" /\ warm' \in {"insert", "mget"}
  BY DEF WarmNext, WarmInserted
<1>4. ProcessInv'
  BY <1>0, <1>1, <1>2, <1>3
  DEF Inv, ProcessInv, ProcessTypeOK, ChunkType, Phases, ReadyLast, Running
<1>5. /\ pc' = pc /\ user' = user /\ raw' = raw
      \/ /\ pc[Warmup] = "idle" /\ chunk # <<>>
         /\ pc' = [pc EXCEPT ![Warmup] = "lookup"]
         /\ user' = [user EXCEPT ![Warmup] = Head(chunk).user]
         /\ raw' = [raw EXCEPT ![Warmup] = Head(chunk).raw]
      \/ /\ pc[Warmup] = "done"
         /\ pc' = [pc EXCEPT ![Warmup] = "idle"]
         /\ user' = [user EXCEPT ![Warmup] = Nobody]
         /\ raw' = [raw EXCEPT ![Warmup] = "absent"]
  BY DEF WarmNext, WarmInserted
<1>6. SegmentTypeOK'
  BY <1>0, <1>1, <1>5 DEF Inv, SegmentInv, SegmentTypeOK, RawValues
<1>7. Owner' /\ Guarded' /\ Known'
  <2>1. \A d \in Clients : d # Warmup => pc'[d] = pc[d] /\ user'[d] = user[d]
    BY <1>0, <1>5 DEF Inv, SegmentInv, SegmentTypeOK
  <2>2. \/ pc'[Warmup] = pc[Warmup] /\ user'[Warmup] = user[Warmup]
        \/ pc'[Warmup] = "lookup" /\ pc[Warmup] = "idle" /\ user'[Warmup] \in Users
        \/ pc'[Warmup] = "idle" /\ pc[Warmup] = "done"
    BY <1>0, <1>1, <1>5 DEF Inv, SegmentInv, SegmentTypeOK
  <2>3. Owner'
    BY <1>0, <2>1, <2>2 DEF Inv, SegmentInv, Owner, FetchPhases
  <2>4. Guarded' /\ Known'
    BY <1>0, <2>1, <2>2 DEF Inv, SegmentInv, Guarded, Known, FetchPhases
  <2> QED BY <2>3, <2>4
<1>8. WarmBusy'
  BY <1>0 DEF WarmNext, WarmInserted, Inv, WarmBusy, SegmentInv, SegmentTypeOK
<1>9. Stopped'
  BY <1>0, <1>5, ClientsAssumption DEF Inv, Stopped, SegmentInv, SegmentTypeOK, Clients
<1> QED BY <1>4, <1>6, <1>7, <1>8, <1>9 DEF Inv, SegmentInv

(* so do those of the warm-up,                                             *)
LEMMA WarmKeepsInv ==
    ASSUME Inv, WarmStep
    PROVE  Inv'
<1>1. CASE WarmClientStep /\ UNCHANGED processVars
  <2>1. Warmup \in Clients /\ SegmentInv
    BY DEF Clients, Inv
  <2>2. Moves(Warmup)
    BY <1>1, <2>1, FetchStepMoves DEF WarmClientStep, FetchStep
  <2> QED BY <1>1, <2>1, <2>2, WarmClientKeepsInv, ClientStep
<1> QED BY <1>1, WarmPhase, WarmInsert DEF WarmStep

(* and those of Redis, the breaker and the clock.                          *)
LEMMA SurroundingsStep ==
    ASSUME Inv, Environment \/ \E u \in Users : Lapse(u)
    PROVE  Inv'
<1>1. SegmentInv' /\ UNCHANGED processVars /\ pc' = pc
  BY SurroundingsKeepInv
  DEF Inv, Environment, Lapse, BreakerTurns, WriteSegments, Expire
<1> QED BY <1>1 DEF Inv, ProcessInv, ProcessTypeOK, ChunkType, Phases, ReadyLast, WarmBusy, Stopped,
        Running, processVars, mainVars, warmVars

(* Every step of the process keeps the invariant,                          *)
LEMMA StepInv == Inv /\ [Next]_vars => Inv'
<1> SUFFICES ASSUME Inv, [Next]_vars PROVE Inv'
  OBVIOUS
<1>1. CASE UNCHANGED vars
  BY <1>1, SMTT(30)
  DEF vars, segmentVars, processVars, mainVars, warmVars, Inv, SegmentInv, SegmentTypeOK,
     Owner, Guarded, Known, ProcessInv, ProcessTypeOK, ChunkType, Phases, ReadyLast, WarmBusy,
     Stopped, Running
<1> QED BY <1>1, MainStep, RequestKeepsInv, WarmKeepsInv, SurroundingsStep DEF Next

(* which so holds in every reachable state.                                *)
LEMMA SpecInv == Spec => []Inv
BY InitInv, StepInv, PTL DEF Spec

-----------------------------------------------------------------------------
(* Every variable of the process stays in its range: the self-test makes   *)
(* no attempt and no request beyond those it has, whatever the moment of   *)
(* SIGTERM.                                                                *)
THEOREM ServerTypeCorrect == Spec => []TypeOK
<1>1. Inv => TypeOK
  BY DEF Inv, SegmentInv, ProcessInv, ProcessTypeOK, ReadyLast, TypeOK
<1> QED BY <1>1, SpecInv, PTL

(* get_or_fetch fetches a user once at a time, for any number of users and *)
(* requests, timed out and warmed up at any moment.                        *)
THEOREM FetchedOnce == Spec => []OneFetchPerUser
<1>1. Inv => OneFetchPerUser
  BY InvImpliesOneFetch DEF Inv
<1> QED BY <1>1, SpecInv, PTL

(* Readiness comes after boot and a passed self-test, for any number of    *)
(* attempts, tests and tolerated failures.                                 *)
THEOREM ReadinessEarned == Spec => []ReadyIsEarned
<1>1. Inv => ReadyIsEarned
  BY DEF Inv, ProcessInv, Phases, ReadyLast, ReadyIsEarned
<1> QED BY <1>1, SpecInv, PTL

(* A clean exit leaves no request unanswered, for any number of requests.  *)
THEOREM CleanExit == Spec => []CleanExitDrained
<1>1. Inv => CleanExitDrained
  BY DEF Inv, Stopped, CleanExitDrained
<1> QED BY <1>1, SpecInv, PTL

=============================================================================
