------------------------- MODULE FreqCapCacheProofs -------------------------
(***************************************************************************)
(* No count a bid can be refused for is made up, for any campaigns, caps,  *)
(* checks, buffers and ceiling of the counters.                            *)
(*                                                                         *)
(* CountsExplained is not inductive: an increment on its way to Redis must *)
(* be backed as well.  Pending counts what the eviction listener, the      *)
(* write-behind channel, the recorder's channel and its worker still hold  *)
(* for a counter, and Backed says that the counter and all of it together  *)
(* stay within the wins, evictions and repeated EVALs so far.              *)
(***************************************************************************)
EXTENDS FreqCapCache, FiniteSetTheorems, SequenceTheorems, TLAPS

Ops == Campaigns \X Windows

(* How often x is in the sequence q.                                       *)
Places(q, x) == {i \in 1..Len(q) : q[i] = x}
Occurs(q, x) == Cardinality(Places(q, x))

(* The worker has still to write window w of an impression of c.           *)
InJob(c, w) ==
    IF job # NoJob /\ job.campaign = c /\ (job.todo = <<"h", "d">> \/ w = "d") THEN 1 ELSE 0

(* The increments of counter w of c that are on their way.                 *)
Queued(c) == Occurs(flush, <<c, "d">>) + Occurs(wq, <<c, "d">>) + Occurs(rq, c)
Pending(c, w) == Queued(c) + InJob(c, w)

Backed ==
    \A c \in Campaigns, w \in Windows :
        credit[c] = Ceiling \/ redis[c][w] + Pending(c, w) <= credit[c]

(* TypeOK, with the types of the local variables of a check in full.       *)
Jobs == {NoJob} \cup [campaign : Campaigns, todo : {<<"h", "d">>, <<"d">>}]
Maps == UNION {[d -> Counts] : d \in SUBSET Campaigns}

QueuesTyped ==
    /\ flush \in Seq(Ops)
    /\ wq \in Seq(Ops) /\ Len(wq) <= WriteBuffer
    /\ rq \in Seq(Campaigns) /\ Len(rq) <= RecorderQueue
    /\ job \in Jobs

ChecksTyped ==
    /\ pc \in [Checkers -> {"idle", "lookup", "mget", "patch"}]
    /\ todo \in [Checkers -> SUBSET Campaigns]
    /\ cold \in [Checkers -> SUBSET Campaigns]
    /\ reply \in [Checkers -> Maps]
    /\ \A k \in Checkers : pc[k] = "patch" => todo[k] \subseteq DOMAIN reply[k]
    /\ verdict \in [Checkers -> [Campaigns -> {"skipped", "free", "capped"}]]

CountersTyped ==
    /\ redis \in [Campaigns -> Counts]
    /\ cache \in Maps
    /\ credit \in [Campaigns -> 0..Ceiling]

Inv ==
    /\ up \in BOOLEAN
    /\ QueuesTyped /\ ChecksTyped /\ CountersTyped
    /\ Backed /\ CountsExplained

-----------------------------------------------------------------------------
(* How a channel's operations change what it holds.                        *)
LEMMA OccursNat ==
    ASSUME NEW T, NEW q \in Seq(T), NEW x
    PROVE  IsFiniteSet(Places(q, x)) /\ Occurs(q, x) \in Nat
<1>1. IsFiniteSet(1..Len(q))
  BY FS_Interval
<1>2. IsFiniteSet(Places(q, x))
  BY <1>1, FS_Subset DEF Places
<1>3. QED BY <1>2, FS_CardinalityType DEF Occurs

(* A send puts one more in a channel,                                      *)
LEMMA OccursAppend ==
    ASSUME NEW T, NEW q \in Seq(T), NEW e \in T, NEW x
    PROVE  Occurs(Append(q, e), x) = Occurs(q, x) + (IF e = x THEN 1 ELSE 0)
<1> DEFINE r == Append(q, e)
           n == Len(q)
<1>1. /\ n \in Nat /\ Len(r) = n + 1 /\ r[n + 1] = e
      /\ \A i \in 1..n : r[i] = q[i]
  OBVIOUS
<1>2. IsFiniteSet(Places(q, x)) /\ Occurs(q, x) \in Nat
  BY OccursNat
<1> HIDE DEF r
<1>3. CASE e = x
  <2>1. Places(r, x) = Places(q, x) \cup {n + 1}
    BY <1>1, <1>3 DEF Places
  <2>2. n + 1 \notin Places(q, x)
    BY <1>1 DEF Places
  <2>3. Occurs(r, x) = Occurs(q, x) + 1
    BY <1>2, <2>1, <2>2, FS_AddElement DEF Occurs
  <2>4. QED BY <1>3, <2>3 DEF r
<1>4. CASE e # x
  <2>1. Places(r, x) = Places(q, x)
    BY <1>1, <1>4 DEF Places
  <2>2. QED BY <1>2, <1>4, <2>1 DEF Occurs, r
<1>5. QED BY <1>3, <1>4

(* and a receive takes the first one out.                                  *)
LEMMA OccursTail ==
    ASSUME NEW T, NEW q \in Seq(T), q # <<>>, NEW x
    PROVE  Occurs(q, x) = Occurs(Tail(q), x) + (IF Head(q) = x THEN 1 ELSE 0)
<1> DEFINE r == Tail(q)
           n == Len(q)
           later == Places(q, x) \ {1}
<1>1. /\ n \in Nat \ {0} /\ Len(r) = n - 1 /\ q[1] = Head(q) /\ r \in Seq(T)
      /\ \A i \in 1..(n - 1) : r[i] = q[i + 1]
  OBVIOUS
<1>2. /\ IsFiniteSet(Places(q, x)) /\ Occurs(q, x) \in Nat
      /\ IsFiniteSet(Places(r, x)) /\ Occurs(r, x) \in Nat
  BY <1>1, OccursNat
<1> HIDE DEF r
<1>3. Cardinality(later) = Occurs(r, x)
  <2> DEFINE f == [i \in Places(r, x) |-> i + 1]
  <2>1. \A i \in Places(r, x) : i \in Int /\ i + 1 \in later
    BY <1>1 DEF Places
  <2>2. \A j \in later : j \in Int /\ j - 1 \in Places(r, x)
    BY <1>1 DEF Places
  <2>3. f \in [Places(r, x) -> later]
    BY <2>1
  <2>4. \A a, b \in Places(r, x) : f[a] = f[b] => a = b
    BY <2>1
  <2>5. \A j \in later : \E i \in Places(r, x) : f[i] = j
    <3>1. SUFFICES ASSUME NEW j \in later PROVE f[j - 1] = j
      BY <2>2
    <3>2. QED BY <2>2
  <2>6. f \in Bijection(Places(r, x), later)
    BY <2>3, <2>4, <2>5 DEF Bijection, Injection, Surjection, IsInjective
  <2>7. ExistsBijection(Places(r, x), later)
    BY <2>6 DEF ExistsBijection
  <2>8. QED BY <1>2, <2>7, FS_Bijection DEF Occurs
<1>4. Cardinality(later) = IF 1 \in Places(q, x) THEN Occurs(q, x) - 1 ELSE Occurs(q, x)
  BY <1>2, FS_RemoveElement DEF Occurs
<1>5. 1 \in Places(q, x) <=> Head(q) = x
  BY <1>1 DEF Places
<1>6. CASE Head(q) = x
  BY <1>2, <1>3, <1>4, <1>5, <1>6 DEF r
<1>7. CASE Head(q) # x
  BY <1>2, <1>3, <1>4, <1>5, <1>7 DEF r
<1>8. QED BY <1>6, <1>7

-----------------------------------------------------------------------------
(* A user's map: counts of some campaigns.                                 *)
LEMMA MapIn ==
    ASSUME NEW d \in SUBSET Campaigns, NEW m \in [d -> Counts]
    PROVE  m \in Maps
BY DEF Maps

(* What a user's map in moka holds,                                        *)
LEMMA MapOut ==
    ASSUME NEW m \in Maps
    PROVE  DOMAIN m \in SUBSET Campaigns /\ m \in [DOMAIN m -> Counts]
BY DEF Maps

(* and that a user who was evicted has none.                               *)
LEMMA EmptyMap == Empty \in Maps /\ DOMAIN Empty = {}
<1>1. Empty \in [{} -> Counts]
  BY DEF Empty
<1>2. QED BY <1>1, MapIn DEF Empty

(* Counts are within the ceiling.                                          *)
LEMMA CountsFacts ==
    /\ Ceiling \in Nat
    /\ NoCounts \in Counts
    /\ \A n \in Counts : \A w \in Windows : n[w] \in 0..Ceiling
BY CapAssumption DEF Counts, NoCounts, Windows

(* What is on its way is a number.                                         *)
LEMMA QueuedNat ==
    ASSUME QueuesTyped, NEW c \in Campaigns
    PROVE  Queued(c) \in Nat /\ \A w \in Windows : Pending(c, w) \in Nat
<1>1. Occurs(flush, <<c, "d">>) \in Nat /\ Occurs(wq, <<c, "d">>) \in Nat
  BY OccursNat DEF QueuesTyped
<1>2. Occurs(rq, c) \in Nat
  BY OccursNat DEF QueuesTyped
<1>3. \A w \in Windows : InJob(c, w) \in Nat
  BY DEF InJob
<1>4. QED BY <1>1, <1>2, <1>3 DEF Queued, Pending

(* The invariant implies what the run checks.                              *)
LEMMA InvImplies == Inv => TypeOK /\ CountsExplained
<1> SUFFICES ASSUME Inv PROVE TypeOK
  BY DEF Inv
<1>1. DOMAIN cache \subseteq Campaigns /\ \A c \in DOMAIN cache : cache[c] \in Counts
  BY MapOut DEF Inv, CountersTyped
<1>2. /\ Range(flush) \cup Range(wq) \subseteq Campaigns \X Windows
      /\ Range(rq) \subseteq Campaigns
  BY DEF Inv, QueuesTyped, Ops, Range
<1>3. job = NoJob \/ (job.campaign \in Campaigns /\ job.todo \in {<<"h", "d">>, <<"d">>})
  BY DEF Inv, QueuesTyped, Jobs
<1>4. \A k \in Checkers : todo[k] \cup cold[k] \subseteq Campaigns
  BY DEF Inv, ChecksTyped
<1>5. QED
  BY <1>1, <1>2, <1>3, <1>4 DEF Inv, QueuesTyped, ChecksTyped, CountersTyped, TypeOK

(* Nothing is counted, cached or on its way yet.                           *)
LEMMA Initially == Init => Inv
<1> SUFFICES ASSUME Init PROVE Inv
  OBVIOUS
<1>1. CountersTyped
  BY CountsFacts, EmptyMap DEF Init, CountersTyped
<1>2. QueuesTyped
  BY CapAssumption DEF Init, QueuesTyped, Jobs
<1>3. ChecksTyped
  BY EmptyMap DEF Init, ChecksTyped
<1>4. Backed
  <2>1. ASSUME NEW c \in Campaigns, NEW w \in Windows
        PROVE  redis[c][w] + Pending(c, w) <= credit[c]
    <3>1. redis[c][w] = 0 /\ credit[c] = 0
      BY DEF Init, NoCounts
    <3>2. Places(<<>>, <<c, "d">>) = {} /\ Places(<<>>, c) = {}
      BY DEF Places
    <3>3. Occurs(<<>>, <<c, "d">>) = 0 /\ Occurs(<<>>, c) = 0
      BY <3>2, FS_EmptySet DEF Occurs
    <3>4. Pending(c, w) = 0
      BY <3>3 DEF Init, Pending, Queued, InJob
    <3>5. QED BY <3>1, <3>4
  <2>2. QED BY <2>1 DEF Backed
<1>5. CountsExplained
  BY EmptyMap DEF Init, CountsExplained, NoCounts
<1>6. QED BY <1>1, <1>2, <1>3, <1>4, <1>5 DEF Inv, Init

-----------------------------------------------------------------------------
(* What a step leaves alone stays as it is.                                *)
LEMMA QueuesKept ==
    ASSUME QueuesTyped, Backed, UNCHANGED <<redis, credit, flush, wq, rq, job>>
    PROVE  QueuesTyped' /\ Backed'
<1>1. QueuesTyped'
  BY DEF QueuesTyped
<1>2. Backed'
  BY DEF Backed, Pending, Queued, InJob
<1>3. QED BY <1>1, <1>2

(* A step that leaves the checks alone keeps their types.                  *)
LEMMA ChecksKept ==
    ASSUME ChecksTyped, UNCHANGED check
    PROVE  ChecksTyped'
BY DEF ChecksTyped, check

(* Every count a check can see is below the credit; the credit of a        *)
(* campaign never falls.                                                   *)
LEMMA ExplainedKept ==
    ASSUME CountersTyped, CountsExplained, UNCHANGED <<redis, cache, reply>>,
           credit' \in [Campaigns -> 0..Ceiling], ChecksTyped,
           \A c \in Campaigns : credit[c] <= credit'[c]
    PROVE  CountersTyped' /\ CountsExplained'
<1>1. CountersTyped'
  BY DEF CountersTyped
<1>2. ASSUME NEW c \in Campaigns, NEW w \in Windows
      PROVE  /\ redis[c][w] <= credit'[c]
             /\ c \in DOMAIN cache => cache[c][w] <= credit'[c]
             /\ \A k \in Checkers : c \in DOMAIN reply[k] => reply[k][c][w] <= credit'[c]
  <2>1. credit[c] \in Int /\ credit'[c] \in Int /\ credit[c] <= credit'[c]
    BY DEF CountersTyped
  <2>2. redis[c][w] \in Int
    BY CountsFacts DEF CountersTyped
  <2>3. c \in DOMAIN cache => cache[c][w] \in Int
    BY CountsFacts, MapOut DEF CountersTyped
  <2>4. \A k \in Checkers : c \in DOMAIN reply[k] => reply[k][c][w] \in Int
    BY CountsFacts, MapOut DEF ChecksTyped
  <2>5. QED BY <2>1, <2>2, <2>3, <2>4 DEF CountsExplained
<1>3. QED BY <1>1, <1>2 DEF CountsExplained

-----------------------------------------------------------------------------
(* The steps of a check before its reply: they write nothing but its own   *)
(* local variables.                                                        *)
LEMMA LookStep ==
    ASSUME Inv, NEW k \in Checkers,
           \/ Begin(k) \/ Refused(k) \/ Unavailable(k) \/ \E c \in Campaigns : LookUp(k, c)
    PROVE  Inv'
<1> USE DEF Inv
<1>1. UNCHANGED <<redis, up, cache, credit, flush, wq, rq, job, reply>>
  BY DEF Begin, Refused, Unavailable, LookUp, queues
<1>2. QueuesTyped' /\ Backed'
  BY <1>1, QueuesKept
<1>3. CountersTyped' /\ CountsExplained'
  BY <1>1 DEF CountersTyped, CountsExplained
<1>4. ChecksTyped'
  <2>1. CASE Begin(k)
    BY <2>1 DEF Begin, ChecksTyped
  <2>2. CASE Refused(k)
    BY <2>2 DEF Refused, ChecksTyped
  <2>3. CASE Unavailable(k)
    BY <2>3 DEF Unavailable, ChecksTyped
  <2>4. ASSUME NEW c \in Campaigns, LookUp(k, c)
        PROVE  ChecksTyped'
    <3> DEFINE hot == c \in DOMAIN cache
               v == IF hot THEN Verdict(c, cache[c]) ELSE "free"
               p == IF todo'[k] # {} THEN "lookup" ELSE IF cold'[k] # {} THEN "mget" ELSE "idle"
    <3>1. v \in {"free", "capped"}
      BY DEF Verdict
    <3>2. /\ verdict' = [verdict EXCEPT ![k] = [verdict[k] EXCEPT ![c] = v]]
          /\ cold' = [cold EXCEPT ![k] = IF hot THEN cold[k] ELSE cold[k] \cup {c}]
          /\ todo' = [todo EXCEPT ![k] = todo[k] \ {c}]
          /\ pc' = [pc EXCEPT ![k] = p]
          /\ reply' = reply
      BY <2>4 DEF LookUp
    <3>3. p \in {"idle", "lookup", "mget"}
      OBVIOUS
    <3> HIDE DEF hot, v, p
    <3>4. verdict' \in [Checkers -> [Campaigns -> {"skipped", "free", "capped"}]]
      BY <3>1, <3>2 DEF ChecksTyped
    <3>5. /\ cold' \in [Checkers -> SUBSET Campaigns]
          /\ todo' \in [Checkers -> SUBSET Campaigns]
      BY <3>2 DEF ChecksTyped
    <3>6. /\ pc' \in [Checkers -> {"idle", "lookup", "mget", "patch"}]
          /\ \A j \in Checkers : pc'[j] = "patch" => pc[j] = "patch" /\ todo'[j] = todo[j]
      BY <3>2, <3>3 DEF ChecksTyped
    <3>7. QED BY <3>2, <3>4, <3>5, <3>6 DEF ChecksTyped
  <2>5. QED BY <2>1, <2>2, <2>3, <2>4
<1>5. QED BY <1>1, <1>2, <1>3, <1>4

(* The MGET copies counters that are backed.                               *)
LEMMA MgetStep ==
    ASSUME Inv, NEW k \in Checkers, Mget(k)
    PROVE  Inv'
<1> USE DEF Inv
<1> DEFINE got == [c \in cold[k] |-> redis[c]]
<1>1. /\ UNCHANGED <<redis, up, cache, credit, flush, wq, rq, job, verdict>>
      /\ reply' = [reply EXCEPT ![k] = got]
      /\ todo' = [todo EXCEPT ![k] = cold[k]]
      /\ cold' = [cold EXCEPT ![k] = {}]
      /\ pc' = [pc EXCEPT ![k] = "patch"]
  BY DEF Mget, queues
<1>2. cold[k] \in SUBSET Campaigns /\ got \in [cold[k] -> Counts]
  BY DEF ChecksTyped, CountersTyped
<1>3. got \in Maps /\ DOMAIN got = cold[k] /\ \A c \in cold[k] : got[c] = redis[c]
  BY <1>2, MapIn
<1> HIDE DEF got
<1>4. QueuesTyped' /\ Backed'
  BY <1>1, QueuesKept
<1>5. ChecksTyped'
  BY <1>1, <1>2, <1>3 DEF ChecksTyped
<1>6. CountersTyped'
  BY <1>1 DEF CountersTyped
<1>7. /\ reply'[k] = got
      /\ \A j \in Checkers \ {k} : reply'[j] = reply[j]
  BY <1>1 DEF ChecksTyped
<1>8. CountsExplained'
  BY <1>1, <1>3, <1>7 DEF CountsExplained
<1>9. QED BY <1>1, <1>4, <1>5, <1>6, <1>8

(* warm_cache keeps the higher of two counts.                              *)
LEMMA WarmStep ==
    ASSUME NEW c \in Campaigns, NEW counts \in Counts, cache \in Maps, WarmCache(c, counts)
    PROVE  /\ cache' \in Maps
           /\ DOMAIN cache' = DOMAIN cache \cup {c}
           /\ \A x \in DOMAIN cache \ {c} : cache'[x] = cache[x]
           /\ \A w \in Windows :
                 /\ cache'[c][w] = counts[w] \/ (c \in DOMAIN cache /\ cache'[c][w] = cache[c][w])
                 /\ c \in DOMAIN cache => cache'[c][w] >= cache[c][w]
<1> DEFINE old == IF c \in DOMAIN cache THEN cache[c] ELSE counts
           new == [w \in Windows |-> Larger(counts[w], old[w])]
           d == DOMAIN cache \cup {c}
<1>1. d \in SUBSET Campaigns /\ cache \in [DOMAIN cache -> Counts]
  BY MapOut
<1>2. old \in Counts
  BY <1>1
<1>3. /\ c \in DOMAIN cache => old = cache[c]
      /\ c \notin DOMAIN cache => old = counts
  OBVIOUS
<1>4. cache' = [x \in d |-> IF x = c THEN new ELSE cache[x]]
  BY DEF WarmCache
<1> HIDE DEF old
<1>5. \A w \in Windows : /\ counts[w] \in 0..Ceiling /\ old[w] \in 0..Ceiling
                         /\ new[w] \in {counts[w], old[w]} /\ new[w] >= old[w]
  <2>1. SUFFICES ASSUME NEW w \in Windows
                 PROVE  /\ counts[w] \in 0..Ceiling /\ old[w] \in 0..Ceiling
                        /\ new[w] \in {counts[w], old[w]} /\ new[w] >= old[w]
    OBVIOUS
  <2>2. counts[w] \in 0..Ceiling /\ old[w] \in 0..Ceiling
    BY <1>2, CountsFacts
  <2>3. new[w] = Larger(counts[w], old[w])
    OBVIOUS
  <2>4. QED BY <2>2, <2>3, CountsFacts DEF Larger
<1>6. new \in Counts
  BY <1>5 DEF Counts
<1> HIDE DEF new
<1>7. cache' \in [d -> Counts]
  BY <1>1, <1>4, <1>6
<1>8. cache' \in Maps
  BY <1>1, <1>7, MapIn
<1>9. /\ DOMAIN cache' = d /\ cache'[c] = new
      /\ \A x \in DOMAIN cache \ {c} : cache'[x] = cache[x]
  BY <1>4
<1>10. QED BY <1>3, <1>5, <1>8, <1>9

(* A check patches one cold campaign from its reply, and warms the cache   *)
(* with it.                                                                *)
LEMMA PatchStep ==
    ASSUME Inv, NEW k \in Checkers, NEW c \in Campaigns, Patch(k, c)
    PROVE  Inv'
<1> USE DEF Inv
<1> DEFINE counts == reply[k][c]
           over == todo'[k] = {}
<1>1. /\ UNCHANGED <<redis, up, credit, flush, wq, rq, job, cold>>
      /\ verdict' = [verdict EXCEPT ![k] = [verdict[k] EXCEPT ![c] = Verdict(c, counts)]]
      /\ todo' = [todo EXCEPT ![k] = todo[k] \ {c}]
      /\ pc' = [pc EXCEPT ![k] = IF over THEN "idle" ELSE "patch"]
      /\ reply' = [reply EXCEPT ![k] = IF over THEN Empty ELSE reply[k]]
      /\ WarmCache(c, counts)
      /\ pc[k] = "patch" /\ c \in todo[k]
  BY DEF Patch, queues
<1>2. /\ c \in DOMAIN reply[k] /\ counts \in Counts
      /\ todo[k] \subseteq DOMAIN reply[k]
  BY <1>1, MapOut DEF ChecksTyped
<1>3. /\ cache' \in Maps /\ DOMAIN cache' = DOMAIN cache \cup {c}
      /\ \A x \in DOMAIN cache \ {c} : cache'[x] = cache[x]
      /\ \A w \in Windows : cache'[c][w] = counts[w] \/ (c \in DOMAIN cache /\ cache'[c][w] = cache[c][w])
  BY <1>1, <1>2, WarmStep DEF CountersTyped
<1>4. QueuesTyped' /\ Backed'
  BY <1>1, QueuesKept
<1>5. CountersTyped'
  BY <1>1, <1>3 DEF CountersTyped
<1>6. Verdict(c, counts) \in {"free", "capped"}
  BY DEF Verdict
<1> HIDE DEF over
<1>7. ChecksTyped'
  <2>1. /\ verdict' \in [Checkers -> [Campaigns -> {"skipped", "free", "capped"}]]
        /\ todo' \in [Checkers -> SUBSET Campaigns]
        /\ cold' \in [Checkers -> SUBSET Campaigns]
        /\ pc' \in [Checkers -> {"idle", "lookup", "mget", "patch"}]
    BY <1>1, <1>6 DEF ChecksTyped
  <2>2. reply' \in [Checkers -> Maps]
    BY <1>1, EmptyMap DEF ChecksTyped
  <2>3. \A j \in Checkers : pc'[j] = "patch" => todo'[j] \subseteq DOMAIN reply'[j]
    BY <1>1, <1>2 DEF ChecksTyped
  <2>4. QED BY <2>1, <2>2, <2>3 DEF ChecksTyped
<1>8. CountsExplained'
  <2>1. \A j \in Checkers : reply'[j] = reply[j] \/ DOMAIN reply'[j] = {}
    BY <1>1, EmptyMap DEF ChecksTyped
  <2>2. QED BY <1>1, <1>2, <1>3, <2>1 DEF CountsExplained
<1>9. QED BY <1>1, <1>4, <1>5, <1>7, <1>8

-----------------------------------------------------------------------------
(* Counters and queues on the way to Redis.                                *)
LEMMA UpOneFacts ==
    ASSUME NEW n \in 0..Ceiling
    PROVE  /\ UpOne(n) \in 0..Ceiling /\ n <= UpOne(n) /\ UpOne(n) <= n + 1
           /\ UpOne(n) = Ceiling \/ UpOne(n) = n + 1
<1>1. Ceiling \in Nat
  BY CapAssumption
<1>2. QED BY <1>1 DEF UpOne

(* try_record adds at most the one impression.                             *)
LEMMA RecordStep ==
    ASSUME QueuesTyped, NEW c \in Campaigns, TryRecord(c)
    PROVE  /\ rq' \in Seq(Campaigns) /\ Len(rq') <= RecorderQueue
           /\ \A d \in Campaigns : /\ Occurs(rq', d) \in Nat
                                   /\ Occurs(rq', d) <= Occurs(rq, d) + (IF d = c THEN 1 ELSE 0)
<1>1. rq \in Seq(Campaigns) /\ Len(rq) <= RecorderQueue /\ RecorderQueue \in Nat
  BY CapAssumption DEF QueuesTyped
<1>2. \A d \in Campaigns : Occurs(rq, d) \in Nat
  BY <1>1, OccursNat
<1>3. CASE rq' = rq
  BY <1>1, <1>2, <1>3
<1>4. CASE Len(rq) < RecorderQueue /\ rq' = Append(rq, c)
  <2>1. rq' \in Seq(Campaigns) /\ Len(rq') = Len(rq) + 1 /\ Len(rq) \in Nat
    BY <1>1, <1>4
  <2>2. \A d \in Campaigns : Occurs(rq', d) = Occurs(rq, d) + (IF c = d THEN 1 ELSE 0)
    BY <1>1, <1>4, OccursAppend
  <2>3. QED BY <1>1, <1>2, <1>4, <2>1, <2>2
<1>5. QED BY <1>3, <1>4 DEF TryRecord

(* A step that moves increments on, drops them or applies them keeps the   *)
(* counters backed if it adds nothing to counter and increments together.  *)
LEMMA BackedBy ==
    ASSUME QueuesTyped, QueuesTyped', CountersTyped, CountersTyped', Backed, credit' = credit,
           \A c \in Campaigns, w \in Windows :
               redis'[c][w] + Pending(c, w)' <= redis[c][w] + Pending(c, w)
    PROVE  Backed'
<1> SUFFICES ASSUME NEW c \in Campaigns, NEW w \in Windows, credit[c] # Ceiling
             PROVE  redis'[c][w] + Pending(c, w)' <= credit[c]
  BY DEF Backed
<1>1. Pending(c, w) \in Nat
  BY QueuedNat
<1>2. Pending(c, w)' \in Nat
  <2>1. Occurs(flush', <<c, "d">>) \in Nat /\ Occurs(wq', <<c, "d">>) \in Nat
    BY OccursNat DEF QueuesTyped
  <2>2. Occurs(rq', c) \in Nat
    BY OccursNat DEF QueuesTyped
  <2>3. InJob(c, w)' \in Nat
    BY DEF InJob
  <2>4. QED BY <2>1, <2>2, <2>3 DEF Queued, Pending
<1>3. redis[c][w] \in Int /\ redis'[c][w] \in Int /\ credit[c] \in Int
  BY CountsFacts DEF CountersTyped
<1>4. redis[c][w] + Pending(c, w) <= credit[c]
  BY DEF Backed
<1>5. QED BY <1>1, <1>2, <1>3, <1>4

(* Campaigns that get an increment on its way get the credit for it.       *)
LEMMA CreditStep ==
    ASSUME QueuesTyped, CountersTyped, Backed, redis' = redis, NEW D \in SUBSET Campaigns,
           credit' = [c \in Campaigns |-> IF c \in D THEN UpOne(credit[c]) ELSE credit[c]],
           \A c \in Campaigns, w \in Windows :
               /\ Pending(c, w)' \in Nat
               /\ Pending(c, w)' <= Pending(c, w) + (IF c \in D THEN 1 ELSE 0)
    PROVE  /\ credit' \in [Campaigns -> 0..Ceiling]
           /\ \A c \in Campaigns : credit[c] <= credit'[c]
           /\ Backed'
<1>1. ASSUME NEW c \in Campaigns
      PROVE  /\ credit[c] \in 0..Ceiling /\ credit'[c] \in 0..Ceiling /\ credit[c] <= credit'[c]
             /\ credit'[c] # Ceiling => /\ credit[c] # Ceiling
                                        /\ credit'[c] = credit[c] + (IF c \in D THEN 1 ELSE 0)
  <2>1. credit[c] \in 0..Ceiling /\ Ceiling \in Nat
    BY CountsFacts DEF CountersTyped
  <2>2. CASE c \in D
    <3>1. credit'[c] = UpOne(credit[c])
      BY <2>2
    <3>2. QED BY <2>1, <2>2, <3>1 DEF UpOne
  <2>3. CASE c \notin D
    <3>1. credit'[c] = credit[c]
      BY <2>3
    <3>2. QED BY <2>1, <2>3, <3>1
  <2>4. QED BY <2>2, <2>3
<1>2. credit' \in [Campaigns -> 0..Ceiling]
  BY <1>1
<1>3. Backed'
  <2> SUFFICES ASSUME NEW c \in Campaigns, NEW w \in Windows, credit'[c] # Ceiling
               PROVE  redis'[c][w] + Pending(c, w)' <= credit'[c]
    BY DEF Backed
  <2> DEFINE one == IF c \in D THEN 1 ELSE 0
  <2>1. Pending(c, w) \in Nat /\ Pending(c, w)' \in Nat /\ Pending(c, w)' <= Pending(c, w) + one
    BY QueuedNat
  <2>2. redis[c][w] \in Int /\ credit[c] \in Int /\ one \in Int
    BY CountsFacts DEF CountersTyped
  <2>3. credit'[c] = credit[c] + one /\ redis[c][w] + Pending(c, w) <= credit[c]
    BY <1>1 DEF Backed
  <2> HIDE DEF one
  <2>4. QED BY <2>1, <2>2, <2>3
<1>4. QED BY <1>1, <1>2, <1>3

(* A win's event is dropped or is on its way, and has its credit.          *)
LEMMA WinStep ==
    ASSUME Inv, NEW c \in Campaigns, Win(c)
    PROVE  Inv'
<1> USE DEF Inv
<1>1. /\ UNCHANGED <<redis, up, cache, reply, flush, wq, job>> /\ UNCHANGED check
      /\ TryRecord(c) /\ credit' = [credit EXCEPT ![c] = UpOne(credit[c])]
  BY DEF Win, check
<1>2. /\ rq' \in Seq(Campaigns) /\ Len(rq') <= RecorderQueue
      /\ \A d \in Campaigns : /\ Occurs(rq', d) \in Nat
                              /\ Occurs(rq', d) <= Occurs(rq, d) + (IF d = c THEN 1 ELSE 0)
  BY <1>1, RecordStep
<1>3. QueuesTyped' /\ ChecksTyped'
  BY <1>1, <1>2, ChecksKept DEF QueuesTyped
<1>4. ASSUME NEW d \in Campaigns, NEW w \in Windows
      PROVE  /\ Pending(d, w)' \in Nat
             /\ Pending(d, w)' <= Pending(d, w) + (IF d \in {c} THEN 1 ELSE 0)
  <2>1. /\ Pending(d, w) = Occurs(flush, <<d, "d">>) + Occurs(wq, <<d, "d">>)
                              + Occurs(rq, d) + InJob(d, w)
        /\ Pending(d, w)' = Occurs(flush, <<d, "d">>) + Occurs(wq, <<d, "d">>)
                              + Occurs(rq', d) + InJob(d, w)
    BY <1>1 DEF Pending, Queued, InJob
  <2>2. /\ Occurs(flush, <<d, "d">>) \in Nat /\ Occurs(wq, <<d, "d">>) \in Nat
        /\ Occurs(rq, d) \in Nat /\ Occurs(rq', d) \in Nat /\ InJob(d, w) \in Nat
    BY <1>2, OccursNat DEF QueuesTyped, InJob
  <2> HIDE DEF Inv
  <2>3. QED BY <1>2, <2>1, <2>2
<1>5. credit' = [d \in Campaigns |-> IF d \in {c} THEN UpOne(credit[d]) ELSE credit[d]]
  BY <1>1 DEF CountersTyped
<1>6. /\ credit' \in [Campaigns -> 0..Ceiling] /\ \A d \in Campaigns : credit[d] <= credit'[d]
      /\ Backed'
  BY <1>1, <1>4, <1>5, CreditStep
<1>7. CountersTyped' /\ CountsExplained'
  BY <1>1, <1>6, ExplainedKept
<1>8. QED BY <1>1, <1>3, <1>6, <1>7

(* The eviction listener sends one day operation for each campaign that    *)
(* was cached, and none for the others.                                    *)
LEMMA OperationsOf ==
    ASSUME NEW d \in SUBSET Campaigns, NEW order \in SetToSeqs(d)
    PROVE  /\ Operations(order) \in Seq(Ops)
           /\ \A c \in Campaigns :
                 Occurs(Operations(order), <<c, "d">>) <= IF c \in d THEN 1 ELSE 0
<1> DEFINE n == Cardinality(d)
           ops == Operations(order)
<1>1. n \in Nat /\ order \in [1..n -> d] /\ Len(order) = n
      /\ \A i, j \in 1..n : i # j => order[i] # order[j]
  <2>1. IsFiniteSet(d)
    BY FS_Subset, CapAssumption
  <2>2. n \in Nat
    BY <2>1, FS_CardinalityType
  <2>3. order \in [1..n -> d] /\ \A i, j \in 1..n : i # j => order[i] # order[j]
    BY DEF SetToSeqs
  <2>4. order \in Seq(d) /\ Len(order) = n
    BY <2>2, <2>3
  <2>5. QED BY <2>2, <2>3, <2>4
<1> HIDE DEF n
<1>2. \A i \in 1..(2 * n) : (i + 1) \div 2 \in 1..n
  BY <1>1
<1>3. ops = [i \in 1..(2 * n) |-> <<order[(i + 1) \div 2], IF i % 2 = 1 THEN "d" ELSE "h">>]
  BY <1>1 DEF Operations
<1>4. ops \in [1..(2 * n) -> Ops]
  <2>1. \A i \in 1..(2 * n) :
           <<order[(i + 1) \div 2], IF i % 2 = 1 THEN "d" ELSE "h">> \in Ops
    BY <1>1, <1>2 DEF Ops, Windows
  <2>2. QED BY <1>3, <2>1
<1>5. ops \in Seq(Ops) /\ Len(ops) = 2 * n
  <2>1. 2 * n \in Nat
    BY <1>1
  <2>2. QED BY <1>4, <2>1
<1>6. ASSUME NEW c \in Campaigns
      PROVE  Occurs(ops, <<c, "d">>) <= IF c \in d THEN 1 ELSE 0
  <2> DEFINE P == Places(ops, <<c, "d">>)
  <2>1. \A i \in P : i \in 1..(2 * n) /\ i % 2 = 1 /\ order[(i + 1) \div 2] = c
    <3>1. SUFFICES ASSUME NEW i \in P PROVE i \in 1..(2 * n) /\ i % 2 = 1 /\ order[(i + 1) \div 2] = c
      OBVIOUS
    <3>2. i \in 1..(2 * n) /\ ops[i] = <<c, "d">>
      BY <1>5 DEF Places
    <3>3. ops[i] = <<order[(i + 1) \div 2], IF i % 2 = 1 THEN "d" ELSE "h">>
      BY <1>3, <3>2
    <3>4. order[(i + 1) \div 2] = c /\ (IF i % 2 = 1 THEN "d" ELSE "h") = "d"
      BY <3>2, <3>3
    <3>5. i % 2 = 1
      BY <3>4
    <3>6. QED BY <3>2, <3>4, <3>5
  <2>2. \A i, j \in P : i = j
    <3>1. SUFFICES ASSUME NEW i \in P, NEW j \in P PROVE i = j
      OBVIOUS
    <3>2. /\ i \in 1..(2 * n) /\ i % 2 = 1 /\ j \in 1..(2 * n) /\ j % 2 = 1
          /\ order[(i + 1) \div 2] = order[(j + 1) \div 2]
      BY <2>1
    <3>3. (i + 1) \div 2 = (j + 1) \div 2
      BY <1>1, <1>2, <3>2
    <3>4. QED BY <1>1, <3>2, <3>3
  <2>3. P # {} => c \in d
    BY <1>1, <1>2, <2>1
  <2>4. CASE P = {}
    BY <2>4, FS_EmptySet DEF Occurs
  <2>5. CASE P # {}
    <3>1. PICK i \in P : P = {i}
      BY <2>2, <2>5
    <3>2. Cardinality(P) = 1
      BY <3>1, FS_Singleton
    <3>3. QED BY <2>3, <2>5, <3>2 DEF Occurs
  <2>6. QED BY <2>4, <2>5
<1>7. QED BY <1>5, <1>6

(* moka evicts the user: a day and an hour operation are on their way for  *)
(* each campaign, and one impression is credited to it.                    *)
LEMMA EvictStep ==
    ASSUME Inv, Evict
    PROVE  Inv'
<1> USE DEF Inv
<1> DEFINE d == DOMAIN cache
<1>1. /\ UNCHANGED <<redis, up, reply, wq, rq, job>> /\ UNCHANGED check
      /\ flush = <<>> /\ cache' = Empty
      /\ credit' = [c \in Campaigns |-> IF c \in d THEN UpOne(credit[c]) ELSE credit[c]]
  BY DEF Evict, check
<1>2. PICK order \in SetToSeqs(d) : flush' = Operations(order)
  BY DEF Evict
<1>3. d \in SUBSET Campaigns
  BY MapOut DEF CountersTyped
<1> HIDE DEF d
<1>4. /\ flush' \in Seq(Ops)
      /\ \A c \in Campaigns : Occurs(flush', <<c, "d">>) <= IF c \in d THEN 1 ELSE 0
  BY <1>2, <1>3, OperationsOf
<1>5. QueuesTyped' /\ ChecksTyped'
  BY <1>1, <1>4, ChecksKept DEF QueuesTyped
<1>6. ASSUME NEW c \in Campaigns, NEW w \in Windows
      PROVE  /\ Pending(c, w)' \in Nat
             /\ Pending(c, w)' <= Pending(c, w) + (IF c \in d THEN 1 ELSE 0)
  <2>1. /\ Pending(c, w) = Occurs(flush, <<c, "d">>) + Occurs(wq, <<c, "d">>)
                              + Occurs(rq, c) + InJob(c, w)
        /\ Pending(c, w)' = Occurs(flush', <<c, "d">>) + Occurs(wq, <<c, "d">>)
                              + Occurs(rq, c) + InJob(c, w)
    BY <1>1 DEF Pending, Queued, InJob
  <2>2. /\ Occurs(flush, <<c, "d">>) \in Nat /\ Occurs(wq, <<c, "d">>) \in Nat
        /\ Occurs(rq, c) \in Nat /\ Occurs(flush', <<c, "d">>) \in Nat /\ InJob(c, w) \in Nat
    BY <1>4, OccursNat DEF QueuesTyped, InJob
  <2> HIDE DEF Inv
  <2>3. Occurs(flush', <<c, "d">>) <= IF c \in d THEN 1 ELSE 0
    BY <1>4, ZenonT(30)
  <2>4. QED BY <2>1, <2>2, <2>3
<1>7. /\ credit' \in [Campaigns -> 0..Ceiling] /\ \A c \in Campaigns : credit[c] <= credit'[c]
      /\ Backed'
  BY <1>1, <1>3, <1>6, CreditStep
<1>8. CountersTyped'
  BY <1>1, <1>7, EmptyMap DEF CountersTyped
<1>9. CountsExplained'
  <2>1. ASSUME NEW c \in Campaigns, NEW w \in Windows
        PROVE  /\ redis[c][w] <= credit'[c]
               /\ \A k \in Checkers : c \in DOMAIN reply[k] => reply[k][c][w] <= credit'[c]
    <3>1. credit[c] \in Int /\ credit'[c] \in Int /\ credit[c] <= credit'[c]
      BY <1>7 DEF CountersTyped
    <3>2. redis[c][w] \in Int
      BY CountsFacts DEF CountersTyped
    <3>3. \A k \in Checkers : c \in DOMAIN reply[k] => reply[k][c][w] \in Int
      BY CountsFacts, MapOut DEF ChecksTyped
    <3>4. QED BY <3>1, <3>2, <3>3 DEF CountsExplained
  <2>2. QED BY <1>1, <2>1, EmptyMap DEF CountsExplained
<1>10. QED BY <1>1, <1>5, <1>7, <1>8, <1>9

(* The listener's try_send: into the write-behind channel or dropped.      *)
LEMMA FlushStep ==
    ASSUME Inv, FlushSend
    PROVE  Inv'
<1> USE DEF Inv
<1>1. /\ UNCHANGED <<redis, up, cache, rq, job, credit, reply>> /\ UNCHANGED check
      /\ flush # <<>> /\ flush' = Tail(flush)
      /\ wq' = IF Len(wq) < WriteBuffer THEN Append(wq, Head(flush)) ELSE wq
  BY DEF FlushSend, check
<1>2. flush \in Seq(Ops) /\ wq \in Seq(Ops) /\ Len(wq) <= WriteBuffer /\ WriteBuffer \in Nat
  BY CapAssumption DEF QueuesTyped
<1>3. Head(flush) \in Ops /\ Tail(flush) \in Seq(Ops)
  BY <1>1, <1>2
<1>4. wq' \in Seq(Ops) /\ Len(wq') <= WriteBuffer
  BY <1>1, <1>2, <1>3
<1>5. QueuesTyped' /\ ChecksTyped'
  BY <1>1, <1>3, <1>4, ChecksKept DEF QueuesTyped
<1>6. CountersTyped' /\ CountsExplained'
  BY <1>1 DEF CountersTyped, CountsExplained
<1>7. ASSUME NEW c \in Campaigns, NEW w \in Windows
      PROVE  redis'[c][w] + Pending(c, w)' <= redis[c][w] + Pending(c, w)
  <2> DEFINE x == <<c, "d">>
             one == IF Head(flush) = x THEN 1 ELSE 0
  <2>1. Occurs(flush, x) = Occurs(Tail(flush), x) + one
    BY <1>1, <1>2, OccursTail
  <2>2. Occurs(wq', x) = Occurs(wq, x) + one \/ Occurs(wq', x) = Occurs(wq, x)
    <3>1. Occurs(Append(wq, Head(flush)), x) = Occurs(wq, x) + one
      BY <1>2, <1>3, OccursAppend
    <3>2. wq' = wq \/ wq' = Append(wq, Head(flush))
      BY <1>1
    <3>3. QED BY <3>1, <3>2
  <2>3. /\ Occurs(flush, x) \in Nat /\ Occurs(Tail(flush), x) \in Nat /\ one \in Nat
        /\ Occurs(wq, x) \in Nat /\ Occurs(wq', x) \in Nat
        /\ Occurs(rq, c) \in Nat /\ InJob(c, w) \in Nat /\ redis[c][w] \in Int
    <3>1. Occurs(flush, x) \in Nat /\ Occurs(Tail(flush), x) \in Nat
      BY <1>2, <1>3, OccursNat
    <3>2. Occurs(wq, x) \in Nat /\ Occurs(wq', x) \in Nat
      BY <1>2, <1>4, OccursNat
    <3>3. Occurs(rq, c) \in Nat
      BY OccursNat DEF QueuesTyped
    <3>4. redis[c][w] \in Int
      BY CountsFacts DEF CountersTyped
    <3>5. InJob(c, w) \in Nat /\ one \in Nat
      BY DEF InJob
    <3>6. QED BY <3>1, <3>2, <3>3, <3>4, <3>5
  <2>4. /\ Pending(c, w) = Occurs(flush, x) + Occurs(wq, x) + Occurs(rq, c) + InJob(c, w)
        /\ Pending(c, w)' = Occurs(Tail(flush), x) + Occurs(wq', x) + Occurs(rq, c) + InJob(c, w)
        /\ redis' = redis
    BY <1>1 DEF Pending, Queued, InJob
  <2> HIDE DEF Inv, one, x
  <2>5. QED BY <2>1, <2>2, <2>3, <2>4
<1>8. Backed'
  BY <1>1, <1>5, <1>6, <1>7, BackedBy
<1>9. QED BY <1>1, <1>5, <1>6, <1>8

(* The drain forwards a day operation as one impression, or drops it.      *)
LEMMA DrainStep ==
    ASSUME Inv, Drain
    PROVE  Inv'
<1> USE DEF Inv
<1> DEFINE op == Head(wq)
<1>1. /\ UNCHANGED <<redis, up, cache, flush, job, credit, reply>> /\ UNCHANGED check
      /\ wq # <<>> /\ wq' = Tail(wq)
      /\ IF op[2] = "d" THEN TryRecord(op[1]) ELSE UNCHANGED rq
  BY DEF Drain, check
<1>2. wq \in Seq(Ops) /\ Len(wq) <= WriteBuffer /\ WriteBuffer \in Nat /\ rq \in Seq(Campaigns)
  BY CapAssumption DEF QueuesTyped
<1>3. op \in Ops /\ Tail(wq) \in Seq(Ops) /\ Len(Tail(wq)) <= WriteBuffer
  BY <1>1, <1>2
<1>4. op[1] \in Campaigns /\ op = <<op[1], op[2]>>
  BY <1>3 DEF Ops
<1> HIDE DEF op
<1>5. /\ rq' \in Seq(Campaigns) /\ Len(rq') <= RecorderQueue
      /\ \A c \in Campaigns :
            Occurs(rq', c) <= Occurs(rq, c) + (IF op = <<c, "d">> THEN 1 ELSE 0)
  <2>1. CASE op[2] = "d"
    <3>1. TryRecord(op[1])
      BY <1>1, <2>1
    <3>2. /\ rq' \in Seq(Campaigns) /\ Len(rq') <= RecorderQueue
          /\ \A c \in Campaigns : Occurs(rq', c) <= Occurs(rq, c) + (IF c = op[1] THEN 1 ELSE 0)
      BY <1>4, <3>1, RecordStep
    <3>3. \A c \in Campaigns : c = op[1] <=> op = <<c, "d">>
      BY <1>4, <2>1
    <3>4. QED BY <3>2, <3>3
  <2>2. CASE op[2] # "d"
    <3>1. \A c \in Campaigns : op # <<c, "d">> /\ Occurs(rq, c) \in Nat
      BY <1>2, <1>4, <2>2, OccursNat
    <3>2. rq' = rq
      BY <1>1, <2>2
    <3>3. QED BY <3>1, <3>2 DEF QueuesTyped
  <2>3. QED BY <2>1, <2>2
<1>6. QueuesTyped' /\ ChecksTyped'
  BY <1>1, <1>3, <1>5, ChecksKept DEF QueuesTyped
<1>7. CountersTyped' /\ CountsExplained'
  BY <1>1 DEF CountersTyped, CountsExplained
<1>8. ASSUME NEW c \in Campaigns, NEW w \in Windows
      PROVE  redis'[c][w] + Pending(c, w)' <= redis[c][w] + Pending(c, w)
  <2> DEFINE x == <<c, "d">>
             one == IF op = x THEN 1 ELSE 0
  <2>1. Occurs(wq, x) = Occurs(Tail(wq), x) + one
    BY <1>1, <1>2, OccursTail DEF op
  <2>2. Occurs(rq', c) <= Occurs(rq, c) + one
    BY <1>5
  <2>3. Occurs(flush, x) \in Nat
    BY OccursNat DEF QueuesTyped
  <2>4. Occurs(wq, x) \in Nat /\ Occurs(Tail(wq), x) \in Nat
    BY <1>2, <1>3, OccursNat
  <2>5. Occurs(rq, c) \in Nat /\ Occurs(rq', c) \in Nat
    BY <1>2, <1>5, OccursNat
  <2>6. redis[c][w] \in Int
    BY CountsFacts DEF CountersTyped
  <2>7. InJob(c, w) \in Nat /\ one \in Nat
    BY DEF InJob
  <2>8. /\ Pending(c, w) = Occurs(flush, x) + Occurs(wq, x) + Occurs(rq, c) + InJob(c, w)
        /\ Pending(c, w)' = Occurs(flush, x) + Occurs(Tail(wq), x) + Occurs(rq', c) + InJob(c, w)
        /\ redis' = redis
    BY <1>1 DEF Pending, Queued, InJob
  <2> HIDE DEF Inv, one, x
  <2>9. QED BY <2>1, <2>2, <2>3, <2>4, <2>5, <2>6, <2>7, <2>8
<1>9. Backed'
  BY <1>1, <1>6, <1>7, <1>8, BackedBy, ZenonT(30)
<1>10. QED BY <1>1, <1>6, <1>7, <1>9, ZenonT(30)

(* The worker takes an impression: one increment of each window.           *)
LEMMA ReceiveStep ==
    ASSUME Inv, Receive
    PROVE  Inv'
<1> USE DEF Inv
<1>1. /\ UNCHANGED <<redis, up, cache, flush, wq, credit, reply>> /\ UNCHANGED check
      /\ job = NoJob /\ rq # <<>> /\ rq' = Tail(rq)
      /\ job' = [campaign |-> Head(rq), todo |-> <<"h", "d">>]
  BY DEF Receive, check
<1>2. rq \in Seq(Campaigns) /\ Len(rq) <= RecorderQueue /\ RecorderQueue \in Nat
  BY CapAssumption DEF QueuesTyped
<1>3. Head(rq) \in Campaigns /\ Tail(rq) \in Seq(Campaigns) /\ Len(Tail(rq)) <= RecorderQueue
  BY <1>1, <1>2
<1>4. job' \in Jobs
  BY <1>1, <1>3 DEF Jobs
<1>5. QueuesTyped' /\ ChecksTyped'
  BY <1>1, <1>3, <1>4, ChecksKept, ZenonT(30) DEF QueuesTyped
<1>6. CountersTyped' /\ CountsExplained'
  BY <1>1 DEF CountersTyped, CountsExplained
<1>7. ASSUME NEW c \in Campaigns, NEW w \in Windows
      PROVE  redis'[c][w] + Pending(c, w)' <= redis[c][w] + Pending(c, w)
  <2> DEFINE x == <<c, "d">>
             one == IF Head(rq) = c THEN 1 ELSE 0
  <2>1. Occurs(rq, c) = Occurs(Tail(rq), c) + one
    BY <1>1, <1>2, OccursTail
  <2>2. InJob(c, w) = 0 /\ InJob(c, w)' <= one /\ InJob(c, w)' \in Nat /\ one \in Nat
    BY <1>1 DEF InJob
  <2>3. Occurs(flush, x) \in Nat /\ Occurs(wq, x) \in Nat
    BY OccursNat DEF QueuesTyped
  <2>4. Occurs(rq, c) \in Nat /\ Occurs(Tail(rq), c) \in Nat
    BY <1>2, <1>3, OccursNat
  <2>5. redis[c][w] \in Int
    BY CountsFacts DEF CountersTyped
  <2>6. /\ Pending(c, w) = Occurs(flush, x) + Occurs(wq, x) + Occurs(rq, c) + InJob(c, w)
        /\ Pending(c, w)' = Occurs(flush, x) + Occurs(wq, x) + Occurs(Tail(rq), c) + InJob(c, w)'
        /\ redis' = redis
    BY <1>1 DEF Pending, Queued
  <2> HIDE DEF Inv, one, x
  <2>7. QED BY <2>1, <2>2, <2>3, <2>4, <2>5, <2>6
<1>8. Backed'
  BY <1>1, <1>5, <1>6, <1>7, BackedBy
<1>9. QED BY <1>1, <1>5, <1>6, <1>8, ZenonT(30)

(* The lists of windows a worker goes through.                             *)
LEMMA TodoFacts ==
    /\ Head(<<"d">>) = "d" /\ Len(<<"d">>) = 1 /\ <<"d">> # <<>>
    /\ Head(<<"h", "d">>) = "h" /\ Len(<<"h", "d">>) = 2 /\ Tail(<<"h", "d">>) = <<"d">>
    /\ <<"h", "d">> # <<>> /\ <<"h", "d">> # <<"d">>
OBVIOUS

(* A backed counter is explained, now and after the step.                  *)
LEMMA BackedExplains ==
    ASSUME QueuesTyped', CountersTyped', Backed', NEW c \in Campaigns, NEW w \in Windows
    PROVE  redis'[c][w] <= credit'[c]
<1>1. Pending(c, w)' \in Nat
  <2>1. Occurs(flush', <<c, "d">>) \in Nat /\ Occurs(wq', <<c, "d">>) \in Nat
    BY OccursNat DEF QueuesTyped
  <2>2. Occurs(rq', c) \in Nat
    BY OccursNat DEF QueuesTyped
  <2>3. InJob(c, w)' \in Nat
    BY DEF InJob
  <2>4. QED BY <2>1, <2>2, <2>3 DEF Queued, Pending
<1>2. redis'[c][w] \in 0..Ceiling /\ credit'[c] \in 0..Ceiling /\ Ceiling \in Nat
  BY CountsFacts DEF CountersTyped
<1>3. credit'[c] = Ceiling \/ redis'[c][w] + Pending(c, w)' <= credit'[c]
  BY DEF Backed
<1>4. QED BY <1>1, <1>2, <1>3

(* Redis changes and nothing a check holds does.                           *)
LEMMA RedisStep ==
    ASSUME Inv, UNCHANGED <<up, cache, credit, reply>>, UNCHANGED check,
           QueuesTyped', CountersTyped',
           \A c \in Campaigns, w \in Windows :
               redis'[c][w] + Pending(c, w)' <= redis[c][w] + Pending(c, w)
    PROVE  Inv'
<1> USE DEF Inv
<1>1. Backed'
  BY BackedBy
<1>2. ChecksTyped'
  BY ChecksKept
<1>3. CountsExplained'
  <2>1. \A c \in Campaigns, w \in Windows : redis'[c][w] <= credit'[c]
    BY <1>1, BackedExplains
  <2>2. QED BY <2>1 DEF CountsExplained
<1>4. QED BY <1>1, <1>2, <1>3

(* One EVAL: the counter goes up by one or not, the increment is done.     *)
LEMMA WriteStep ==
    ASSUME Inv, NEW ok \in BOOLEAN, WriteCounter(ok)
    PROVE  Inv'
<1> USE DEF Inv
<1> DEFINE c == job.campaign
           w == Head(job.todo)
           up1 == UpOne(redis[c][w])
<1>1. /\ UNCHANGED <<up, cache, flush, wq, rq, credit, reply>> /\ UNCHANGED check
      /\ job # NoJob
      /\ redis' = redis \/ redis' = [redis EXCEPT ![c] = [redis[c] EXCEPT ![w] = up1]]
      /\ job' = IF Len(job.todo) = 1 THEN NoJob ELSE [campaign |-> c, todo |-> Tail(job.todo)]
  BY DEF WriteCounter, check
<1>2. /\ c \in Campaigns /\ job.todo \in {<<"h", "d">>, <<"d">>}
      /\ job = [campaign |-> c, todo |-> job.todo]
  BY <1>1 DEF QueuesTyped, Jobs
<1>3. w \in Windows
  BY <1>2, TodoFacts DEF Windows
<1>4. /\ job.todo = <<"d">> => w = "d" /\ job' = NoJob
      /\ job.todo = <<"h", "d">> => w = "h" /\ job' = [campaign |-> c, todo |-> <<"d">>]
  <2>1. CASE job.todo = <<"d">>
    BY <1>1, <2>1, TodoFacts
  <2>2. CASE job.todo = <<"h", "d">>
    <3>1. Len(job.todo) # 1 /\ Tail(job.todo) = <<"d">> /\ w = "h"
      BY <2>2, TodoFacts
    <3>2. QED BY <1>1, <2>2, <3>1, TodoFacts
  <2>3. QED BY <1>2, <2>1, <2>2
<1>5. job' \in Jobs
  BY <1>2, <1>4 DEF Jobs
<1>6. QueuesTyped'
  BY <1>1, <1>5 DEF QueuesTyped
<1>7. redis[c] \in Counts /\ redis[c][w] \in 0..Ceiling
  BY <1>2, <1>3, CountsFacts DEF CountersTyped
<1>8. up1 \in 0..Ceiling /\ up1 <= redis[c][w] + 1
  BY <1>7, UpOneFacts
<1> HIDE DEF up1
<1>9. [redis[c] EXCEPT ![w] = up1] \in Counts
  BY <1>7, <1>8 DEF Counts
<1>10. CountersTyped'
  BY <1>1, <1>2, <1>9, ZenonT(30) DEF CountersTyped
<1>11. ASSUME NEW d \in Campaigns, NEW x \in Windows
       PROVE  redis'[d][x] + Pending(d, x)' <= redis[d][x] + Pending(d, x)
  <2>1. /\ Pending(d, x) = Queued(d) + InJob(d, x)
        /\ Pending(d, x)' = Queued(d) + InJob(d, x)'
    BY <1>1 DEF Pending, Queued
  <2>2. Queued(d) \in Nat /\ redis[d][x] \in Int /\ redis'[d][x] \in Int
    BY <1>10, QueuedNat, CountsFacts DEF CountersTyped
  <2>3. CASE d = c /\ x = w
    <3>1. redis'[d][x] <= redis[d][x] + 1
      <4>1. CASE redis' = redis
        BY <2>2, <4>1
      <4>2. CASE redis' = [redis EXCEPT ![c] = [redis[c] EXCEPT ![w] = up1]]
        <5>1. redis'[c] = [redis[c] EXCEPT ![w] = up1]
          BY <1>2, <4>2 DEF CountersTyped
        <5>2. redis'[c][w] = up1
          BY <1>3, <1>7, <5>1 DEF Counts
        <5>3. QED BY <1>8, <2>3, <5>2
      <4>3. QED BY <1>1, <4>1, <4>2
    <3>2. InJob(d, x) = 1
      BY <1>1, <1>2, <1>4, <2>3 DEF InJob
    <3>3. InJob(d, x)' = 0
      <4>1. job'.todo # <<"h", "d">> /\ (job' = NoJob \/ x # "d")
        BY <1>2, <1>4, <2>3, TodoFacts DEF NoJob
      <4>2. QED BY <4>1 DEF InJob
    <3> HIDE DEF Inv
    <3>4. QED BY <2>1, <2>2, <3>1, <3>2, <3>3
  <2>4. CASE ~(d = c /\ x = w)
    <3>1. redis'[d][x] = redis[d][x]
      <4>1. CASE redis' = redis
        BY <4>1
      <4>2. CASE redis' = [redis EXCEPT ![c] = [redis[c] EXCEPT ![w] = up1]]
        <5>1. /\ d # c => redis'[d] = redis[d]
              /\ d = c => redis'[d] = [redis[d] EXCEPT ![w] = up1]
          BY <1>2, <4>2 DEF CountersTyped
        <5>2. redis[d] \in Counts
          BY DEF CountersTyped
        <5>3. QED BY <2>4, <5>1, <5>2 DEF Counts
      <4>3. QED BY <1>1, <4>1, <4>2
    <3>2. InJob(d, x)' <= InJob(d, x) /\ InJob(d, x) \in Nat /\ InJob(d, x)' \in Nat
      <4>1. InJob(d, x)' = 1 => InJob(d, x) = 1
        BY <1>1, <1>2, <1>4, TodoFacts DEF InJob, NoJob
      <4>2. InJob(d, x)' \in {0, 1} /\ InJob(d, x) \in {0, 1}
        BY DEF InJob
      <4>3. QED BY <4>1, <4>2
    <3> HIDE DEF Inv
    <3>3. QED BY <2>1, <2>2, <3>1, <3>2
  <2>5. QED BY <2>3, <2>4
<1>12. QED BY <1>1, <1>6, <1>10, <1>11, RedisStep, ZenonT(30)

(* An EVAL that is sent again raises a counter, and has its credit.        *)
LEMMA AgainStep ==
    ASSUME Inv, WriteCounterAgain
    PROVE  Inv'
<1> USE DEF Inv
<1>1. /\ UNCHANGED <<up, cache, flush, wq, rq, job, reply>> /\ UNCHANGED check
      /\ job # NoJob
  BY DEF WriteCounterAgain, check, queues
<1>2. job.campaign \in Campaigns /\ Head(job.todo) \in Windows
  BY <1>1, TodoFacts DEF QueuesTyped, Jobs, Windows
<1>3. PICK c \in Campaigns, w \in Windows : c = job.campaign /\ w = Head(job.todo)
  BY <1>2
<1>4. PICK n : n = UpOne(redis[c][w])
  OBVIOUS
<1>5. /\ redis' = [redis EXCEPT ![c] = [redis[c] EXCEPT ![w] = n]]
      /\ credit' = [credit EXCEPT ![c] = UpOne(credit[c])]
  BY <1>3, <1>4 DEF WriteCounterAgain
<1>6. redis[c] \in Counts /\ redis[c][w] \in 0..Ceiling
  BY CountsFacts DEF CountersTyped
<1>7. n \in 0..Ceiling /\ n <= redis[c][w] + 1
  BY <1>4, <1>6, UpOneFacts
<1>8. [redis[c] EXCEPT ![w] = n] \in Counts
  BY <1>6, <1>7 DEF Counts
<1>9. ASSUME NEW d \in Campaigns
      PROVE  /\ credit[d] \in 0..Ceiling /\ credit'[d] \in 0..Ceiling /\ credit[d] <= credit'[d]
             /\ d = c => credit'[d] = Ceiling \/ credit'[d] = credit[d] + 1
             /\ d # c => credit'[d] = credit[d]
  <2>1. credit[d] \in 0..Ceiling /\ Ceiling \in Nat
    BY CountsFacts DEF CountersTyped
  <2>2. CASE d = c
    <3>1. credit'[d] = UpOne(credit[d])
      BY <1>5, <2>2 DEF CountersTyped
    <3>2. QED BY <2>1, <2>2, <3>1, UpOneFacts
  <2>3. CASE d # c
    <3>1. credit'[d] = credit[d]
      BY <1>5, <2>3 DEF CountersTyped
    <3>2. QED BY <2>1, <2>3, <3>1
  <2>4. QED BY <2>2, <2>3
<1>10. CountersTyped'
  <2>1. redis' \in [Campaigns -> Counts]
    BY <1>5, <1>8 DEF CountersTyped
  <2>2. credit' \in [Campaigns -> 0..Ceiling]
    BY <1>5, <1>9 DEF CountersTyped
  <2>3. QED BY <1>1, <2>1, <2>2 DEF CountersTyped
<1>11. QueuesTyped' /\ ChecksTyped'
  BY <1>1, ChecksKept DEF QueuesTyped
<1>12. Backed'
  <2> SUFFICES ASSUME NEW d \in Campaigns, NEW x \in Windows, credit'[d] # Ceiling
               PROVE  redis'[d][x] + Pending(d, x)' <= credit'[d]
    BY DEF Backed
  <2>1. Pending(d, x)' = Pending(d, x) /\ Pending(d, x) \in Nat
    BY <1>1, QueuedNat DEF Pending, Queued, InJob
  <2>2. redis[d][x] \in Int /\ redis'[d][x] \in Int /\ credit[d] \in Int /\ credit'[d] \in Int
    BY <1>10, CountsFacts DEF CountersTyped
  <2>3. credit[d] # Ceiling
    BY <1>9, CapAssumption
  <2>4. redis[d][x] + Pending(d, x) <= credit[d]
    BY <2>3 DEF Backed
  <2>5. CASE d = c
    <3>1. redis'[d] = [redis[d] EXCEPT ![w] = n]
      BY <1>5, <2>5 DEF CountersTyped
    <3>2. redis'[d][x] = redis[d][x] \/ (x = w /\ redis'[d][x] = n)
      BY <1>6, <2>5, <3>1 DEF Counts
    <3>3. redis'[d][x] <= redis[d][x] + 1
      BY <1>7, <2>2, <2>5, <3>2
    <3>4. credit'[d] = credit[d] + 1
      BY <1>9, <2>5
    <3> HIDE DEF Inv
    <3>5. QED BY <2>1, <2>2, <2>4, <3>3, <3>4
  <2>6. CASE d # c
    <3>1. redis'[d] = redis[d] /\ credit'[d] = credit[d]
      BY <1>5, <1>9, <2>6 DEF CountersTyped
    <3>2. QED BY <2>1, <2>4, <3>1
  <2>7. QED BY <2>5, <2>6
<1>13. CountsExplained'
  <2> SUFFICES ASSUME NEW d \in Campaigns, NEW x \in Windows
               PROVE  /\ redis'[d][x] <= credit'[d]
                      /\ d \in DOMAIN cache => cache[d][x] <= credit'[d]
                      /\ \A k \in Checkers : d \in DOMAIN reply[k] => reply[k][d][x] <= credit'[d]
    BY <1>1 DEF CountsExplained
  <2>1. redis'[d][x] <= credit'[d]
    BY <1>10, <1>11, <1>12, BackedExplains
  <2>2. credit[d] \in Int /\ credit'[d] \in Int /\ credit[d] <= credit'[d]
    BY <1>9
  <2>3. ASSUME d \in DOMAIN cache
        PROVE  cache[d][x] <= credit'[d]
    <3>1. cache[d][x] \in Int /\ cache[d][x] <= credit[d]
      BY <2>3, MapOut, CountsFacts DEF CountersTyped, CountsExplained
    <3>2. QED BY <2>2, <3>1
  <2>4. ASSUME NEW k \in Checkers, d \in DOMAIN reply[k]
        PROVE  reply[k][d][x] <= credit'[d]
    <3>1. reply[k][d][x] \in Int /\ reply[k][d][x] <= credit[d]
      BY <2>4, MapOut, CountsFacts DEF ChecksTyped, CountsExplained
    <3>2. QED BY <2>2, <3>1
  <2>5. QED BY <2>1, <2>3, <2>4
<1>14. QED BY <1>1, <1>10, <1>11, <1>12, <1>13

(* A key runs out: its counter falls to zero.                              *)
LEMMA ExpiresStep ==
    ASSUME Inv, NEW c \in Campaigns, NEW w \in Windows, CounterExpires(c, w)
    PROVE  Inv'
<1> USE DEF Inv
<1>1. /\ UNCHANGED <<up, cache, flush, wq, rq, job, credit, reply>> /\ UNCHANGED check
      /\ redis' = [redis EXCEPT ![c] = [redis[c] EXCEPT ![w] = 0]]
  BY DEF CounterExpires, check, queues
<1>2. QueuesTyped'
  BY <1>1 DEF QueuesTyped
<1>3. [redis[c] EXCEPT ![w] = 0] \in Counts
  BY CountsFacts DEF CountersTyped, Counts
<1>4. CountersTyped'
  BY <1>1, <1>3 DEF CountersTyped
<1>5. ASSUME NEW d \in Campaigns, NEW x \in Windows
      PROVE  redis'[d][x] + Pending(d, x)' <= redis[d][x] + Pending(d, x)
  <2>1. Pending(d, x)' = Pending(d, x)
    BY <1>1 DEF Pending, Queued, InJob
  <2>2. Pending(d, x) \in Nat
    BY QueuedNat
  <2>3. redis[d][x] \in 0..Ceiling /\ redis'[d][x] \in 0..Ceiling
    BY <1>4, CountsFacts DEF CountersTyped
  <2>4. redis'[d][x] = 0 \/ redis'[d][x] = redis[d][x]
    BY <1>1, <1>3 DEF CountersTyped, Counts
  <2> HIDE DEF Inv
  <2>5. QED BY <2>1, <2>2, <2>3, <2>4, CountsFacts
<1>6. QED BY <1>1, <1>2, <1>4, <1>5, RedisStep

(* Redis comes and goes.                                                   *)
LEMMA RestStep ==
    ASSUME Inv, RedisChanges \/ UNCHANGED vars
    PROVE  Inv'
<1> USE DEF Inv
<1>1. /\ UNCHANGED <<redis, cache, credit, flush, wq, rq, job, reply>> /\ UNCHANGED check
      /\ up' \in BOOLEAN
  BY DEF RedisChanges, vars, check, queues
<1>2. QueuesTyped' /\ Backed'
  BY <1>1, QueuesKept
<1>3. ChecksTyped'
  BY <1>1, ChecksKept
<1>4. CountersTyped' /\ CountsExplained'
  BY <1>1 DEF CountersTyped, CountsExplained
<1>5. QED BY <1>1, <1>2, <1>3, <1>4

-----------------------------------------------------------------------------
(* Every step keeps it,                                                    *)
LEMMA Inductive == Inv /\ [Next]_vars => Inv'
<1> SUFFICES ASSUME Inv, [Next]_vars PROVE Inv'
  OBVIOUS
<1>1. ASSUME NEW k \in Checkers, Check(k)
      PROVE  Inv'
  <2>1. CASE \/ Begin(k) \/ Refused(k) \/ Unavailable(k) \/ \E c \in Campaigns : LookUp(k, c)
    BY <2>1, LookStep
  <2>2. CASE Mget(k)
    BY <2>2, MgetStep
  <2>3. ASSUME NEW c \in Campaigns, Patch(k, c)
        PROVE  Inv'
    BY <2>3, PatchStep
  <2>4. QED BY <1>1, <2>1, <2>2, <2>3 DEF Check
<1>2. ASSUME NEW c \in Campaigns, Win(c) PROVE Inv'
  BY <1>2, WinStep
<1>3. CASE Evict
  BY <1>3, EvictStep
<1>4. CASE FlushSend
  BY <1>4, FlushStep
<1>5. CASE Drain
  BY <1>5, DrainStep
<1>6. CASE Receive
  BY <1>6, ReceiveStep
<1>7. ASSUME NEW ok \in BOOLEAN, WriteCounter(ok) PROVE Inv'
  BY <1>7, WriteStep
<1>8. ASSUME NEW c \in Campaigns, NEW w \in Windows, CounterExpires(c, w) PROVE Inv'
  BY <1>8, ExpiresStep
<1>9. CASE RedisChanges \/ UNCHANGED vars
  BY <1>9, RestStep
<1>10. CASE WriteCounterAgain
  BY <1>10, AgainStep
<1>11. QED
  BY <1>1, <1>2, <1>3, <1>4, <1>5, <1>6, <1>7, <1>8, <1>9, <1>10, ZenonT(30) DEF Next

(* which so holds in every reachable state.                                *)
LEMMA InvHolds == Spec => []Inv
<1>1. QED BY Initially, Inductive, PTL DEF Spec

(* The variables stay in their types, and the write-behind channel and the *)
(* recorder's channel within their capacities.                             *)
THEOREM FreqCapTypeCorrect == Spec => []TypeOK
<1>1. QED BY InvHolds, InvImplies, PTL

(* Every count in Redis, in moka or in a reply on its way stands for wins  *)
(* and evictions of the user and for EVALs sent twice: no path from a win  *)
(* or an eviction through the two channels to the two EVALs adds one that  *)
(* is not there.                                                           *)
THEOREM CountsAreExplained == Spec => []CountsExplained
<1>1. QED BY InvHolds, InvImplies, PTL

(* Only warm_cache writes to the map of a cached user.                     *)
LEMMA WarmGrows ==
    Inv /\ [Next]_vars =>
        [\A c \in DOMAIN cache \cap DOMAIN cache' : \A w \in Windows :
            cache'[c][w] >= cache[c][w]]_vars
<1> SUFFICES ASSUME Inv, [Next]_vars,
                    NEW c \in DOMAIN cache \cap DOMAIN cache', NEW w \in Windows
             PROVE  cache'[c][w] >= cache[c][w]
  OBVIOUS
<1>1. cache[c][w] \in 0..Ceiling
  BY MapOut, CountsFacts DEF Inv, CountersTyped
<1>2. CASE cache' = cache
  BY <1>1, <1>2
<1>3. ASSUME NEW k \in Checkers, NEW d \in Campaigns, Patch(k, d)
      PROVE  cache'[c][w] >= cache[c][w]
  <2>1. reply[k][d] \in Counts /\ cache \in Maps
    BY <1>3, MapOut DEF Patch, Inv, ChecksTyped, CountersTyped
  <2>2. WarmCache(d, reply[k][d])
    BY <1>3 DEF Patch
  <2>3. /\ \A x \in DOMAIN cache \ {d} : cache'[x] = cache[x]
        /\ d \in DOMAIN cache => cache'[d][w] >= cache[d][w]
    BY <2>1, <2>2, WarmStep
  <2>4. QED BY <1>1, <2>3
<1>4. CASE Evict
  BY <1>4, EmptyMap DEF Evict
<1>5. QED
  BY <1>2, <1>3, <1>4 DEF Next, Check, vars, Begin, Refused, Mget, Unavailable, LookUp, Win,
     FlushSend, Drain, Receive, WriteCounter, WriteCounterAgain, CounterExpires, RedisChanges

(* warm_cache: replies applied in any order by any number of checks never  *)
(* lower a count while the user stays cached.                              *)
THEOREM WarmCountsOnlyGrow == Spec => WarmCountsGrow
<1>1. QED BY InvHolds, WarmGrows, PTL DEF Spec, WarmCountsGrow

=============================================================================
