---------------------------- MODULE FreqCapCache ----------------------------
(***************************************************************************)
(* The in-process frequency capper (frequency/in_process.rs) in front of   *)
(* the Redis one (bidder-server freq_cap.rs), as main.rs wires them when   *)
(* freq_cap.in_process_enabled is set: bids check caps against moka and    *)
(* fall back to one MGET for what is not there, wins go to the impression  *)
(* recorder, whose workers increment Redis, and an evicted user's entries  *)
(* are sent through the write-behind queue to the same recorder.           *)
(*                                                                         *)
(* The module follows one user.  Users share nothing but the bounded       *)
(* queues.  The circuit breaker appears as what it lets happen: while      *)
(* Redis is up every gate is open (CircuitBreaker has the rest).           *)
(* record_impression, which would count in moka, has no caller outside the *)
(* tests and is not modelled.                                              *)
(***************************************************************************)
EXTENDS Integers, FiniteSets, SequencesExt

CONSTANTS
    Campaigns,
    Checkers,       \* concurrent bids of the user, each in the freq-cap stage
    Cap,            \* Cap[c][w]: daily_cap_imps and hourly_cap_imps
    WriteBuffer,    \* write_buffer_size of the write-behind channel
    RecorderQueue,  \* capacity of the recorder's channel
    Ceiling,        \* counters are exact below this and stick at it
    Faults          \* which of "redis", "eval", "resend", "expire" may happen

Windows == {"d", "h"}

ASSUME CapAssumption ==
    /\ IsFiniteSet(Campaigns)
    /\ WriteBuffer \in Nat /\ RecorderQueue \in Nat
    /\ Ceiling \in Nat
    /\ Cap \in [Campaigns -> [Windows -> 0..Ceiling]]

VARIABLES
    redis,      \* redis[c][w]: the counter in Redis, 0 when the key is absent
    up,         \* Redis answers in time and the breaker is closed
    cache,      \* the user's map in moka: campaign -> counts, for some campaigns
    flush,      \* the operations the eviction listener has yet to send
    wq,         \* the write-behind channel
    rq,         \* the recorder's channel
    job,        \* the impression being written, and the windows still to do
    pc,         \* where each check is
    todo,       \* the campaigns it has yet to look up, or to patch
    cold,       \* those it did not find in the cache
    reply,      \* the counts its MGET returned
    verdict,    \* its results, complete when pc is "idle"
    credit      \* history: the impressions won, the evictions and the EVALs sent
                \*   again so far, of each campaign

queues == <<flush, wq, rq, job>>
check == <<pc, todo, cold, reply, verdict>>
vars == <<redis, up, cache, queues, check, credit>>

NoJob == [campaign |-> 0, todo |-> <<>>]
NoCounts == [w \in Windows |-> 0]
Empty == [c \in {} |-> NoCounts]

Init ==
    /\ redis = [c \in Campaigns |-> NoCounts]
    /\ up = TRUE
    /\ cache = Empty
    /\ flush = <<>> /\ wq = <<>> /\ rq = <<>>
    /\ job = NoJob
    /\ pc = [k \in Checkers |-> "idle"]
    /\ todo = [k \in Checkers |-> {}]
    /\ cold = [k \in Checkers |-> {}]
    /\ reply = [k \in Checkers |-> Empty]
    /\ verdict = [k \in Checkers |-> [c \in Campaigns |-> "skipped"]]
    /\ credit = [c \in Campaigns |-> 0]

Larger(m, n) == IF m < n THEN n ELSE m
UpOne(n) == IF n < Ceiling THEN n + 1 ELSE n

Verdict(c, counts) == IF \E w \in Windows : counts[w] >= Cap[c][w] THEN "capped" ELSE "free"

-----------------------------------------------------------------------------
(* check: the gate, then one lookup per candidate                          *)

Begin(k) ==
    /\ pc[k] = "idle"
    /\ pc' = [pc EXCEPT ![k] = "lookup"]
    /\ todo' = [todo EXCEPT ![k] = Campaigns]
    /\ verdict' = [verdict EXCEPT ![k] = [c \in Campaigns |-> "skipped"]]
    /\ UNCHANGED <<redis, up, cache, queues, cold, reply, credit>>

(* The breaker is open: SkippedTimeout, nothing is looked at. *)
Refused(k) ==
    /\ pc[k] = "idle" /\ ~up
    /\ verdict' = [verdict EXCEPT ![k] = [c \in Campaigns |-> "skipped"]]
    /\ UNCHANGED <<redis, up, cache, queues, pc, todo, cold, reply, credit>>

LookUp(k, c) ==
    /\ pc[k] = "lookup" /\ c \in todo[k]
    /\ LET hot == c \in DOMAIN cache IN
       /\ verdict' = [verdict EXCEPT ![k][c] = IF hot THEN Verdict(c, cache[c]) ELSE "free"]
       /\ cold' = [cold EXCEPT ![k] = IF hot THEN @ ELSE @ \cup {c}]
    /\ todo' = [todo EXCEPT ![k] = @ \ {c}]
    /\ pc' = [pc EXCEPT ![k] = IF todo'[k] # {} THEN "lookup"
                               ELSE IF cold'[k] # {} THEN "mget" ELSE "idle"]
    /\ UNCHANGED <<redis, up, cache, queues, reply, credit>>

(* The fallback's MGET; both windows of all cold campaigns at one moment. *)
Mget(k) ==
    /\ pc[k] = "mget" /\ up
    /\ reply' = [reply EXCEPT ![k] = [c \in cold[k] |-> redis[c]]]
    /\ todo' = [todo EXCEPT ![k] = cold[k]]
    /\ cold' = [cold EXCEPT ![k] = {}]
    /\ pc' = [pc EXCEPT ![k] = "patch"]
    /\ UNCHANGED <<redis, up, cache, queues, verdict, credit>>

(* The fallback is refused or times out: cold campaigns count as uncapped. *)
Unavailable(k) ==
    /\ pc[k] = "mget" /\ ~up
    /\ pc' = [pc EXCEPT ![k] = "idle"]
    /\ cold' = [cold EXCEPT ![k] = {}]
    /\ UNCHANGED <<redis, up, cache, queues, todo, reply, verdict, credit>>

(* Mutant: the reply replaces what is cached.                              *)
WarmCacheOverwrites(c, counts) ==
    cache' = [x \in DOMAIN cache \cup {c} |-> IF x = c THEN counts ELSE cache[x]]

(* warm_cache: insert the counts, or keep the higher ones.  The guard on   *)
(* the map's entry keeps other warm_cache calls and lookups out.           *)
WarmCache(c, counts) ==
    LET old == IF c \in DOMAIN cache THEN cache[c] ELSE counts IN
    cache' = [x \in DOMAIN cache \cup {c} |->
                IF x = c THEN [w \in Windows |-> Larger(counts[w], old[w])] ELSE cache[x]]

Patch(k, c) ==
    /\ pc[k] = "patch" /\ c \in todo[k]
    /\ verdict' = [verdict EXCEPT ![k][c] = Verdict(c, reply[k][c])]
    /\ WarmCache(c, reply[k][c])
    /\ todo' = [todo EXCEPT ![k] = @ \ {c}]
    /\ pc' = [pc EXCEPT ![k] = IF todo'[k] = {} THEN "idle" ELSE "patch"]
    /\ reply' = [reply EXCEPT ![k] = IF todo'[k] = {} THEN Empty ELSE @]
    /\ UNCHANGED <<redis, up, queues, cold, credit>>

-----------------------------------------------------------------------------
(* Writes: the recorder, the eviction listener and the write-behind drain  *)

TryRecord(c) == rq' = IF Len(rq) < RecorderQueue THEN Append(rq, c) ELSE rq

(* An accepted win notice; the gate before it is in WinNotice. *)
Win(c) ==
    /\ TryRecord(c)
    /\ credit' = [credit EXCEPT ![c] = UpOne(@)]
    /\ UNCHANGED <<redis, up, cache, flush, wq, job, check>>

(* A day and an hour operation for each campaign, in the map's order.      *)
Operations(order) ==
    [i \in 1..(2 * Len(order)) |-> <<order[(i + 1) \div 2], IF i % 2 = 1 THEN "d" ELSE "h">>]

(* Mutant: a user who is being looked up is not evicted (time-to-idle).    *)
EvictIdle ==
    /\ cache # Empty /\ flush = <<>>
    /\ \A k \in Checkers : pc[k] = "idle"
    /\ \E order \in SetToSeqs(DOMAIN cache) : flush' = Operations(order)
    /\ cache' = Empty
    /\ credit' = [c \in Campaigns |-> IF c \in DOMAIN cache THEN UpOne(credit[c]) ELSE credit[c]]
    /\ UNCHANGED <<redis, up, wq, rq, job, check>>

(* moka drops the user, for its TTL or for room; the listener will send    *)
(* the operations of the campaigns in the map, in any order.               *)
Evict ==
    /\ cache # Empty /\ flush = <<>>
    /\ \E order \in SetToSeqs(DOMAIN cache) : flush' = Operations(order)
    /\ cache' = Empty
    /\ credit' = [c \in Campaigns |-> IF c \in DOMAIN cache THEN UpOne(credit[c]) ELSE credit[c]]
    /\ UNCHANGED <<redis, up, wq, rq, job, check>>

FlushSend ==
    /\ flush # <<>>
    /\ wq' = IF Len(wq) < WriteBuffer THEN Append(wq, Head(flush)) ELSE wq
    /\ flush' = Tail(flush)
    /\ UNCHANGED <<redis, up, cache, rq, job, check, credit>>

(* Mutant: both operations of a campaign are forwarded.                    *)
DrainBoth ==
    /\ wq # <<>>
    /\ TryRecord(Head(wq)[1])
    /\ wq' = Tail(wq)
    /\ UNCHANGED <<redis, up, cache, flush, job, check, credit>>

(* in_process_write_behind_drain: only day operations are forwarded, since *)
(* the recorder writes both windows of an impression.                      *)
Drain ==
    /\ wq # <<>>
    /\ IF Head(wq)[2] = "d" THEN TryRecord(Head(wq)[1]) ELSE UNCHANGED rq
    /\ wq' = Tail(wq)
    /\ UNCHANGED <<redis, up, cache, flush, job, check, credit>>

Receive ==
    /\ job = NoJob /\ rq # <<>>
    /\ job' = [campaign |-> Head(rq), todo |-> <<"h", "d">>]
    /\ rq' = Tail(rq)
    /\ UNCHANGED <<redis, up, cache, flush, wq, check, credit>>

(* write_impression_counters: one EVAL per window; a failed one is dropped *)
WriteCounter(ok) ==
    /\ job # NoJob
    /\ ok \/ "eval" \in Faults
    /\ LET w == Head(job.todo) IN
       redis' = IF ok THEN [redis EXCEPT ![job.campaign][w] = UpOne(@)] ELSE redis
    /\ job' = IF Len(job.todo) = 1 THEN NoJob
              ELSE [campaign |-> job.campaign, todo |-> Tail(job.todo)]
    /\ UNCHANGED <<up, cache, flush, wq, rq, check, credit>>

(* The reply to an EVAL is lost with the connection, and fred sends it     *)
(* again.                                                                  *)
WriteCounterAgain ==
    /\ job # NoJob
    /\ "resend" \in Faults
    /\ redis' = [redis EXCEPT ![job.campaign][Head(job.todo)] = UpOne(@)]
    /\ credit' = [credit EXCEPT ![job.campaign] = UpOne(@)]
    /\ UNCHANGED <<up, cache, queues, check>>

CounterExpires(c, w) ==
    /\ "expire" \in Faults /\ redis[c][w] > 0
    /\ redis' = [redis EXCEPT ![c][w] = 0]
    /\ UNCHANGED <<up, cache, queues, check, credit>>

RedisChanges ==
    /\ "redis" \in Faults
    /\ up' = ~up
    /\ UNCHANGED <<redis, cache, queues, check, credit>>

-----------------------------------------------------------------------------
Check(k) ==
    \/ Begin(k) \/ Refused(k) \/ Mget(k) \/ Unavailable(k)
    \/ \E c \in Campaigns : LookUp(k, c) \/ Patch(k, c)

Next ==
    \/ \E k \in Checkers : Check(k)
    \/ \E c \in Campaigns : Win(c)
    \/ Evict \/ FlushSend \/ Drain \/ Receive
    \/ \E ok \in BOOLEAN : WriteCounter(ok)
    \/ WriteCounterAgain
    \/ \E c \in Campaigns, w \in Windows : CounterExpires(c, w)
    \/ RedisChanges

Spec == Init /\ [][Next]_vars

(* Bids keep coming and their tasks run; moka's TTL evicts every entry in  *)
(* time, used or not, and its listener, the drain and the workers run.     *)
Fairness ==
    /\ \A k \in Checkers : WF_vars(Check(k))
    /\ WF_vars(Evict) /\ WF_vars(FlushSend) /\ WF_vars(Drain)

FairSpec == Spec /\ Fairness

-----------------------------------------------------------------------------
(* Properties                                                              *)

Counts == [Windows -> 0..Ceiling]

(* Every variable stays in its type, the two channels within their bounds. *)
TypeOK ==
    /\ redis \in [Campaigns -> Counts]
    /\ up \in BOOLEAN
    /\ DOMAIN cache \subseteq Campaigns /\ \A c \in DOMAIN cache : cache[c] \in Counts
    /\ Range(flush) \cup Range(wq) \subseteq Campaigns \X Windows
    /\ Len(wq) <= WriteBuffer
    /\ Range(rq) \subseteq Campaigns /\ Len(rq) <= RecorderQueue
    /\ job = NoJob \/ (job.campaign \in Campaigns /\ job.todo \in {<<"h", "d">>, <<"d">>})
    /\ pc \in [Checkers -> {"idle", "lookup", "mget", "patch"}]
    /\ \A k \in Checkers : todo[k] \cup cold[k] \subseteq Campaigns
    /\ \A k \in Checkers : pc[k] = "patch" => todo[k] \subseteq DOMAIN reply[k]
    /\ verdict \in [Checkers -> [Campaigns -> {"skipped", "free", "capped"}]]
    /\ credit \in [Campaigns -> 0..Ceiling]

(* warm_cache applies replies in whatever order concurrent checks receive  *)
(* them, and "we never silently undo a higher counter that a concurrent    *)
(* flow already wrote": while a user stays cached, no count goes down.     *)
WarmCountsGrow ==
    [][\A c \in DOMAIN cache \cap DOMAIN cache' : \A w \in Windows :
            cache'[c][w] >= cache[c][w]]_vars

(* Every count a bid can be refused for, in Redis, in moka or in a reply   *)
(* on its way, stands for impressions that were served or, one each, for   *)
(* evictions of the user and EVALs that fred sent twice: however the       *)
(* windows travel through the drain and the recorder, nothing else is ever *)
(* added.                                                                  *)
CountsExplained ==
    \A c \in Campaigns, w \in Windows :
        /\ redis[c][w] <= credit[c]
        /\ c \in DOMAIN cache => cache[c][w] <= credit[c]
        /\ \A k \in Checkers : c \in DOMAIN reply[k] => reply[k][c][w] <= credit[c]

(* A stale cache entry lets bids through for a while, not for ever: once   *)
(* Redis holds a campaign at its daily cap and stays reachable, checks     *)
(* eventually stop passing it.                                             *)
CapEventuallyHolds ==
    \A c \in Campaigns :
        <>[](up /\ redis[c]["d"] >= Cap[c]["d"])
            => <>[](\A k \in Checkers : pc[k] = "idle" => verdict[k][c] # "free")

=============================================================================
