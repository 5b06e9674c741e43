------------------------------ MODULE Segments ------------------------------
(***************************************************************************)
(* A user's segments: SegmentCache (bidder-core/src/cache), the Redis      *)
(* repository behind it (bidder-server/src/segment_repo.rs), and the       *)
(* clients that ask for them: bid requests in UserEnrichmentStage and the  *)
(* warm-up.                                                                *)
(*                                                                         *)
(* moka's try_get_with lets one client per user fetch while the others     *)
(* wait for its answer; a client dropped while it fetches hands the turn   *)
(* to those that wait.  A GET may fail or be answered at any time, and the *)
(* breaker, which other callers drive too (CircuitBreaker), may turn at    *)
(* any time; the hedge of the GET is HedgeBudget's.                        *)
(***************************************************************************)
EXTENDS Naturals, FiniteSets

CONSTANTS
    Users,
    Requests,   \* bid requests in flight
    Warmup,     \* the client that is the warm-up
    Lists,      \* non-empty segment lists
    Nobody

ASSUME ClientsAssumption ==
    /\ Warmup \notin Requests
    /\ Nobody \notin Requests \cup Users \cup {Warmup}

Clients == Requests \cup {Warmup}

(* What the key of a user holds: nothing, packed ids, no bytes, or a value *)
(* whose length is not a multiple of four.                                 *)
RawValues == Lists \cup {"absent", "blank", "torn"}
(* What the cache holds for a user.                                        *)
Entries == Lists \cup {"empty", "none"}

VARIABLES
    redis,      \* v1:seg:{u:<id>}
    breaker,    \* whether allow_request lets a call through
    cache,      \* SegmentCache::inner
    fetcher,    \* the client that computes a user's entry
    pc,         \* each client: "idle", "queued", "lookup", "wait", "gate",
                \*   "get", "decode" or "done"
    user,       \* the user a client asks about
    raw         \* what Redis answered it

segmentVars == <<redis, breaker, cache, fetcher, pc, user, raw>>

SegmentInit ==
    /\ redis \in [Users -> RawValues]
    /\ breaker \in {"allows", "refuses"}
    /\ cache = [u \in Users |-> "none"]
    /\ fetcher = [u \in Users |-> Nobody]
    /\ pc = [c \in Clients |-> "idle"]
    /\ user = [c \in Clients |-> Nobody]
    /\ raw = [c \in Clients |-> "absent"]

-----------------------------------------------------------------------------
(* The surroundings                                                        *)

(* Another service rewrites or deletes a user's segments.                  *)
WriteSegments(u) ==
    /\ \E r \in RawValues \ {redis[u]} : redis' = [redis EXCEPT ![u] = r]
    /\ UNCHANGED <<breaker, cache, fetcher, pc, user, raw>>

BreakerTurns ==
    /\ breaker' = IF breaker = "allows" THEN "refuses" ELSE "allows"
    /\ UNCHANGED <<redis, cache, fetcher, pc, user, raw>>

(* Entries without segments that never lapse.                              *)
ExpireLists(u) ==
    /\ cache[u] \in Lists
    /\ cache' = [cache EXCEPT ![u] = "none"]
    /\ UNCHANGED <<redis, breaker, fetcher, pc, user, raw>>

(* time_to_live, or an eviction at max_capacity.                           *)
Expire(u) ==
    /\ cache[u] # "none"
    /\ cache' = [cache EXCEPT ![u] = "none"]
    /\ UNCHANGED <<redis, breaker, fetcher, pc, user, raw>>

-----------------------------------------------------------------------------
(* SegmentCache::get_or_fetch                                              *)

Waiters(u) == {w \in Clients : pc[w] = "wait" /\ user[w] = u}

(* Nobody is ever seen to be fetching.                                     *)
BusyNever(u) == FALSE
Busy(u) == fetcher[u] # Nobody

Hit(c) ==
    /\ pc[c] = "lookup" /\ cache[user[c]] # "none"
    /\ pc' = [pc EXCEPT ![c] = "done"]
    /\ UNCHANGED <<redis, breaker, cache, fetcher, user, raw>>

(* A miss while another client fetches.                                    *)
Join(c) ==
    /\ pc[c] = "lookup" /\ cache[user[c]] = "none" /\ Busy(user[c])
    /\ pc' = [pc EXCEPT ![c] = "wait"]
    /\ UNCHANGED <<redis, breaker, cache, fetcher, user, raw>>

(* A miss that takes the turn to fetch.                                    *)
Lead(c) ==
    /\ pc[c] = "lookup" /\ cache[user[c]] = "none" /\ ~Busy(user[c])
    /\ pc' = [pc EXCEPT ![c] = "gate"]
    /\ fetcher' = [fetcher EXCEPT ![user[c]] = c]
    /\ UNCHANGED <<redis, breaker, cache, user, raw>>

(* The fetch is over: its result is kept, an error is not, and whoever     *)
(* waited gets the same answer.                                            *)
Answer(c, entry) ==
    /\ cache' = IF entry = "none" THEN cache ELSE [cache EXCEPT ![user[c]] = entry]
    /\ fetcher' = [fetcher EXCEPT ![user[c]] = Nobody]
    /\ pc' = [w \in Clients |-> IF w \in Waiters(user[c]) \cup {c} THEN "done" ELSE pc[w]]
    /\ raw' = [raw EXCEPT ![c] = "absent"]

(* A client dropped while it fetches: those that waited look up again.     *)
Abandon(c) ==
    /\ pc' = [w \in Clients |->
                CASE w = c -> "idle"
                  [] w # c /\ \E u \in Users : fetcher[u] = c /\ w \in Waiters(u) -> "lookup"
                  [] OTHER -> pc[w]]
    /\ fetcher' = [u \in Users |-> IF fetcher[u] = c THEN Nobody ELSE fetcher[u]]

-----------------------------------------------------------------------------
(* RedisSegmentRepo::segments_for                                          *)

(* allow_request: while the breaker refuses, the answer is an empty list.  *)
Gate(c) ==
    /\ pc[c] = "gate"
    /\ IF breaker = "refuses"
          THEN Answer(c, "empty")
          ELSE /\ pc' = [pc EXCEPT ![c] = "get"]
               /\ UNCHANGED <<cache, fetcher, raw>>
    /\ UNCHANGED <<redis, breaker, user>>

(* Redis executes the GET; its answer is on the way.                       *)
Get(c) ==
    /\ pc[c] = "get"
    /\ raw' = [raw EXCEPT ![c] = redis[user[c]]]
    /\ pc' = [pc EXCEPT ![c] = "decode"]
    /\ UNCHANGED <<redis, breaker, cache, fetcher, user>>

GetFails(c) ==
    /\ pc[c] \in {"get", "decode"}
    /\ Answer(c, "none")
    /\ UNCHANGED <<redis, breaker, user>>

(* No key is an empty list, a torn value an error.                         *)
Decoded(r) == CASE r \in {"absent", "blank"} -> "empty"
                [] r = "torn" -> "none"
                [] OTHER -> r

Decode(c) ==
    /\ pc[c] = "decode"
    /\ Answer(c, Decoded(raw[c]))
    /\ UNCHANGED <<redis, breaker, user>>

FetchStep(c) ==
    Hit(c) \/ Join(c) \/ Lead(c) \/ Gate(c) \/ Get(c) \/ GetFails(c) \/ Decode(c)

(* The warm-up brings the value along: its turn is over at once.           *)
WarmFill(c) ==
    /\ pc[c] = "lookup" /\ cache[user[c]] = "none" /\ ~Busy(user[c])
    /\ Answer(c, Decoded(raw[c]))
    /\ UNCHANGED <<redis, breaker, user>>

WarmClientStep == Hit(Warmup) \/ Join(Warmup) \/ WarmFill(Warmup)

-----------------------------------------------------------------------------
SegmentTypeOK ==
    /\ redis \in [Users -> RawValues]
    /\ breaker \in {"allows", "refuses"}
    /\ cache \in [Users -> Entries]
    /\ fetcher \in [Users -> Clients \cup {Nobody}]
    /\ pc \in [Clients -> {"idle", "queued", "lookup", "wait", "gate", "get", "decode", "done"}]
    /\ user \in [Clients -> Users \cup {Nobody}]
    /\ raw \in [Clients -> RawValues]

Fetching(u) == {c \in Clients : user[c] = u /\ pc[c] \in {"gate", "get", "decode"}}

(* get_or_fetch, "collapsing concurrent misses for the same user into a    *)
(* single Redis fetch": whoever is dropped, expires or fails, a user has   *)
(* one fetch at a time, and clients wait only while there is one.          *)
OneFetchPerUser ==
    \A u \in Users :
        /\ Cardinality(Fetching(u)) <= 1
        /\ Waiters(u) # {} => Fetching(u) = {fetcher[u]}

=============================================================================
