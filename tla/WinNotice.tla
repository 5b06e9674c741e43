------------------------------ MODULE WinNotice ------------------------------
(***************************************************************************)
(* The win path: GET /rtb/win (bidder-server/src/server/handlers.rs), its  *)
(* HMAC and Redis SET-NX gates (win_notice.rs), the impression recorder    *)
(* (bidder-core/src/frequency/impression_recorder.rs) and the workers that *)
(* write the frequency counters (bidder-server/src/freq_cap.rs).           *)
(*                                                                         *)
(* The exchange may notify any number of times.  The only await of the     *)
(* handler is the SET-NX; what follows it runs without a break.  The Redis *)
(* client (fred, with the defaults of main.rs) puts no limit on how long a *)
(* command waits for a connection, and sends a command again whose reply   *)
(* was lost with the connection; a SET whose caller is gone may still      *)
(* reach Redis later.  A dedup key runs out whatever the handlers do.      *)
(*                                                                         *)
(* The counters appear as the increments made for each accepted win; their *)
(* values and their own expiry are FreqCapCache's.                         *)
(***************************************************************************)
EXTENDS Naturals, Sequences, FiniteSets

CONSTANTS
    Wins,           \* pairs of request_id and imp_id
    Anonymous,      \* the wins whose notice carries no user_id
    Exchange,       \* the exchange of each win
    Secrets,        \* the exchanges with a secret of their own
    HasDefault,     \* a default secret is configured and auth is required
    Handlers,       \* tasks that serve notices
    Workers,        \* permits of the recorder's semaphore, one per worker
    QueueCap,       \* capacity of the recorder's channel
    MaxAttempts,    \* how often fred sends a command
    MaxNotices,     \* bound: the notices of each win
    MaxLives,       \* bound: how often the dedup key of a win is set
    MaxCrashes,     \* bound: restarts of the bidder
    Faults          \* what goes wrong: "gone", "eval", "redis"

None == "none"

ASSUME WinAssumption ==
    /\ None \notin Wins
    /\ Anonymous \subseteq Wins
    /\ "" \notin Secrets
    /\ HasDefault \in BOOLEAN
    /\ IsFiniteSet(Handlers)
    /\ QueueCap \in Nat /\ MaxAttempts \in Nat \ {0}
    /\ MaxNotices \in [Wins -> Nat] /\ MaxLives \in Nat /\ MaxCrashes \in Nat
    /\ Faults \subseteq {"gone", "eval", "redis"}

Windows == {"h", "d"}
NoToken == [secret |-> None, win |-> None]
NoNotice == [exchange |-> "", token |-> NoToken]

VARIABLES
    pc,         \* a handler: "idle", "gate" or "set"
    win,        \* the win it serves
    notice,     \* the exchange_id and the token the notice carries
    reply,      \* Redis's reply to its SET-NX: None, "ok" or "nil"
    up,         \* Redis can be reached
    keys,       \* the dedup keys in Redis
    orphans,    \* SET-NX commands on their way whose caller is gone
    queue,      \* the recorder's channel, of accepted wins
    hand,       \* the one the dispatcher holds while it waits for a permit
    job,        \* each worker's, the windows it has still to write, and how
                \*   often the EVAL of the first of them was sent
    notices,    \* notices sent so far
    crashes,    \* restarts so far
    lives,      \* history: how often the dedup key of a win was set
    events,     \* history: WinEvents published
    written,    \* history: increments made for each accepted win and window
    duplicate,  \* history: wins that were answered as duplicates
    lost        \* history: wins of a SET-NX whose reply reached no handler

handler == <<pc, win, notice, reply>>
redis == <<up, keys, orphans, lives>>
recorder == <<queue, hand, job>>
bounds == <<notices, crashes>>
vars == <<handler, redis, recorder, bounds, events, written, duplicate, lost>>

(* The n-th time that a win was accepted.                                  *)
Accepted(w, n) == [win |-> w, nth |-> n]
NoImpression == Accepted(None, 0)
Idle == [imp |-> NoImpression, todo |-> <<>>, sent |-> 0]

Init ==
    /\ pc = [a \in Handlers |-> "idle"]
    /\ win = [a \in Handlers |-> None]
    /\ notice = [a \in Handlers |-> NoNotice]
    /\ reply = [a \in Handlers |-> None]
    /\ up = TRUE
    /\ keys = {} /\ orphans = {}
    /\ queue = <<>> /\ hand = NoImpression
    /\ job = [k \in Workers |-> Idle]
    /\ notices = [w \in Wins |-> 0]
    /\ crashes = 0
    /\ lives = [w \in Wins |-> 0]
    /\ events = [w \in Wins |-> 0]
    /\ written = [i \in {} |-> [x \in Windows |-> 0]]
    /\ duplicate = {} /\ lost = {}

-----------------------------------------------------------------------------
(* Tokens                                                                  *)

SecretFor(e) ==
    IF e \in Secrets THEN e ELSE IF HasDefault THEN "default" ELSE None

(* The token build puts into the nurl: none without a secret.              *)
Sign(w, e) ==
    IF SecretFor(e) = None THEN NoToken ELSE [secret |-> SecretFor(e), win |-> w]

VerifyToken(w, n) == SecretFor(n.exchange) = None \/ n.token = Sign(w, n.exchange)

-----------------------------------------------------------------------------
(* A notice and its gates                                                  *)

(* The exchange fires the nurl; some strip the parameters it carries.      *)
Notify(a, w) ==
    /\ pc[a] = "idle" /\ notices[w] < MaxNotices[w]
    /\ notices' = [notices EXCEPT ![w] = @ + 1]
    /\ pc' = [pc EXCEPT ![a] = "gate"]
    /\ win' = [win EXCEPT ![a] = w]
    /\ \E e \in {Exchange[w], ""}, t \in {Sign(w, Exchange[w]), NoToken} :
          notice' = [notice EXCEPT ![a] = [exchange |-> e, token |-> t]]
    /\ UNCHANGED <<reply, redis, recorder, crashes, events, written, duplicate, lost>>

(* The handler is done with its notice.                                    *)
Leave(a) ==
    /\ pc' = [pc EXCEPT ![a] = "idle"]
    /\ win' = [win EXCEPT ![a] = None]
    /\ notice' = [notice EXCEPT ![a] = NoNotice]
    /\ reply' = [reply EXCEPT ![a] = None]

(* SET NX EX on the key of w: it is set unless it is there.                *)
SetKey(w) ==
    /\ keys' = keys \cup {w}
    /\ lives' = IF w \in keys THEN lives ELSE [lives EXCEPT ![w] = @ + 1]

(* Mutant: the dedup key is set before the token is looked at.             *)
CheckTokenLate(a) ==
    /\ pc[a] = "gate"
    /\ IF VerifyToken(win[a], notice[a])
       THEN /\ pc' = [pc EXCEPT ![a] = "set"]
            /\ UNCHANGED <<win, notice, reply, keys, lives>>
       ELSE SetKey(win[a]) /\ Leave(a)
    /\ UNCHANGED <<up, orphans, recorder, bounds, events, written, duplicate, lost>>

(* 401 before Redis is touched, or on to the SET-NX.                       *)
CheckToken(a) ==
    /\ pc[a] = "gate"
    /\ IF VerifyToken(win[a], notice[a])
       THEN /\ pc' = [pc EXCEPT ![a] = "set"]
            /\ UNCHANGED <<win, notice, reply>>
       ELSE Leave(a)
    /\ UNCHANGED <<redis, recorder, bounds, events, written, duplicate, lost>>

(* Redis executes the SET-NX,                                              *)
SetNx(a) ==
    /\ pc[a] = "set" /\ reply[a] = None /\ up
    /\ reply' = [reply EXCEPT ![a] = IF win[a] \in keys THEN "nil" ELSE "ok"]
    /\ SetKey(win[a])
    /\ UNCHANGED <<pc, win, notice, up, orphans, recorder, bounds, events, written,
                   duplicate, lost>>

(* or the reply is lost with the connection, and the SET-NX is sent again. *)
SetNxAgain(a) ==
    /\ pc[a] = "set" /\ reply[a] = None /\ up
    /\ MaxAttempts > 1
    /\ SetKey(win[a])
    /\ lost' = lost \cup {win[a]}
    /\ UNCHANGED <<handler, up, orphans, recorder, bounds, events, written, duplicate>>

(* try_record: dropped when the channel is full.                           *)
TryRecord(i) ==
    queue' = IF i.win \notin Anonymous /\ Len(queue) < QueueCap THEN Append(queue, i)
             ELSE queue

(* The key was new: record the impression, publish the event, 200.         *)
Accept(a) ==
    LET i == Accepted(win[a], events[win[a]] + 1) IN
    /\ pc[a] = "set" /\ reply[a] = "ok"
    /\ TryRecord(i)
    /\ events' = [events EXCEPT ![win[a]] = @ + 1]
    /\ written' = [j \in DOMAIN written \cup {i} |->
                     IF j = i THEN [x \in Windows |-> 0] ELSE written[j]]
    /\ Leave(a)
    /\ UNCHANGED <<redis, hand, job, bounds, duplicate, lost>>

(* The key was there: 200 and nothing else.                                *)
Duplicate(a) ==
    /\ pc[a] = "set" /\ reply[a] = "nil"
    /\ duplicate' = duplicate \cup {win[a]}
    /\ Leave(a)
    /\ UNCHANGED <<redis, recorder, bounds, events, written, lost>>

(* The SET-NX of a handler that stops waiting may still be on its way.     *)
GivenUp(a) ==
    /\ pc[a] = "set"
    /\ "gone" \in Faults
    /\ orphans' \in IF reply[a] = None THEN {orphans, orphans \cup {win[a]}} ELSE {orphans}
    /\ lost' = lost \cup {win[a]}
    /\ Leave(a)

(* Mutant: the gate fails open.                                            *)
DedupUnavailableOpen(a) ==
    /\ GivenUp(a)
    /\ events' = [events EXCEPT ![win[a]] = @ + 1]
    /\ UNCHANGED <<up, keys, lives, recorder, bounds, written, duplicate>>

(* DEDUP_REDIS_TIMEOUT, a Redis error (200, nothing else), or the exchange *)
(* hangs up and the handler's future is dropped.                           *)
DedupUnavailable(a) ==
    /\ GivenUp(a)
    /\ UNCHANGED <<up, keys, lives, recorder, bounds, events, written, duplicate>>

(* A SET-NX that nobody waits for any more reaches Redis.                  *)
LateSet(w) ==
    /\ w \in orphans /\ up
    /\ orphans' = orphans \ {w}
    /\ SetKey(w)
    /\ UNCHANGED <<handler, up, recorder, bounds, events, written, duplicate, lost>>

(* dedup_ttl_secs after it was set, the key is gone.                       *)
DedupExpires(w) ==
    /\ w \in keys /\ lives[w] < MaxLives
    /\ keys' = keys \ {w}
    /\ UNCHANGED <<handler, up, orphans, lives, recorder, bounds, events, written,
                   duplicate, lost>>

-----------------------------------------------------------------------------
(* spawn_impression_workers                                                *)

Receive ==
    /\ hand = NoImpression /\ queue # <<>>
    /\ hand' = Head(queue) /\ queue' = Tail(queue)
    /\ UNCHANGED <<handler, redis, job, bounds, events, written, duplicate, lost>>

(* Mutant: the dispatcher goes on holding the event.                       *)
SpawnKeeps(k) ==
    /\ hand # NoImpression /\ job[k] = Idle
    /\ job' = [job EXCEPT ![k] = [imp |-> hand, todo |-> <<"h", "d">>, sent |-> 1]]
    /\ UNCHANGED <<handler, redis, queue, hand, bounds, events, written, duplicate, lost>>

(* A permit is free: a task of its own writes the counters.                *)
Spawn(k) ==
    /\ hand # NoImpression /\ job[k] = Idle
    /\ job' = [job EXCEPT ![k] = [imp |-> hand, todo |-> <<"h", "d">>, sent |-> 1]]
    /\ hand' = NoImpression
    /\ UNCHANGED <<handler, redis, queue, bounds, events, written, duplicate, lost>>

(* Redis runs the script of a worker's EVAL.                               *)
Increment(k) ==
    written' = [written EXCEPT ![job[k].imp][Head(job[k].todo)] = @ + 1]

(* Mutant: a worker writes one window and keeps its permit.                *)
WriteCounterKeepsPermit(k) ==
    /\ Len(job[k].todo) = 2 /\ up
    /\ Increment(k)
    /\ job' = [job EXCEPT ![k].todo = Tail(@)]
    /\ UNCHANGED <<handler, redis, queue, hand, bounds, events, duplicate, lost>>

(* One EVAL of write_impression_counters is answered, or fails, which is   *)
(* only logged; after the last one the permit is returned.                 *)
WriteCounter(k) ==
    /\ job[k] # Idle /\ up
    /\ \/ Increment(k)
       \/ "eval" \in Faults /\ UNCHANGED written
    /\ job' = [job EXCEPT ![k] = IF Len(@.todo) = 1 THEN Idle
                                 ELSE [imp |-> @.imp, todo |-> Tail(@.todo), sent |-> 1]]
    /\ UNCHANGED <<handler, redis, queue, hand, bounds, events, duplicate, lost>>

(* Its reply is lost with the connection, and it is sent again.            *)
WriteCounterAgain(k) ==
    /\ job[k] # Idle /\ up
    /\ job[k].sent < MaxAttempts
    /\ Increment(k)
    /\ job' = [job EXCEPT ![k].sent = @ + 1]
    /\ UNCHANGED <<handler, redis, queue, hand, bounds, events, duplicate, lost>>

-----------------------------------------------------------------------------

RedisChanges ==
    /\ "redis" \in Faults
    /\ up' = ~up
    /\ UNCHANGED <<handler, keys, orphans, lives, recorder, bounds, events, written,
                   duplicate, lost>>

(* The bidder restarts: what it held in memory is gone, Redis is not.      *)
Crash ==
    /\ crashes < MaxCrashes
    /\ crashes' = crashes + 1
    /\ \E s \in SUBSET {win[a] : a \in {b \in Handlers : pc[b] = "set" /\ reply[b] = None}} :
          orphans' = orphans \cup s
    /\ lost' = lost \cup {win[a] : a \in {b \in Handlers : pc[b] = "set"}}
    /\ pc' = [a \in Handlers |-> "idle"]
    /\ win' = [a \in Handlers |-> None]
    /\ notice' = [a \in Handlers |-> NoNotice]
    /\ reply' = [a \in Handlers |-> None]
    /\ queue' = <<>> /\ hand' = NoImpression
    /\ job' = [k \in Workers |-> Idle]
    /\ UNCHANGED <<up, keys, lives, notices, events, written, duplicate>>

Next ==
    \/ \E a \in Handlers :
          \/ \E w \in Wins : Notify(a, w)
          \/ CheckToken(a) \/ SetNx(a) \/ SetNxAgain(a)
          \/ Accept(a) \/ Duplicate(a) \/ DedupUnavailable(a)
    \/ \E w \in Wins : LateSet(w) \/ DedupExpires(w)
    \/ Receive
    \/ \E k \in Workers : Spawn(k) \/ WriteCounter(k) \/ WriteCounterAgain(k)
    \/ RedisChanges
    \/ Crash

Spec == Init /\ [][Next]_vars

(* The dispatcher and the workers run; an EVAL returns while Redis can be  *)
(* reached, and otherwise waits.                                           *)
Fairness ==
    /\ WF_vars(Receive)
    /\ \A k \in Workers : WF_vars(Spawn(k)) /\ WF_vars(WriteCounter(k))

FairSpec == Spec /\ Fairness

-----------------------------------------------------------------------------
(* Properties                                                              *)

Impressions == [win : Wins, nth : Nat \ {0}]
Todos == {<<"h", "d">>, <<"d">>}

(* Every variable stays in its type.                                       *)
TypeOK ==
    /\ pc \in [Handlers -> {"idle", "gate", "set"}]
    /\ win \in [Handlers -> Wins \cup {None}]
    /\ reply \in [Handlers -> {None, "ok", "nil"}]
    /\ up \in BOOLEAN
    /\ keys \subseteq Wins /\ orphans \subseteq Wins
    /\ queue \in Seq(Impressions) /\ Len(queue) <= QueueCap
    /\ hand \in Impressions \cup {NoImpression}
    /\ job \in [Workers -> [imp : Impressions, todo : Todos, sent : 1..MaxAttempts] \cup {Idle}]
    /\ notices \in [Wins -> Nat] /\ crashes \in 0..MaxCrashes
    /\ lives \in [Wins -> Nat]
    /\ events \in [Wins -> Nat]
    /\ DOMAIN written \subseteq Impressions
    /\ \A i \in DOMAIN written : written[i] \in [Windows -> Nat]
    /\ duplicate \subseteq Wins /\ lost \subseteq Wins

Ledger == INSTANCE WinLedger WITH effects <- events, claims <- lives

(* "never double-count", for as long as the dedup key lasts: through       *)
(* retries, concurrent notices, timeouts, late and repeated commands and   *)
(* restarts of the bidder, the win handler has its side effects no more    *)
(* often than the key of the win was set anew.                             *)
AtMostOnce == Ledger!Spec

(* An impression that the handler accepted raises each counter no more     *)
(* often than fred sends its EVAL, so once unless a connection is lost:    *)
(* the recorder's channel, the dispatcher, the permits and crashes never   *)
(* write one twice.                                                        *)
NeverOvercounted ==
    \A i \in DOMAIN written, x \in Windows : written[i][x] <= MaxAttempts

(* The win had its side effects, or the handler that won the SET-NX is     *)
(* about to have them.                                                     *)
Processed(w) == events[w] > 0 \/ \E a \in Handlers : win[a] = w /\ reply[a] = "ok"

(* "Already processed this (request_id, imp_id)" is true of a Duplicate    *)
(* unless the reply to an earlier SET-NX of the win reached no handler,    *)
(* when the key stands for nothing.  A notice that fails authentication,   *)
(* in particular, leaves no key behind.                                    *)
DuplicateExplained == \A w \in duplicate : Processed(w) \/ w \in lost

(* The recorder keeps working: once Redis stays reachable every permit     *)
(* comes back again and again, the dispatcher never waits for ever, and    *)
(* the channel does not stay full, whatever EVALs fail or are repeated.    *)
RecorderDrains ==
    <>[]up => /\ \A k \in Workers : []<>(job[k] = Idle)
              /\ []<>(hand = NoImpression)
              /\ []<>(Len(queue) < QueueCap)

=============================================================================
