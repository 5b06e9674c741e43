------------------------------- MODULE Server -------------------------------
(***************************************************************************)
(* The life of the process: main.rs brings the parts up one after another  *)
(* and serves, warmup.rs fills the segment cache (Segments) and tests the  *)
(* server against itself before /health/ready says yes, requests come in   *)
(* through the concurrency limit and the timeout of routes.rs, and SIGTERM *)
(* drains them.                                                            *)
(*                                                                         *)
(* What a request does after its segments is BidPipeline's.  A request of  *)
(* the self-test is one step: it has no impressions and asks Redis         *)
(* nothing.                                                                *)
(***************************************************************************)
EXTENDS Segments, Sequences

CONSTANTS
    WarmUsers,      \* the users of v1:warm:users, in order
    Batch,          \* users per MGET
    Limits,         \* values of server.max_concurrency
    Tries,          \* connection attempts of the self-test
    Tests,          \* requests of the self-test
    MaxFailures     \* failures it tolerates

ASSUME ServerAssumption ==
    /\ WarmUsers \in Seq(Users)
    /\ Limits \subseteq Nat \ {0}
    /\ Batch \in Nat \ {0} /\ Tries \in Nat \ {0} /\ Tests \in Nat \ {0}
    /\ MaxFailures \in Nat

(* The steps of main that can fail, in order.                              *)
BootSequence == <<"config", "telemetry", "metrics", "postgres", "catalog", "redis",
                  "scorer", "listener">>

VARIABLES
    max_concurrency,
    boot,       \* steps of BootSequence done
    server,     \* axum::serve: "none", "spawned", "accepting", "draining"
                \*   or "stopped"
    warm,       \* warmup::run: "off", "get", "mget", "insert", "connect",
                \*   "test" or "over"
    left,       \* warm users not yet read
    chunk,      \* users read by the last MGET and not yet inserted
    tries, tests, failures,
    ready,      \* HealthState::ready
    exit,       \* "no", or how main ended: "clean", "failed", "killed"
    drop        \* "over" once what main owned, the publisher included, is dropped

mainVars == <<max_concurrency, boot, server>>
warmVars == <<warm, left, chunk, tries, tests, failures>>
processVars == <<mainVars, warmVars, ready, exit, drop>>
vars == <<segmentVars, processVars>>

Init ==
    /\ SegmentInit
    /\ max_concurrency \in Limits
    /\ boot = 0 /\ server = "none"
    /\ warm = "off" /\ left = <<>> /\ chunk = <<>>
    /\ tries = 0 /\ tests = 0 /\ failures = 0
    /\ ready = FALSE /\ exit = "no" /\ drop = "no"

Running == exit = "no"

-----------------------------------------------------------------------------
(* main                                                                    *)

BootStep ==
    /\ Running /\ boot < Len(BootSequence)
    /\ boot' = boot + 1
    /\ UNCHANGED <<segmentVars, max_concurrency, server, warmVars, ready, exit, drop>>

BootFails ==
    /\ Running /\ boot < Len(BootSequence)
    /\ exit' = "failed"
    /\ UNCHANGED <<segmentVars, mainVars, warmVars, ready, drop>>

(* The server is spawned; without warm-up the process is ready at once.    *)
Serve ==
    /\ Running /\ boot = Len(BootSequence) /\ server = "none"
    /\ server' = "spawned"
    /\ \/ warm' = "get" /\ UNCHANGED ready
       \/ warm' = "over" /\ ready' = TRUE
    /\ UNCHANGED <<segmentVars, max_concurrency, boot, left, chunk, tries, tests, failures,
                   exit, drop>>

(* The server task is polled for the first time: only now are connections  *)
(* accepted and the handlers of shutdown_signal installed.                 *)
Listen ==
    /\ Running /\ server = "spawned"
    /\ server' = "accepting"
    /\ UNCHANGED <<segmentVars, max_concurrency, boot, warmVars, ready, exit, drop>>

(* Before shutdown_signal listens, the signal ends the process.            *)
Sigterm ==
    /\ Running /\ server \in {"none", "spawned", "accepting"}
    /\ IF server # "accepting"
          THEN exit' = "killed" /\ UNCHANGED server
          ELSE server' = "draining" /\ UNCHANGED exit
    /\ UNCHANGED <<segmentVars, max_concurrency, boot, warmVars, ready, drop>>

(* with_graceful_shutdown returns when no request is in flight.            *)
Drained ==
    /\ Running /\ server = "draining"
    /\ \A c \in Requests : pc[c] = "idle"
    /\ server' = "stopped"
    /\ UNCHANGED <<segmentVars, max_concurrency, boot, warmVars, ready, exit, drop>>

(* The end of main that does not wait for the server.                      *)
EndUnawaited ==
    /\ Running /\ warm = "over" /\ server \in {"draining", "stopped"}
    /\ exit' = "clean"
    /\ UNCHANGED <<segmentVars, mainVars, warmVars, ready, drop>>

(* server_handle.await, after the warm-up.                                 *)
End ==
    /\ Running /\ warm = "over" /\ server = "stopped"
    /\ exit' = "clean"
    /\ UNCHANGED <<segmentVars, mainVars, warmVars, ready, drop>>

(* What main owned is dropped, with an error as without.  The last to go   *)
(* is the publisher, whose Drop joins the poll thread (KafkaPublisher):    *)
(* there is no bound on that wait.                                         *)
Drop ==
    /\ exit \in {"clean", "failed"} /\ drop = "no"
    /\ drop' = "over"
    /\ UNCHANGED <<segmentVars, mainVars, warmVars, ready, exit>>

-----------------------------------------------------------------------------
(* A bid request: timeout_middleware around the concurrency limit around   *)
(* the handler                                                             *)

(* Connections are accepted whether or not the process is ready.           *)
Arrive(c) ==
    /\ Running /\ server = "accepting" /\ pc[c] = "idle"
    /\ \E u \in Users \cup {Nobody} : user' = [user EXCEPT ![c] = u]
    /\ pc' = [pc EXCEPT ![c] = "queued"]
    /\ UNCHANGED <<redis, breaker, cache, fetcher, raw, processVars>>

(* A request without user.id needs no segments.                            *)
Admit(c) ==
    /\ pc[c] = "queued"
    /\ Cardinality({d \in Requests : pc[d] \notin {"idle", "queued"}}) < max_concurrency
    /\ pc' = [pc EXCEPT ![c] = IF user[c] = Nobody THEN "done" ELSE "lookup"]
    /\ UNCHANGED <<redis, breaker, cache, fetcher, user, raw>>

(* UserEnrichmentStage goes on with what it got, an error included.        *)
Respond(c) ==
    /\ pc[c] = "done"
    /\ pc' = [pc EXCEPT ![c] = "idle"]
    /\ user' = [user EXCEPT ![c] = Nobody]
    /\ UNCHANGED <<redis, breaker, cache, fetcher, raw>>

(* A timeout inside the concurrency limit.                                 *)
TimeoutInside(c) ==
    /\ pc[c] \in {"wait", "gate", "get", "decode"}
    /\ Abandon(c)
    /\ user' = [user EXCEPT ![c] = Nobody]
    /\ raw' = [raw EXCEPT ![c] = "absent"]
    /\ UNCHANGED <<redis, breaker, cache>>

(* The timeout drops the request wherever it awaits.                       *)
Timeout(c) ==
    /\ pc[c] \in {"queued", "wait", "gate", "get", "decode"}
    /\ Abandon(c)
    /\ user' = [user EXCEPT ![c] = Nobody]
    /\ raw' = [raw EXCEPT ![c] = "absent"]
    /\ UNCHANGED <<redis, breaker, cache>>

RequestStep(c) ==
    /\ Running
    /\ Admit(c) \/ FetchStep(c) \/ Respond(c) \/ Timeout(c)
    /\ UNCHANGED processVars

-----------------------------------------------------------------------------
(* warmup::run                                                             *)

(* A Redis call of the warm-up has no timeout, and neither has the client: *)
(* it is awaited as long as Redis does not answer.                         *)
AwaitsRedis == warm = "get" \/ (warm = "mget" /\ left # <<>>)

(* warm_segment_cache: no key, an unreadable one or an error leaves the    *)
(* cache cold and the warm-up goes on.                                     *)
WarmGet ==
    /\ warm = "get"
    /\ \/ warm' = "mget" /\ left' = WarmUsers
       \/ warm' = "connect" /\ UNCHANGED left
    /\ UNCHANGED <<segmentVars, mainVars, chunk, tries, tests, failures, ready, exit, drop>>

(* The next users are read with one MGET.                                  *)
WarmMget ==
    LET n == IF Len(left) < Batch THEN Len(left) ELSE Batch IN
    /\ warm = "mget"
    /\ \/ /\ left # <<>>
          /\ chunk' = [i \in 1..n |-> [user |-> left[i], raw |-> redis[left[i]]]]
          /\ left' = SubSeq(left, n + 1, Len(left))
          /\ warm' = "insert"
       \/ /\ warm' = "connect" /\ left' = <<>>
          /\ UNCHANGED chunk
    /\ UNCHANGED <<segmentVars, mainVars, tries, tests, failures, ready, exit, drop>>

(* The next key of the chunk: nothing and torn values are skipped.         *)
WarmNext ==
    /\ warm = "insert" /\ pc[Warmup] = "idle"
    /\ \/ /\ chunk = <<>>
          /\ warm' = "mget"
          /\ UNCHANGED <<chunk, pc, user, raw>>
       \/ /\ chunk # <<>> /\ Head(chunk).raw \in {"absent", "torn"}
          /\ chunk' = Tail(chunk)
          /\ UNCHANGED <<warm, pc, user, raw>>
       \/ /\ chunk # <<>> /\ Head(chunk).raw \notin {"absent", "torn"}
          /\ pc' = [pc EXCEPT ![Warmup] = "lookup"]
          /\ user' = [user EXCEPT ![Warmup] = Head(chunk).user]
          /\ raw' = [raw EXCEPT ![Warmup] = Head(chunk).raw]
          /\ UNCHANGED <<warm, chunk>>
    /\ UNCHANGED <<redis, breaker, cache, fetcher, mainVars, left, tries, tests,
                   failures, ready, exit, drop>>

(* get_or_fetch is back, with a value or an error.                         *)
WarmInserted ==
    /\ warm = "insert" /\ pc[Warmup] = "done"
    /\ pc' = [pc EXCEPT ![Warmup] = "idle"]
    /\ user' = [user EXCEPT ![Warmup] = Nobody]
    /\ raw' = [raw EXCEPT ![Warmup] = "absent"]
    /\ chunk' = Tail(chunk)
    /\ UNCHANGED <<redis, breaker, cache, fetcher, mainVars, warm, left, tries, tests,
                   failures, ready, exit, drop>>

(* Attempts that never run out.                                            *)
ConnectForever ==
    /\ warm = "connect"
    /\ \/ server = "accepting" /\ warm' = "test" /\ tries' = 0
       \/ tries' = (tries + 1) % Tries /\ UNCHANGED warm
    /\ UNCHANGED <<segmentVars, mainVars, left, chunk, tests, failures, ready, exit, drop>>

(* self_test connects, or gives up after the last attempt: main returns    *)
(* the error.                                                              *)
Connect ==
    /\ warm = "connect"
    /\ \/ /\ server = "accepting"
          /\ warm' = "test" /\ tries' = 0
          /\ UNCHANGED exit
       \/ /\ tries' = tries + 1
          /\ exit' = IF tries' = Tries THEN "failed" ELSE exit
          /\ UNCHANGED warm
    /\ UNCHANGED <<segmentVars, mainVars, left, chunk, tests, failures, ready, drop>>

(* A draining server answers no new request.                               *)
SelfTest ==
    /\ warm = "test" /\ tests < Tests
    /\ tests' = tests + 1
    /\ \/ server = "accepting" /\ UNCHANGED failures
       \/ failures' = failures + 1
    /\ UNCHANGED <<segmentVars, mainVars, warm, left, chunk, tries, ready, exit, drop>>

(* Ready whatever the self-test found.                                     *)
SetReadyAnyway ==
    /\ warm = "test" /\ tests = Tests
    /\ warm' = "over" /\ ready' = TRUE
    /\ UNCHANGED <<segmentVars, mainVars, left, chunk, tries, tests, failures, exit, drop>>

SetReady ==
    /\ warm = "test" /\ tests = Tests
    /\ IF failures > MaxFailures
          THEN exit' = "failed" /\ UNCHANGED <<warm, ready>>
          ELSE warm' = "over" /\ ready' = TRUE /\ UNCHANGED exit
    /\ UNCHANGED <<segmentVars, mainVars, left, chunk, tries, tests, failures, drop>>

WarmStep ==
    /\ Running
    /\ \/ WarmGet \/ WarmMget \/ WarmNext \/ WarmInserted
       \/ WarmClientStep /\ UNCHANGED processVars
       \/ Connect \/ SelfTest \/ SetReady

-----------------------------------------------------------------------------
Environment ==
    /\ Running /\ server # "none"
    /\ BreakerTurns \/ \E u \in Users : WriteSegments(u)
    /\ UNCHANGED processVars

Lapse(u) == Running /\ Expire(u) /\ UNCHANGED processVars

Next ==
    \/ BootStep \/ BootFails \/ Serve \/ Listen \/ Sigterm \/ Drained \/ End \/ Drop
    \/ Environment \/ WarmStep
    \/ \E u \in Users : Lapse(u)
    \/ \E c \in Requests : Arrive(c) \/ RequestStep(c)

(* The server task, main and the requests are scheduled and TTLs run out.  *)
(* Nothing says that Redis answers the warm-up, or that the poll thread    *)
(* comes back to be joined.  A request's deadline, once past, stays past:  *)
(* it is met at the next await, however often the request is woken in      *)
(* between.                                                                *)
Fairness ==
    /\ WF_vars(Listen \/ Drained)
    /\ WF_vars((WarmStep /\ ~AwaitsRedis) \/ End)
    /\ \A u \in Users : WF_vars(Lapse(u))
    /\ \A c \in Requests :
        WF_vars(RequestStep(c)) /\ SF_vars(Running /\ Timeout(c) /\ UNCHANGED processVars)

Spec == Init /\ [][Next]_vars /\ Fairness

-----------------------------------------------------------------------------
TypeOK ==
    /\ SegmentTypeOK
    /\ max_concurrency \in Limits
    /\ boot \in 0..Len(BootSequence)
    /\ server \in {"none", "spawned", "accepting", "draining", "stopped"}
    /\ warm \in {"off", "get", "mget", "insert", "connect", "test", "over"}
    /\ left \in Seq(Users) /\ Len(chunk) <= Batch
    /\ tries \in 0..Tries /\ failures \in 0..tests /\ tests \in 0..Tests
    /\ ready \in BOOLEAN
    /\ exit \in {"no", "clean", "failed", "killed"}
    /\ drop \in {"no", "over"}

(* warmup::run: the process says it is ready only if every part came up    *)
(* and, with warm-up enabled, the self-test ran to its end with few enough *)
(* failures, even when SIGTERM closes the listener under it.               *)
ReadyIsEarned ==
    ready => /\ boot = Len(BootSequence) /\ warm = "over"
             /\ tests \in {0, Tests} /\ failures <= MaxFailures

(* main, graceful shutdown: a process that ends well has been told to stop *)
(* and has answered every request it accepted.                             *)
CleanExitDrained ==
    exit = "clean" => server = "stopped" /\ \A c \in Requests : pc[c] = "idle"

(* timeout_middleware: every request is answered, also one that waits for  *)
(* a fetch whose client is dropped, unless the process fails.              *)
EveryRequestAnswered ==
    \A c \in Requests : (pc[c] # "idle") ~> (pc[c] = "idle" \/ exit # "no")

(* main waits for something that nothing bounds: for Redis in the warm-up, *)
(* or for the poll thread in the publisher's Drop.                         *)
Held == \/ Running /\ AwaitsRedis
        \/ exit \in {"clean", "failed"} /\ drop = "no"

(* shutdown_signal: after SIGTERM the process ends, whatever the requests  *)
(* and the self-test are doing, unless one of two waits without a bound    *)
(* never ends: main's for Redis in warm_segment_cache, which no signal     *)
(* cuts short, or the publisher's for its poll thread, which the comment   *)
(* in its Drop means to do without.                                        *)
SigtermEnds == []<>~Held => ((server = "draining") ~> (drop = "over"))

(* SegmentCache: once a user's key rests and the breaker lets calls        *)
(* through, what is cached for the user is what the key holds.  Answers    *)
(* that were overtaken, brought by the warm-up or made up while the        *)
(* breaker refused do not stay.                                            *)
SegmentsConverge ==
    \A u \in Users : \A r \in RawValues :
        <>[](Running /\ breaker = "allows" /\ redis[u] = r)
            => <>[](cache[u] \in {"none", Decoded(r)})

=============================================================================
