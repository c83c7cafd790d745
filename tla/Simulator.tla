------------------------------ MODULE Simulator ------------------------------
(***************************************************************************)
(* The simulators of the analytics service (app/main.py): the handlers     *)
(* that start and stop one, the task that posts its payloads to the API    *)
(* server, the retries of a post and the delivery metrics.                 *)
(*                                                                         *)
(* One module stands for both kinds: the location simulator, with its      *)
(* global _simulator_task, and the battle simulator of one session, with   *)
(* its entry of _battle_tasks.  The registry is the variable slot; a       *)
(* behavior is one of either kind.                                         *)
(*                                                                         *)
(* Atomicity: asyncio runs one thing at a time, so a step is what a        *)
(* handler or a task does from one await to the next.                      *)
(***************************************************************************)
EXTENDS Integers, Sequences, FiniteSets, FiniteSetsExt

CONSTANTS Starts,       \* start requests; the task one creates has its name
          Stops,        \* stop requests
          MaxAttempts,  \* HTTP_RETRY_ATTEMPTS
          Ships,        \* len(req.ship_ids): payloads of a location simulator per round
          MaxPayloads,  \* bound: payloads a task makes, whole rounds
          None

ASSUME ConstantsAssumption == /\ MaxAttempts \in Nat
                              /\ Ships \in Nat \ {0}
                              /\ MaxPayloads \in Nat \ {0}
                              /\ MaxPayloads % Ships = 0
                              /\ IsFiniteSet(Starts)
                              /\ None \notin Starts

VARIABLES kind,       \* which of the two simulators, "location" or "battle"
          slot,       \* _simulator_task, or the entry of _battle_tasks
          start,      \* start[s]: whether start request s was served
          stop,       \* stop[p]: how far stop request p is
          awaits,     \* awaits[p]: the task whose end p awaits
          task,       \* task[t]: where task t is suspended
          cancelled,  \* tasks that get CancelledError when they run next
          made,       \* made[t]: payloads t made
          attempt,    \* attempt[t]: posts of the last payload, 0 when it is settled
          over,       \* over[t]: the status of the battle is not "running"
          posts,      \* posts[t]: the payload of each post of t
          metrics,    \* delivery_metrics
          raced,      \* history: a task was created while a stop was waiting
          quiet       \* history: stops called since a task was last created

vars == <<kind, slot, start, stop, awaits, task, cancelled, made, attempt, over, posts, metrics,
          raced, quiet>>
registry == <<kind, slot, start, stop, awaits, raced, quiet>>
delivery == <<made, attempt, over, posts, metrics>>

Suspended == {"ready", "posting", "backoff", "sleeping", "closing"}
Live(t) == task[t] \in Suspended

TypeOK == /\ kind \in {"location", "battle"}
          /\ slot \in Starts \cup {None}
          /\ start \in [Starts -> BOOLEAN]
          /\ stop \in [Stops -> {"idle", "waiting", "answered"}]
          /\ awaits \in [Stops -> Starts \cup {None}]
          /\ task \in [Starts -> Suspended \cup {"none", "done"}]
          /\ cancelled \subseteq {t \in Starts : Live(t)}
          /\ made \in [Starts -> 0 .. MaxPayloads]
          /\ attempt \in [Starts -> Nat]
          /\ over \in [Starts -> BOOLEAN]
          /\ posts \in [Starts -> Seq(1 .. MaxPayloads)]
          /\ metrics \in [success : Nat, failure : Nat, retry : Nat]
          /\ raced \in BOOLEAN
          /\ quiet \subseteq Stops

Init == /\ kind \in {"location", "battle"}
        /\ slot = None
        /\ start = [s \in Starts |-> FALSE]
        /\ stop = [p \in Stops |-> "idle"]
        /\ awaits = [p \in Stops |-> None]
        /\ task = [t \in Starts |-> "none"]
        /\ cancelled = {}
        /\ made = [t \in Starts |-> 0]
        /\ attempt = [t \in Starts |-> 0]
        /\ over = [t \in Starts |-> FALSE]
        /\ posts = [t \in Starts |-> <<>>]
        /\ metrics = [success |-> 0, failure |-> 0, retry |-> 0]
        /\ raced = FALSE
        /\ quiet = {}
-----------------------------------------------------------------------------
(* The handlers.                                                           *)

Running == slot # None /\ Live(slot)

\* start_simulation, start_battle_simulation: a task that is not done, be it one
\* that is being cancelled, is reported as running and no other is made.
Start(s) ==
    /\ ~start[s]
    /\ start' = [start EXCEPT ![s] = TRUE]
    /\ IF Running
       THEN UNCHANGED <<slot, task, raced, quiet>>
       ELSE /\ slot' = s
            /\ task' = [task EXCEPT ![s] = "ready"]
            /\ raced' = (raced \/ \E p \in Stops : stop[p] = "waiting")
            /\ quiet' = {}
    /\ UNCHANGED <<kind, stop, awaits, cancelled, delivery>>

\* Mutant: the entry is removed and the task goes on.
StopCallForgets(p) ==
    /\ stop[p] = "idle"
    /\ quiet' = quiet \cup {p}
    /\ stop' = [stop EXCEPT ![p] = "answered"]
    /\ slot' = None
    /\ UNCHANGED <<kind, cancelled, awaits, start, raced, task, delivery>>

\* stop_simulation, stop_battle_simulation: cancel a task that is not done and await
\* its end; without one the registry is cleared at once.
StopCall(p) ==
    /\ stop[p] = "idle"
    /\ quiet' = quiet \cup {p}
    /\ IF Running
       THEN /\ stop' = [stop EXCEPT ![p] = "waiting"]
            /\ awaits' = [awaits EXCEPT ![p] = slot]
            /\ cancelled' = cancelled \cup {slot}
            /\ UNCHANGED slot
       ELSE /\ stop' = [stop EXCEPT ![p] = "answered"]
            /\ slot' = None
            /\ UNCHANGED <<awaits, cancelled>>
    /\ UNCHANGED <<kind, start, raced, task, delivery>>

\* The awaited task is done: the registry is cleared, whatever it holds by now.
StopResume(p) ==
    /\ stop[p] = "waiting"
    /\ task[awaits[p]] = "done"
    /\ stop' = [stop EXCEPT ![p] = "answered"]
    /\ slot' = None
    /\ UNCHANGED <<kind, start, awaits, raced, quiet, task, cancelled, delivery>>
-----------------------------------------------------------------------------
(* The task.                                                               *)

\* The next payload is made and posted; with it a battle may be over.
Post(t) ==
    /\ made[t] < MaxPayloads
    /\ made' = [made EXCEPT ![t] = @ + 1]
    /\ over' \in {over, [over EXCEPT ![t] = (kind = "battle")]}
    /\ attempt' = [attempt EXCEPT ![t] = 1]
    /\ posts' = [posts EXCEPT ![t] = Append(@, made[t] + 1)]
    /\ task' = [task EXCEPT ![t] = "posting"]

\* run_simulator, run_battle_simulator: the first payload, or the one after a sleep.
NextPayload(t) ==
    /\ task[t] \in {"ready", "sleeping"}
    /\ t \notin cancelled
    /\ Post(t)
    /\ UNCHANGED <<registry, cancelled, metrics>>

\* Mutant: the first post of a payload counts as a retry.
RecordCountsPosts(t, ok) ==
    metrics' = [metrics EXCEPT !.retry = @ + attempt[t],
                               !.success = @ + (IF ok THEN 1 ELSE 0),
                               !.failure = @ + (IF ok THEN 0 ELSE 1)]

\* DeliveryMetrics.record; dropped_count always equals failure_count.
Record(t, ok) ==
    metrics' = [metrics EXCEPT !.retry = @ + attempt[t] - 1,
                               !.success = @ + (IF ok THEN 1 ELSE 0),
                               !.failure = @ + (IF ok THEN 0 ELSE 1)]

\* The payload is delivered or dropped: leave the loop, post the next one of the
\* round, or sleep.
Settle(t, ok) ==
    /\ Record(t, ok)
    /\ IF kind = "location" /\ made[t] % Ships # 0
       THEN Post(t)
       ELSE /\ attempt' = [attempt EXCEPT ![t] = 0]
            /\ task' = [task EXCEPT ![t] = IF over[t] THEN "closing" ELSE "sleeping"]
            /\ UNCHANGED <<made, over, posts>>
    /\ UNCHANGED <<registry, cancelled>>

Posting(t) == task[t] = "posting" /\ t \notin cancelled

\* Mutant: one attempt too many.
LastAttemptLate(t) == attempt[t] > Max({MaxAttempts, 1})

\* max_attempts = max(HTTP_RETRY_ATTEMPTS, 1)
LastAttempt(t) == attempt[t] >= Max({MaxAttempts, 1})

\* post_with_retry: a 2xx answer delivers the payload.
Delivered(t) == Posting(t) /\ Settle(t, TRUE)

\* An answer that retryable_status does not name drops it at once, ...
Refused(t) == Posting(t) /\ Settle(t, FALSE)

\* ... a 429, a 5xx or a transport error drops it at the last attempt ...
GiveUp(t) == Posting(t) /\ LastAttempt(t) /\ Settle(t, FALSE)

\* ... and has it posted again, after a pause, before that.
BackOff(t) ==
    /\ Posting(t)
    /\ ~LastAttempt(t)
    /\ task' = [task EXCEPT ![t] = "backoff"]
    /\ UNCHANGED <<registry, cancelled, delivery>>

Retry(t) ==
    /\ task[t] = "backoff"
    /\ t \notin cancelled
    /\ attempt' = [attempt EXCEPT ![t] = @ + 1]
    /\ posts' = [posts EXCEPT ![t] = Append(@, made[t])]
    /\ task' = [task EXCEPT ![t] = "posting"]
    /\ UNCHANGED <<registry, cancelled, made, over, metrics>>

\* Mutant: post_with_retry takes a CancelledError for a transport error.
TakeCancelSwallows(t) ==
    /\ t \in cancelled
    /\ cancelled' = cancelled \ {t}
    /\ task' = [task EXCEPT ![t] = CASE @ = "posting" -> "backoff"
                                     [] @ \in {"ready", "closing"} -> "done"
                                     [] OTHER -> "closing"]
    /\ UNCHANGED <<registry, delivery>>

\* Mutant: the cancellation is still pending after it was raised.
TakeCancelKeeps(t) ==
    /\ t \in cancelled
    /\ task' = [task EXCEPT ![t] = IF @ \in {"ready", "closing"} THEN "done" ELSE "closing"]
    /\ UNCHANGED <<registry, cancelled, delivery>>

\* CancelledError at the await the task is suspended in.  One that never ran and one
\* that already closes its client are done, another closes it first; what it was
\* posting is not recorded.
TakeCancel(t) ==
    /\ t \in cancelled
    /\ cancelled' = cancelled \ {t}
    /\ task' = [task EXCEPT ![t] = IF @ \in {"ready", "closing"} THEN "done" ELSE "closing"]
    /\ UNCHANGED <<registry, delivery>>

\* The HTTP client is closed and the coroutine returns.
Close(t) ==
    /\ task[t] = "closing"
    /\ t \notin cancelled
    /\ task' = [task EXCEPT ![t] = "done"]
    /\ UNCHANGED <<registry, cancelled, delivery>>
-----------------------------------------------------------------------------
Run(t) == \/ NextPayload(t) \/ Delivered(t) \/ Refused(t) \/ GiveUp(t) \/ BackOff(t)
          \/ Retry(t) \/ TakeCancel(t) \/ Close(t)

Next == \/ \E s \in Starts : Start(s)
        \/ \E p \in Stops : StopCall(p) \/ StopResume(p)
        \/ \E t \in Starts : Run(t)

Spec == Init /\ [][Next]_vars

\* The event loop runs every handler and task that can go on; a post is answered or
\* times out (HTTP_TIMEOUT_SECONDS).
FairSpec == Spec /\ \A t \in Starts : WF_vars(Run(t))
                 /\ \A p \in Stops : WF_vars(StopResume(p))
-----------------------------------------------------------------------------
(* Properties.                                                             *)

\* n[t] things of each task t.
Numbered(n) == UNION {{t} \X (1 .. n[t]) : t \in Starts}

\* The counters tell what was posted: every post of every task is in one of them,
\* but for those of the payload a task is posting or was cancelled in
\* (post_with_retry and DeliveryMetrics.record).
MetricsAddUp ==
    Cardinality(Numbered([t \in Starts |-> Len(posts[t])]))
    = metrics.success + metrics.failure + metrics.retry + Cardinality(Numbered(attempt))

\* A task posts its payloads in the order it makes them, the next one only when the
\* one before is settled, none more often than the limit, and nothing after the
\* payload that ends the battle (post_with_retry, run_battle_simulator).
PostsOrderly == \A t \in Starts :
    LET p == posts[t]
    IN  /\ \A i \in 1 .. Len(p) - 1 : p[i + 1] \in {p[i], p[i] + 1}
        /\ \A n \in 1 .. made[t] :
              Cardinality({i \in 1 .. Len(p) : p[i] = n}) \in 1 .. Max({MaxAttempts, 1})

\* As long as no task was created while a stop waited, the registry knows the task
\* that runs, and a stop that was answered with no start after it has ended all:
\* two starts never make two simulators and a stop misses none (the done() checks
\* of the start and stop handlers, cancel and await).
RegistryExact == ~raced =>
    /\ \A t \in Starts : Live(t) => slot = t
    /\ \A p \in quiet : stop[p] = "answered" => \A t \in Starts : ~Live(t)

\* A stop is answered: a cancelled task ends wherever it is suspended, also in the
\* middle of its retries (post_with_retry catches httpx.HTTPError only).
StopsAnswered == \A p \in Stops : stop[p] = "waiting" ~> stop[p] = "answered"

\* openapi.yaml:656 "Stop the battle simulator": after a stop was answered and no
\* start came since, no task posts (stop_battle_simulation).
StopStops == \A p \in quiet : stop[p] = "answered" => \A t \in Starts : ~Live(t)
=============================================================================
