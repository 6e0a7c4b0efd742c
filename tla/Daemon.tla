-------------------------------- MODULE Daemon --------------------------------
(***************************************************************************)
(* The process of `freshdock run` (commands/run.rs) in time: the ticks of  *)
(* the loop, how long a tick takes, the notifications sent within it       *)
(* (notify/mod.rs), and what a signal, a kill and a set-back clock do.     *)
(* What a tick decides is the subject of Scheduler, how an update proceeds *)
(* that of RecreateCycle and Rollout; here they are outcomes that take     *)
(* time.  The environment is who publishes images, sends signals, kills    *)
(* and starts the process.  One unit of time stands for several seconds.   *)
(***************************************************************************)
EXTENDS Integers, FiniteSets, SequencesExt

CONSTANTS
  Live, Watch,     \* the containers polled in those modes
  Siblings,        \* of Live, in calendar modes: updated by its rollouts only
  Opted,           \* the containers with freshdock.notify
  Targets,         \* the notification targets
  Flaky,           \* those whose sends may fail
  AvailableTo, SucceededTo, FailedTo,  \* the targets that subscribe to each trigger
  TickArg, IntervalArg,                \* --tick and --interval
  StopTimeouts,    \* the --stop-timeout that are tried
  CallTime,        \* bound: time that a probe, a pull or a swap takes
  SendTimeout,     \* bound: the time one send takes; REQUEST_TIMEOUT, by mail lettre's own
  Setback,         \* bound: by how much the wall clock is set back, once
  MaxPublish,      \* bound: digests published
  MaxEvents        \* bound: publications and settings of the clock

Polled == Live \cup Watch

Nobody == "nobody"

ASSUME DaemonAssumption ==
  /\ Live \cap Watch = {} /\ Siblings \cap Polled = {} /\ Opted \subseteq Polled \cup Siblings
  /\ Flaky \cup AvailableTo \cup SucceededTo \cup FailedTo \subseteq Targets
  /\ {TickArg, IntervalArg, CallTime, SendTimeout, Setback, MaxPublish, MaxEvents} \subseteq Nat
  /\ StopTimeouts \subseteq Nat
  /\ IsFiniteSet(Polled \cup Siblings) /\ IsFiniteSet(Targets)
  /\ Nobody \notin Polled

VARIABLES
  process,      \* "up" or "down"
  stopTimeout,  \* --stop-timeout; chosen when it begins to matter
  signalled, drain,    \* the time since the first signal
  phase, missed,       \* the ticker: time since a multiple of the tick; is one due?
  pc,           \* "idle", "tick", or what is in flight for `cur`
  spent,        \*   for how long
  todo, cur,    \* the due containers of this tick not visited yet, the one in process
  elapsed,      \* wall time since this tick's `now`
  attempt,      \* pulls so far
  latest,       \* the digest that the probe fetched
  queue, pending,      \* the events to dispatch, the targets left for the first
  seen, age,    \* containers with a state, the wall time since last_checked
  notified,     \* last_notified_digest, of the watched containers
  upstream,     \* the digest served; 0 is what runs
  setBack,      \* has the clock been set back?
  \* history:
  waited,       \* time since a container was polled, or the process started
  facts,        \* what has happened to containers in the present processing
  told,         \* what targets were told in it
  heard         \* the newest digest that a reachable target was told is available

clock == <<phase, missed, elapsed, age, setBack, waited>>
work == <<pc, spent, todo, cur, attempt, latest, queue, pending>>
life == <<process, stopTimeout, signalled, drain>>
report == <<facts, told, heard>>
daemonVars == <<life, clock, work, seen, notified, upstream, report>>

\* The clamps of run: both arguments may be 0.
Tick == IF TickArg < 1 THEN 1 ELSE TickArg
Interval == LET i == IF IntervalArg < 1 THEN 1 ELSE IntervalArg IN IF i < Tick THEN Tick ELSE i

\* PULL_RETRY_DELAYS: 2, 5 and 10 seconds, in units.
RetryDelays == <<1, 1, 1>>

Subscribers(trigger) ==
  CASE trigger = "available" -> AvailableTo
    [] trigger = "succeeded" -> SucceededTo
    [] trigger = "failed" -> FailedTo

Events == [trigger : {"available", "succeeded", "failed"}, container : Polled \cup Siblings]

\* Sending one event, to one target after the other.
Round == Cardinality(Targets) * SendTimeout

\* The longest that the processing of a container takes: a probe, then either the news
\* that an image is there, or the pulls with their pauses, the swap and its news.
LongestNotice == CallTime + Round
LongestUpdate ==
  CallTime + (Len(RetryDelays) + 1) * CallTime + RetryDelays[1] + RetryDelays[2] + RetryDelays[3]
  + CallTime + (Cardinality(Siblings) + 1) * Round

LongestStep == IF Live = {} THEN LongestNotice ELSE LongestUpdate
LongestTick == Cardinality(Live) * LongestUpdate + Cardinality(Watch) * LongestNotice

\* A poll waits for the interval, a tick and those before it in the tick.
LongestWait == Interval + (IF LongestTick > Tick THEN LongestTick ELSE Tick) + LongestTick
               + (IF setBack THEN Setback ELSE 0)

AgeCap == Interval + Setback

DaemonTypeOK ==
  /\ process \in {"up", "down"}
  /\ stopTimeout \in StopTimeouts \cup {0} /\ signalled \in BOOLEAN
  /\ drain \in 0 .. stopTimeout
  /\ phase \in 0 .. Tick - 1 /\ missed \in BOOLEAN
  /\ pc \in {"idle", "tick", "probe", "pull", "backoff", "swap", "send"}
  /\ spent \in Nat /\ todo \subseteq Polled /\ cur \in Polled \cup {Nobody}
  /\ elapsed \in -Setback .. AgeCap /\ attempt \in 0 .. Len(RetryDelays) + 1
  /\ latest \in 0 .. MaxPublish /\ queue \in Seq(Events) /\ pending \subseteq Targets
  /\ seen \subseteq Polled /\ age \in [Polled -> -Setback .. AgeCap]
  /\ notified \in [Watch -> 0 .. MaxPublish] /\ upstream \in 0 .. MaxPublish
  /\ setBack \in BOOLEAN /\ waited \in [Polled -> Nat]
  /\ facts \subseteq Events /\ told \subseteq Events \X Targets
  /\ heard \in [Targets -> 0 .. MaxPublish]
  /\ (cur = Nobody) <=> pc \in {"idle", "tick"}
  /\ pc = "backoff" => attempt \in DOMAIN RetryDelays

\* The end of the process.  Nothing is kept for the next one, which begins with a tick
\* due at once and no container's state.
End ==
  /\ process' = "down"
  /\ stopTimeout' = 0 /\ signalled' = FALSE /\ drain' = 0
  /\ phase' = 0 /\ missed' = TRUE
  /\ pc' = "idle" /\ spent' = 0 /\ todo' = {} /\ cur' = Nobody
  /\ elapsed' = 0 /\ attempt' = 0 /\ latest' = 0 /\ queue' = <<>> /\ pending' = {}
  /\ seen' = {} /\ age' = [c \in Polled |-> 0] /\ notified' = [c \in Watch |-> 0]
  /\ waited' = [c \in Polled |-> 0] /\ facts' = {} /\ told' = {}
  /\ UNCHANGED <<setBack, upstream, heard>>

DaemonInit ==
  /\ process = "up"
  /\ stopTimeout = 0 /\ signalled = FALSE /\ drain = 0
  /\ phase = 0 /\ missed = TRUE
  /\ pc = "idle" /\ spent = 0 /\ todo = {} /\ cur = Nobody
  /\ elapsed = 0 /\ attempt = 0 /\ latest = 0 /\ queue = <<>> /\ pending = {}
  /\ seen = {} /\ age = [c \in Polled |-> 0] /\ notified = [c \in Watch |-> 0]
  /\ upstream = 0 /\ setBack = FALSE
  /\ waited = [c \in Polled |-> 0] /\ facts = {} /\ told = {}
  /\ heard = [t \in Targets |-> 0]

-----------------------------------------------------------------------------
(* The environment.                                                        *)

MayHappen == upstream + (IF setBack THEN 1 ELSE 0) < MaxEvents

Publish ==
  /\ MayHappen /\ upstream < MaxPublish
  /\ upstream' = upstream + 1
  /\ UNCHANGED <<life, clock, work, seen, notified, report>>

SetBack ==
  /\ MayHappen /\ process = "up" /\ ~signalled /\ ~setBack
  /\ setBack' = TRUE
  /\ elapsed' = elapsed - (IF pc = "idle" THEN 0 ELSE Setback)
  /\ age' = [c \in Polled |-> IF c \in seen THEN age[c] - Setback ELSE 0]
  /\ UNCHANGED <<life, phase, missed, waited, work, seen, notified, upstream, report>>

\* Only the first signal counts.  No tick begins after it, so that the clocks matter no
\* more and are let be.
Signal ==
  /\ process = "up" /\ ~signalled
  /\ signalled' = TRUE /\ stopTimeout' \in StopTimeouts
  /\ phase' = 0 /\ missed' = FALSE /\ elapsed' = 0
  /\ age' = [c \in Polled |-> 0] /\ waited' = [c \in Polled |-> 0]
  /\ UNCHANGED <<process, drain, setBack, work, seen, notified, upstream, report>>

Kill == process = "up" /\ End

Restart ==
  /\ process = "down" /\ process' = "up"
  /\ UNCHANGED <<stopTimeout, signalled, drain, clock, work, seen, notified, upstream, report>>

-----------------------------------------------------------------------------
(* Time.  Calls end within their bounds, and what is due is not put off.   *)

\* Mutant: the client has no timeout; a send ends when the peer likes.
NoPatience == 12 * SendTimeout

Patience == SendTimeout

Limit ==
  CASE pc \in {"idle", "tick"} -> 0
    [] pc \in {"probe", "pull", "swap"} -> CallTime
    [] pc = "backoff" -> RetryDelays[attempt]
    [] pc = "send" -> IF pending = {} THEN 0 ELSE Patience

\* The loop waits at the select for a tick or the shutdown.
Waiting == pc = "idle" /\ ~missed /\ ~signalled

Capped(n, bound) == IF n < bound THEN n ELSE bound

Pass ==
  /\ process = "up"
  /\ Waiting \/ spent < Limit
  /\ spent' = IF pc = "idle" THEN 0 ELSE spent + 1
  /\ IF signalled
       THEN drain < stopTimeout /\ drain' = drain + 1 /\ UNCHANGED clock
       ELSE /\ phase' = (phase + 1) % Tick
            /\ missed' = (missed \/ phase' = 0)
            /\ elapsed' = IF pc = "idle" THEN 0 ELSE Capped(elapsed + 1, AgeCap)
            /\ age' = [c \in Polled |-> IF c \in seen THEN Capped(age[c] + 1, AgeCap) ELSE 0]
            /\ waited' = [c \in Polled |-> Capped(waited[c] + 1, LongestWait + 1)]
            /\ UNCHANGED <<drain, setBack>>
  /\ UNCHANGED <<process, stopTimeout, signalled, pc, todo, cur, attempt, latest, queue,
                 pending, seen, notified, upstream, report>>

-----------------------------------------------------------------------------
(* run and run_with.                                                       *)

Up(at) == process = "up" /\ pc = at

\* The tick is due; the listing and `now` come first.
Fire ==
  /\ Up("idle") /\ missed /\ ~signalled
  /\ missed' = FALSE
  /\ pc' = "tick" /\ elapsed' = 0
  /\ todo' = {c \in Polled : c \notin seen \/ age[c] >= Interval}
  /\ UNCHANGED <<life, phase, age, setBack, waited, spent, cur, attempt, latest, queue, pending,
                 seen, notified, upstream, report>>

EndTick ==
  /\ Up("tick") /\ todo = {}
  /\ pc' = "idle" /\ elapsed' = 0 /\ facts' = {} /\ told' = {}
  /\ UNCHANGED <<life, phase, missed, age, setBack, waited, spent, todo, cur, attempt, latest,
                 queue, pending, seen, notified, upstream, heard>>

\* No container is begun once the signal is there.
Decline ==
  /\ Up("tick") /\ todo # {} /\ signalled
  /\ todo' = {}
  /\ UNCHANGED <<life, clock, pc, spent, cur, attempt, latest, queue, pending,
                 seen, notified, upstream, report>>

Exit == Up("idle") /\ signalled /\ End

\* The other branch of run's select: whatever is in flight is dropped.
ForcedExit == process = "up" /\ signalled /\ drain = stopTimeout /\ End

-----------------------------------------------------------------------------
(* process_container and apply_update.                                     *)

\* Mutant: the signal is seen by the select only.
VisitDraining(c) ==
  /\ Up("tick") /\ c \in todo
  /\ pc' = "probe" /\ cur' = c /\ todo' = todo \ {c} /\ spent' = 0
  /\ seen' = seen \cup {c} /\ age' = [age EXCEPT ![c] = elapsed]
  /\ waited' = [waited EXCEPT ![c] = 0]
  /\ facts' = {} /\ told' = {}
  /\ UNCHANGED <<life, phase, missed, elapsed, setBack, attempt, latest, queue, pending,
                 notified, upstream, heard>>

\* The poll counts from this tick's `now`.
Visit(c) ==
  /\ Up("tick") /\ c \in todo /\ ~signalled
  /\ pc' = "probe" /\ cur' = c /\ todo' = todo \ {c} /\ spent' = 0
  /\ seen' = seen \cup {c} /\ age' = [age EXCEPT ![c] = elapsed]
  /\ waited' = [waited EXCEPT ![c] = 0]
  /\ facts' = {} /\ told' = {}
  /\ UNCHANGED <<life, phase, missed, elapsed, setBack, attempt, latest, queue, pending,
                 notified, upstream, heard>>

To(at) == pc' = at /\ spent' = 0

Done ==
  /\ To("tick") /\ cur' = Nobody /\ attempt' = 0
  /\ queue' = <<>> /\ pending' = {}

\* Dispatch the events, and be done with the container.
Dispatch(news) ==
  IF news = <<>> THEN Done
  ELSE /\ To("send")
       /\ queue' = news /\ pending' = Subscribers(news[1].trigger)
       /\ UNCHANGED <<cur, attempt>>

Event(trigger, c) == [trigger |-> trigger, container |-> c]

\* For a watched container an image that it was told of is no news.
Probe ==
  /\ Up("probe")
  /\ IF cur \in Watch
       THEN IF upstream > 0 /\ cur \in Opted /\ notified[cur] # upstream
              THEN /\ Dispatch(<<Event("available", cur)>>) /\ latest' = upstream
                   /\ facts' = {Event("available", cur)}
              ELSE Done /\ UNCHANGED <<latest, facts>>
       ELSE /\ \/ Done
               \/ To("pull") /\ attempt' = 1 /\ UNCHANGED <<cur, queue, pending>>
            /\ UNCHANGED <<latest, facts>>
  /\ UNCHANGED <<life, clock, todo, seen, notified, upstream, told, heard>>

\* Mutant: one retry more than there are delays.
RetryableOnceMore == attempt <= Len(RetryDelays) + 1

Retryable == attempt <= Len(RetryDelays)

\* retry_rate_limited.
Pull ==
  /\ Up("pull")
  /\ \/ To("swap") /\ UNCHANGED <<cur, attempt, queue, pending>>
     \/ Retryable /\ To("backoff") /\ UNCHANGED <<cur, attempt, queue, pending>>
     \/ Done
  /\ UNCHANGED <<life, clock, todo, latest, seen, notified, upstream, report>>

Retry ==
  /\ Up("backoff") /\ spent = Limit
  /\ To("pull") /\ attempt' = attempt + 1
  /\ UNCHANGED <<life, clock, todo, cur, latest, queue, pending, seen, notified, upstream, report>>

\* Mutant: the members' news follows the policy of the container that is due.
StepEventsOfTrigger(updated) ==
  IF cur \in Opted THEN {[i \in DOMAIN s |-> Event("succeeded", s[i])] : s \in SetToSeqs(updated)} ELSE {<<>>}

\* report_rollout: an update is announced if its own container opted in, in the order in
\* which the members were updated.
StepEvents(updated) ==
  {[i \in DOMAIN s |-> Event("succeeded", s[i])] : s \in SetToSeqs(updated \cap Opted)}

\* A lone update lands, is rolled back or fails without news; of a rollout the members
\* are updated in some order, up to the one that aborts it.
Swap ==
  /\ Up("swap")
  /\ \E updated \in SUBSET ({cur} \cup Siblings), failed \in BOOLEAN : \E news \in StepEvents(updated) :
       /\ failed => updated # {cur} \cup Siblings
       /\ ~failed => updated \in {{cur} \cup Siblings, {}}
       /\ Dispatch(news \o (IF failed /\ cur \in Opted THEN <<Event("failed", cur)>> ELSE <<>>))
       /\ facts' = {Event("succeeded", c) : c \in updated}
                   \cup (IF failed THEN {Event("failed", cur)} ELSE {})
  /\ UNCHANGED <<life, clock, todo, latest, seen, notified, upstream, told, heard>>

-----------------------------------------------------------------------------
(* dispatch.                                                               *)

\* Mutant: a failed send ends the dispatch.
AfterFailureNone(t) == {}

AfterFailure(t) == pending \ {t}

Send(t) ==
  /\ Up("send") /\ t \in pending
  /\ \/ /\ pending' = pending \ {t}
        /\ told' = told \cup {<<queue[1], t>>}
        /\ heard' = IF queue[1].trigger = "available" /\ t \notin Flaky THEN [heard EXCEPT ![t] = latest] ELSE heard
     \/ t \in Flaky /\ pending' = AfterFailure(t) /\ UNCHANGED <<told, heard>>
  /\ spent' = 0
  /\ UNCHANGED <<life, clock, pc, todo, cur, attempt, latest, queue, seen, notified, upstream, facts>>

\* Mutant: what is recorded is what upstream serves by then.
RecordedNow == upstream

Recorded == latest

\* The first event is through; an image announced is recorded, whoever has heard of it.
Dispatched ==
  /\ Up("send") /\ pending = {}
  /\ Dispatch(Tail(queue)) /\ latest' = 0
  /\ notified' = IF cur \in Watch THEN [notified EXCEPT ![cur] = Recorded] ELSE notified
  /\ UNCHANGED <<life, clock, todo, seen, upstream, report>>

Step ==
  \/ Fire \/ EndTick \/ Decline \/ Exit \/ ForcedExit
  \/ \E c \in Polled : Visit(c)
  \/ Probe \/ Pull \/ Retry \/ Swap
  \/ \E t \in Targets : Send(t)
  \/ Dispatched

DaemonNext == Step \/ Pass \/ Publish \/ SetBack \/ Signal \/ Kill \/ Restart

\* Calls return, time passes, and whoever runs the daemon starts it again.
DaemonSpec == DaemonInit /\ [][DaemonNext]_daemonVars

DaemonFair == DaemonSpec /\ WF_daemonVars(Step) /\ WF_daemonVars(Pass)

-----------------------------------------------------------------------------
(* What the process promises.                                              *)

\* After a signal the process drains for no longer than the stop timeout, and for no
\* longer than the container in flight takes: the others of the tick are not begun,
\* and a stop timeout that outlasts one container never forces the exit.
DrainBounded ==
  signalled => drain <= stopTimeout /\ drain <= LongestStep

\* A container in a polling mode is polled within the interval and the length of two
\* ticks, however the calls before it are answered, pulls retried and targets hang; a
\* clock that is set back delays it by that much and no more.
PolledInTime == \A c \in Polled : waited[c] <= LongestWait

\* Retries, drains and ticks have their ends.
TimesBounded == DaemonTypeOK /\ DrainBounded /\ PolledInTime

\* When a container is done with, every target that can be reached was told of all
\* that happened to containers with freshdock.notify and that it subscribes to, and
\* no target of anything else: neither of a sibling that opted out, nor too little
\* because another target failed.
Reported ==
  Up("tick") =>
    \A e \in Events, t \in Targets :
      LET due == e \in facts /\ e.container \in Opted /\ t \in Subscribers(e.trigger)
      IN /\ <<e, t>> \in told => due
         /\ due /\ t \notin Flaky => <<e, t>> \in told

\* Once upstream stays and the process too, every reachable target that subscribes to
\* it has heard of the digest, also one published while another was being announced.
NewestHeard ==
  \A d \in 1 .. MaxPublish, t \in AvailableTo \ Flaky :
    <>[](upstream = d /\ process = "up") => <>(heard[t] = d)
=============================================================================
