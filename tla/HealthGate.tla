----------------------------- MODULE HealthGate -----------------------------
(***************************************************************************)
(* The two gates of health.rs, which poll the replacement until there is a *)
(* verdict: wait_for_health for a service, wait_for_exit for a compose     *)
(* one-shot.  The container lives on while a probe is under way, so the    *)
(* answer judged may be as old as the probe.  Time is in discrete units,   *)
(* counted from the gate's start.                                          *)
(***************************************************************************)
EXTENDS Naturals

CONSTANTS
  HealthTimeout, Grace,   \* the budgets of wait_for_health ...
  ExitTimeout,            \* ... and of wait_for_exit
  PollInterval,   \* the sleep between two probes
  ProbeTime       \* the longest a probe takes to be answered or to fail

ASSUME GateAssumption ==
  /\ {HealthTimeout, Grace, ExitTimeout, ProbeTime} \subseteq Nat
  /\ PollInterval \in Nat \ {0}

VARIABLES
  oneShot,   \* TRUE for wait_for_exit, FALSE for wait_for_health
  now,       \* the clock
  declared,  \* does the container's image declare a healthcheck?
  restarts,  \* may its restart policy bring it back?
  life,      \* "running", "restarting" or "exited"
  health,    \* what its healthcheck last said; "none" without one
  code,      \* its last exit code: 0, or 1 for any other
  pc,        \* "probe" (sent), "answer" (on its way), "sleep" or "over"
  since,     \* when the probe was sent, or the sleep began
  asked,     \* when the last probe was sent (history)
  seen,      \* what the last probe found
  deadline,  \* error_deadline
  verdict,
  answered,  \* has the gate ever had an answer? (history)
  stopped,   \* has the container ever stopped running? (history)
  died       \* and when it last did, or was given up (history)

container == <<oneShot, declared, restarts, life, health, code, stopped, died>>
gate == <<pc, since, asked, seen, deadline, verdict, answered>>
vars == <<now, container, gate>>

Exits == {"exited0", "exited1"}
Waiting == {"starting", "unhealthy"}
Seen == Exits \cup Waiting \cup {"healthy", "plain", "error"}
Verdicts == {"none", "healthy", "timeout", "crashed", "completed", "failed"}

TypeOK ==
  /\ now \in Nat /\ since \in Nat /\ asked \in Nat /\ died \in Nat
  /\ oneShot \in BOOLEAN /\ declared \in BOOLEAN /\ restarts \in BOOLEAN
  /\ answered \in BOOLEAN /\ stopped \in BOOLEAN
  /\ life \in {"running", "restarting", "exited"}
  /\ health \in IF declared THEN Waiting \cup {"healthy"} ELSE {"none"}
  /\ code \in 0 .. 1
  /\ pc \in {"probe", "answer", "sleep", "over"}
  /\ seen \in Seen
  /\ deadline \in {HealthTimeout, Grace}
  /\ verdict \in Verdicts

Init ==
  /\ now = 0
  /\ oneShot \in BOOLEAN /\ declared \in BOOLEAN /\ restarts \in BOOLEAN
  /\ life = "running"
  /\ health = IF declared THEN "starting" ELSE "none"
  /\ code = 0
  /\ pc = "probe"
  /\ since = 0
  /\ asked = 0
  /\ seen = "error"
  /\ deadline = HealthTimeout
  /\ verdict = "none"
  /\ answered = FALSE
  /\ stopped = FALSE
  /\ died = 0

-----------------------------------------------------------------------------
(* The container, until the verdict, and the clock.                        *)

\* The monitor of a stopped container leaves it unhealthy.
Exit ==
  /\ pc # "over"
  /\ life = "running"
  /\ life' \in IF restarts THEN {"restarting", "exited"} ELSE {"exited"}
  /\ code' \in 0 .. 1
  /\ health' = IF declared THEN "unhealthy" ELSE "none"
  /\ stopped' = TRUE
  /\ died' = now
  /\ UNCHANGED <<now, oneShot, declared, restarts, gate>>

\* The restart policy's next attempt; or it has none left.
ComeBack ==
  /\ pc # "over"
  /\ life = "restarting"
  /\ \/ life' = "running" /\ health' = (IF declared THEN "starting" ELSE "none") /\ UNCHANGED died
     \/ life' = "exited" /\ died' = now /\ UNCHANGED health
  /\ UNCHANGED <<now, oneShot, declared, restarts, code, stopped, gate>>

HealthCheck ==
  /\ pc # "over"
  /\ life = "running" /\ declared
  /\ health' \in {"healthy", "unhealthy"}
  /\ UNCHANGED <<now, oneShot, declared, restarts, life, code, stopped, died, gate>>

\* A probe is answered, or fails, in ProbeTime; a sleep ends when it is due.
Tick ==
  /\ \/ pc \in {"probe", "answer"} /\ now < since + ProbeTime
     \/ pc = "sleep" /\ now < since + PollInterval
  /\ now' = now + 1
  /\ UNCHANGED <<container, gate>>

-----------------------------------------------------------------------------
(* The gate.                                                               *)

Ended == IF code = 0 THEN "exited0" ELSE "exited1"

\* Mutant: State.Running is not looked at, State.Status only.
ClassifiedByStatus ==
  IF life # "running" THEN Ended ELSE IF declared THEN health ELSE "plain"

\* classify_runtime_state: State.Running is also true of a container that its
\* restart policy is about to start again.
Classified ==
  IF life = "exited" THEN Ended ELSE IF declared THEN health ELSE "plain"

\* The daemon reads the state at some moment of the probe, or the probe fails.
Probe ==
  /\ pc = "probe"
  /\ pc' = "answer"
  /\ seen' \in {Classified, "error"}
  /\ UNCHANGED <<now, container, since, asked, deadline, verdict, answered>>

Conclude(v) ==
  /\ pc' = "over"
  /\ verdict' = v
  /\ answered' = (answered \/ seen # "error")
  /\ UNCHANGED <<now, container, since, asked, seen>>

GoOn ==
  /\ pc' = "sleep"
  /\ since' = now
  /\ answered' = (answered \/ seen # "error")
  /\ UNCHANGED <<now, container, asked, seen, verdict>>

\* Mutant: the gate is over when the next poll would be too late.
WithinNextPoll(budget, v) ==
  IF now + PollInterval >= budget THEN Conclude(v) ELSE GoOn

Within(budget, v) == IF now >= budget THEN Conclude(v) ELSE GoOn

\* Mutants: a failing probe is always given the health timeout; and what is
\* kept is the time left instead of the deadline.
LongestDeadline == HealthTimeout
RemainingDeadline == IF seen = "plain" THEN Grace - now ELSE HealthTimeout - now

\* The deadline of a failing probe is that of the path last observed.
Deadline ==
  IF seen \in Waiting THEN HealthTimeout ELSE IF seen = "plain" THEN Grace ELSE deadline

\* Mutant: a container that exits with code 0 has not crashed.
JudgeHealthCleanExit ==
  /\ pc = "answer" /\ ~oneShot
  /\ deadline' = Deadline
  /\ \/ seen = "healthy" /\ Conclude("healthy")
     \/ seen = "exited1" /\ Conclude("crashed")
     \/ seen \in Waiting \cup {"error", "exited0"} /\ Within(deadline', "timeout")
     \/ seen = "plain" /\ Within(deadline', "healthy")

JudgeHealth ==
  /\ pc = "answer" /\ ~oneShot
  /\ deadline' = Deadline
  /\ \/ seen = "healthy" /\ Conclude("healthy")
     \/ seen \in Exits /\ Conclude("crashed")
     \/ seen \in Waiting \cup {"error"} /\ Within(deadline', "timeout")
     \/ seen = "plain" /\ Within(deadline', "healthy")

JudgeExit ==
  /\ pc = "answer" /\ oneShot
  /\ \/ seen = "exited0" /\ Conclude("completed")
     \/ seen = "exited1" /\ Conclude("failed")
     \/ seen \notin Exits /\ Within(ExitTimeout, "timeout")
  /\ UNCHANGED deadline

Wake ==
  /\ pc = "sleep"
  /\ now = since + PollInterval
  /\ pc' = "probe"
  /\ since' = now /\ asked' = now
  /\ UNCHANGED <<now, container, seen, deadline, verdict, answered>>

Over == pc = "over" /\ UNCHANGED vars

Next == Probe \/ JudgeHealth \/ JudgeExit \/ Wake \/ Over
          \/ Tick \/ Exit \/ ComeBack \/ HealthCheck

Spec == Init /\ [][Next]_vars

-----------------------------------------------------------------------------
(* What the gates promise.                                                 *)

\* The budget of the path the container is on, as far as the gate can know.
Budget ==
  IF oneShot THEN ExitTimeout
  ELSE IF declared \/ ~answered THEN HealthTimeout ELSE Grace

\* The gate always comes to a verdict, and in time: whatever the container does
\* and whichever probes fail, it is never still polling one poll and one probe
\* after its budget; a container without a healthcheck, once one probe has been
\* answered, never waits for the (longer) health timeout.
GateBounded == pc # "over" => now <= Budget + PollInterval + ProbeTime

\* The deadline is sound, and kept.
GateInv == TypeOK /\ GateBounded

\* Without healthcheck or restart policy, an accepted container kept running for
\* the grace period, short of the time the last answer took.
GraceHonoured ==
  verdict = "healthy" /\ ~declared /\ ~restarts /\ stopped => died + ProbeTime >= Grace

\* A container that had ended before an answered probe was sent is never waited
\* for any longer, nor accepted: its end is the verdict.
EndNoticed ==
  pc \in {"sleep", "over"} /\ life = "exited" /\ died < asked /\ seen # "error"
    => verdict \in {"crashed", "completed", "failed"}

\* A one-shot reported completed, or failed, has ended for good and so: one that
\* its restart policy is about to run again is still waited for.
ExitTruthful ==
  /\ verdict = "completed" => life = "exited" /\ code = 0
  /\ verdict = "failed" => life = "exited" /\ code # 0

\* A verdict is true of the container, and an end is not missed.
VerdictTruthful == EndNoticed /\ ExitTruthful
=============================================================================
