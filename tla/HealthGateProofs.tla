-------------------------- MODULE HealthGateProofs --------------------------
(***************************************************************************)
(* The verdicts of the two gates come in time and are true, for all        *)
(* budgets, poll intervals and probe times, whatever the container does.   *)
(***************************************************************************)
EXTENDS HealthGate, TLAPS

\* Where the clock stands within a poll, and when the poll was begun.
ClockSound ==
  /\ asked <= since /\ since <= now
  /\ pc \in {"probe", "answer"} => since = asked /\ now <= since + ProbeTime
  /\ pc = "sleep" => since <= Budget /\ now <= since + PollInterval
  /\ pc \in {"probe", "answer"} => since <= Budget + PollInterval

\* The deadline kept for failing probes is that of the path the container is on.
DeadlineSound == ~oneShot /\ pc # "over" => deadline = Budget

\* What is known of a container from its life so far.
LifeSound ==
  /\ life # "running" => stopped
  /\ ~restarts => life \in {"running", "exited"}
  /\ ~restarts /\ stopped => life = "exited"
  /\ died <= now

\* What an answer on its way, or judged, still says of the container.
AnswerSound ==
  /\ seen \in Waiting \cup {"healthy"} => declared
  /\ seen = "plain" => ~declared
  /\ pc \in {"answer", "over"} =>
       /\ seen \in Exits => life = "exited" /\ (seen = "exited0" <=> code = 0)
       /\ life = "exited" /\ died < asked => seen \in Exits \cup {"error"}
       /\ seen = "plain" /\ ~restarts /\ stopped => died >= asked
  /\ pc = "sleep" =>
       /\ seen \notin Exits
       /\ life = "exited" /\ died < asked => seen = "error"

\* What a verdict was derived from.
VerdictSound ==
  /\ pc # "over" => verdict = "none"
  /\ verdict = "completed" => oneShot /\ seen = "exited0"
  /\ verdict = "failed" => oneShot /\ seen = "exited1"
  /\ verdict = "crashed" => seen \in Exits
  /\ verdict \in {"healthy", "timeout"} => seen \notin Exits
  /\ verdict = "healthy" /\ ~declared => seen = "plain" /\ Grace <= asked + ProbeTime
  /\ pc = "over" => verdict # "none"

GateIInv == TypeOK /\ ClockSound /\ DeadlineSound /\ LifeSound /\ AnswerSound /\ VerdictSound

-----------------------------------------------------------------------------

LEMMA Numbers ==
  /\ HealthTimeout \in Nat /\ Grace \in Nat /\ ExitTimeout \in Nat /\ ProbeTime \in Nat
  /\ PollInterval \in Nat /\ PollInterval > 0
BY GateAssumption

LEMMA GateInitially == Init => GateIInv
<1> SUFFICES ASSUME Init PROVE GateIInv
  OBVIOUS
<1> USE DEF Init
<1>1. TypeOK
  <2>1. health \in IF declared THEN Waiting \cup {"healthy"} ELSE {"none"}
    BY DEF Waiting
  <2>2. code \in 0 .. 1
    OBVIOUS
  <2>3. seen \in Seen /\ verdict \in Verdicts
    BY DEF Seen, Verdicts
  <2> QED
    BY <2>1, <2>2, <2>3 DEF TypeOK
<1>2. ClockSound
  BY Numbers DEF ClockSound, Budget
<1>3. DeadlineSound /\ LifeSound
  BY DEF DeadlineSound, LifeSound, Budget
<1>4. AnswerSound /\ VerdictSound
  BY DEF AnswerSound, VerdictSound, Waiting, Exits
<1> QED
  BY <1>1, <1>2, <1>3, <1>4 DEF GateIInv

-----------------------------------------------------------------------------
(* The container lives, and time passes.                                   *)

LEMMA ContainerStep ==
  ASSUME GateIInv, Exit \/ ComeBack \/ HealthCheck
  PROVE  GateIInv'
<1> USE DEF GateIInv
<1>1. TypeOK'
  <2>1. CASE Exit
    BY <2>1 DEF TypeOK, Exit, gate, Waiting
  <2>2. CASE ComeBack
    BY <2>2 DEF TypeOK, ComeBack, gate, Waiting
  <2>3. CASE HealthCheck
    BY <2>3 DEF TypeOK, HealthCheck, gate, Waiting
  <2> QED
    BY <2>1, <2>2, <2>3
<1>2. UNCHANGED <<now, oneShot, declared, restarts, gate>> /\ pc # "over"
  BY DEF Exit, ComeBack, HealthCheck
<1>3. ClockSound' /\ DeadlineSound' /\ VerdictSound'
  BY <1>2 DEF ClockSound, DeadlineSound, VerdictSound, Budget, gate
<1>4. LifeSound'
  <2>1. CASE Exit
    BY <2>1 DEF LifeSound, Exit, TypeOK
  <2>2. CASE ComeBack
    BY <2>2 DEF LifeSound, ComeBack, TypeOK
  <2>3. CASE HealthCheck
    BY <2>3 DEF LifeSound, HealthCheck
  <2> QED
    BY <2>1, <2>2, <2>3
<1>5. AnswerSound'
  <2>1. CASE Exit
    BY <2>1 DEF Exit, AnswerSound, ClockSound, TypeOK, gate, Exits
  <2>2. CASE ComeBack
    BY <2>2 DEF ComeBack, AnswerSound, ClockSound, TypeOK, gate, Exits
  <2>3. CASE HealthCheck
    BY <2>3 DEF HealthCheck, AnswerSound, gate
  <2> QED
    BY <2>1, <2>2, <2>3
<1> QED
  BY <1>1, <1>3, <1>4, <1>5

LEMMA TickStep ==
  ASSUME GateIInv, Tick
  PROVE  GateIInv'
<1> USE DEF GateIInv, Tick
<1>1. TypeOK'
  BY DEF TypeOK, container, gate
<1>2. ClockSound'
  BY Numbers DEF ClockSound, TypeOK, Budget, container, gate
<1>3. LifeSound'
  BY DEF LifeSound, TypeOK, container
<1>4. DeadlineSound' /\ AnswerSound' /\ VerdictSound'
  BY DEF DeadlineSound, AnswerSound, VerdictSound, Budget, container, gate
<1> QED
  BY <1>1, <1>2, <1>3, <1>4

-----------------------------------------------------------------------------
(* The gate asks, judges and waits.                                        *)

LEMMA ProbeStep ==
  ASSUME GateIInv, Probe
  PROVE  GateIInv'
<1> USE DEF GateIInv, Probe
<1>1. /\ Classified \in Seen
      /\ Classified \in Exits => life = "exited" /\ (Classified = "exited0" <=> code = 0)
      /\ life = "exited" => Classified \in Exits
      /\ Classified \in Waiting \cup {"healthy"} => declared
      /\ Classified = "plain" => ~declared /\ life # "exited"
  BY DEF TypeOK, Classified, Ended, Seen, Exits, Waiting
<1>2. TypeOK'
  BY <1>1 DEF TypeOK, container, Seen
<1>3. ClockSound' /\ DeadlineSound' /\ LifeSound'
  BY DEF ClockSound, DeadlineSound, LifeSound, Budget, container
<1>4. AnswerSound'
  BY <1>1 DEF AnswerSound, LifeSound, container, Exits, Waiting
<1>5. VerdictSound'
  BY DEF VerdictSound, container
<1> QED
  BY <1>2, <1>3, <1>4, <1>5

LEMMA WakeStep ==
  ASSUME GateIInv, Wake
  PROVE  GateIInv'
<1> USE DEF GateIInv, Wake
<1>1. TypeOK'
  BY DEF TypeOK, container
<1>2. ClockSound'
  BY Numbers DEF ClockSound, TypeOK, Budget, container
<1>3. DeadlineSound' /\ LifeSound' /\ AnswerSound' /\ VerdictSound'
  BY DEF DeadlineSound, LifeSound, AnswerSound, VerdictSound, Budget, container
<1> QED
  BY <1>1, <1>2, <1>3

\* The deadline is the budget once the answer is taken into account.
LEMMA DeadlineRight ==
  ASSUME GateIInv, JudgeHealth
  PROVE  seen \notin Exits \cup {"healthy"} => deadline' = Budget'
<1> USE DEF GateIInv, JudgeHealth
<1>1. UNCHANGED <<oneShot, declared>> /\ answered' = (answered \/ seen # "error")
  BY DEF Within, Conclude, GoOn, container
<1> QED
  BY <1>1 DEF Deadline, Budget, DeadlineSound, AnswerSound, TypeOK, Seen, Exits, Waiting

LEMMA ConcludeStep ==
  ASSUME GateIInv, NEW v \in Verdicts \ {"none"}, Conclude(v), pc = "answer",
         deadline' \in {HealthTimeout, Grace},
         v = "completed" => oneShot /\ seen = "exited0",
         v = "failed" => oneShot /\ seen = "exited1",
         v = "crashed" => seen \in Exits,
         v \in {"healthy", "timeout"} => seen \notin Exits,
         v = "healthy" /\ ~declared => seen = "plain" /\ Grace <= now
  PROVE  GateIInv'
<1> USE DEF GateIInv, Conclude
<1>1. TypeOK'
  BY DEF TypeOK, container
<1>2. ClockSound' /\ DeadlineSound' /\ LifeSound'
  BY DEF ClockSound, DeadlineSound, LifeSound, container
<1>3. AnswerSound'
  BY DEF AnswerSound, container
<1>4. VerdictSound'
  BY Numbers DEF VerdictSound, ClockSound, TypeOK, container
<1> QED
  BY <1>1, <1>2, <1>3, <1>4

LEMMA GoOnStep ==
  ASSUME GateIInv, GoOn, pc = "answer", seen \notin Exits,
         deadline' \in {HealthTimeout, Grace}, ~oneShot => deadline' = Budget', now <= Budget'
  PROVE  GateIInv'
<1> USE DEF GateIInv, GoOn
<1>1. TypeOK'
  BY DEF TypeOK, container
<1>2. ClockSound'
  BY Numbers DEF ClockSound, TypeOK, container
<1>3. DeadlineSound' /\ LifeSound'
  BY DEF DeadlineSound, LifeSound, container
<1>4. AnswerSound'
  BY DEF AnswerSound, container, Exits
<1>5. VerdictSound'
  BY DEF VerdictSound, container
<1> QED
  BY <1>1, <1>2, <1>3, <1>4, <1>5

LEMMA JudgeHealthStep ==
  ASSUME GateIInv, JudgeHealth
  PROVE  GateIInv'
<1>1. pc = "answer" /\ ~oneShot /\ deadline' \in {HealthTimeout, Grace}
  BY DEF GateIInv, TypeOK, JudgeHealth, Deadline
<1>2. CASE seen = "healthy" /\ Conclude("healthy")
  <2>1. declared
    BY <1>2 DEF GateIInv, AnswerSound
  <2> QED
    BY <1>1, <1>2, <2>1, ConcludeStep DEF Verdicts, Exits
<1>3. CASE seen \in Exits /\ Conclude("crashed")
  BY <1>1, <1>3, ConcludeStep DEF Verdicts
<1>4. ASSUME NEW v \in {"timeout", "healthy"}, Within(deadline', v), seen \notin Exits \cup {"healthy"},
             v = "healthy" => seen = "plain"
      PROVE  GateIInv'
  <2>1. deadline' = Budget'
    BY <1>4, DeadlineRight
  <2>2. CASE now >= deadline' /\ Conclude(v)
    <3>1. v = "healthy" => Grace <= now
      BY <1>4, <2>2, Numbers DEF JudgeHealth, Deadline, GateIInv, TypeOK, Waiting
    <3> QED
      BY <1>1, <1>4, <2>2, <3>1, ConcludeStep DEF Verdicts
  <2>3. CASE now < deadline' /\ GoOn
    BY <1>1, <1>4, <2>1, <2>3, GoOnStep, Numbers DEF GateIInv, TypeOK
  <2> QED
    BY <1>1, <1>4, <2>2, <2>3, Numbers DEF Within, GateIInv, TypeOK
<1> QED
  BY <1>2, <1>3, <1>4 DEF JudgeHealth, Waiting, Exits

LEMMA JudgeExitStep ==
  ASSUME GateIInv, JudgeExit
  PROVE  GateIInv'
<1>1. pc = "answer" /\ oneShot /\ deadline' \in {HealthTimeout, Grace}
  BY DEF GateIInv, TypeOK, JudgeExit
<1>2. CASE seen = "exited0" /\ Conclude("completed")
  BY <1>1, <1>2, ConcludeStep DEF Verdicts
<1>3. CASE seen = "exited1" /\ Conclude("failed")
  BY <1>1, <1>3, ConcludeStep DEF Verdicts
<1>4. CASE seen \notin Exits /\ Within(ExitTimeout, "timeout")
  <2>1. CASE Conclude("timeout")
    BY <1>1, <1>4, <2>1, ConcludeStep DEF Verdicts
  <2>2. CASE now < ExitTimeout /\ GoOn
    <3>1. Budget' = ExitTimeout
      BY <1>1, <2>2 DEF GoOn, Budget, container
    <3> QED
      BY <1>1, <1>4, <2>2, <3>1, GoOnStep, Numbers DEF GateIInv, TypeOK, GoOn, container
  <2> QED
    BY <1>4, <2>1, <2>2, Numbers DEF Within, GateIInv, TypeOK
<1> QED
  BY <1>2, <1>3, <1>4 DEF JudgeExit

-----------------------------------------------------------------------------

LEMMA GateInvariant == Spec => []GateIInv
<1>1. GateIInv /\ [Next]_vars => GateIInv'
  <2> SUFFICES ASSUME GateIInv, [Next]_vars PROVE GateIInv'
    OBVIOUS
  <2>1. CASE UNCHANGED vars
    BY <2>1 DEF vars, container, gate, GateIInv, TypeOK, ClockSound, DeadlineSound, LifeSound,
                AnswerSound, VerdictSound, Budget
  <2>2. CASE Next
    BY <2>1, <2>2, ContainerStep, TickStep, ProbeStep, WakeStep, JudgeHealthStep, JudgeExitStep
       DEF Next, Over
  <2> QED
    BY <2>1, <2>2
<1> QED
  BY <1>1, GateInitially, PTL DEF Spec

\* Whatever the container does and whichever probes fail, the gate is over one poll and
\* one probe after the budget of the path it is on.
THEOREM GateInTime == Spec => []GateInv
<1>1. GateIInv => GateInv
  BY Numbers DEF GateIInv, GateInv, GateBounded, ClockSound, TypeOK, Budget
<1> QED
  BY <1>1, GateInvariant, PTL

\* A container without healthcheck and restart policy is accepted only if it ran for the
\* grace period, short of the time that its last answer took.
THEOREM GraceKept == Spec => []GraceHonoured
<1>1. GateIInv => GraceHonoured
  <2> SUFFICES ASSUME GateIInv, verdict = "healthy", ~declared, ~restarts, stopped
               PROVE  died + ProbeTime >= Grace
    BY DEF GraceHonoured
  <2>1. pc = "over" /\ seen = "plain" /\ Grace <= asked + ProbeTime
    BY DEF GateIInv, VerdictSound, TypeOK, Verdicts
  <2>2. died >= asked
    BY <2>1 DEF GateIInv, AnswerSound
  <2> QED
    BY <2>1, <2>2, Numbers DEF GateIInv, TypeOK
<1> QED
  BY <1>1, GateInvariant, PTL

\* A container that ended before it was last asked about is not waited for or accepted,
\* and what is said of a one-shot's end is so.
THEOREM VerdictsTrue == Spec => []VerdictTruthful
<1>1. GateIInv => EndNoticed
  BY DEF GateIInv, EndNoticed, AnswerSound, VerdictSound, TypeOK, Verdicts, Seen, Exits, Waiting
<1>2. GateIInv => ExitTruthful
  BY DEF GateIInv, ExitTruthful, AnswerSound, VerdictSound, TypeOK, Exits
<1> QED
  BY <1>1, <1>2, GateInvariant, PTL DEF VerdictTruthful
=============================================================================
