----------------------------- MODULE DaemonProofs -----------------------------
(***************************************************************************)
(* The process of `freshdock run` in time: for any containers, targets and *)
(* durations, any signals, kills and publications, and any answers of the  *)
(* calls, drains and waits for a poll are bounded, and the targets hear    *)
(* what they subscribe to.                                                 *)
(***************************************************************************)
EXTENDS Daemon, FiniteSetTheorems, TLAPS

-----------------------------------------------------------------------------
(* The numbers.                                                            *)

LEMMA Scale ==
  ASSUME NEW a \in Nat, NEW b \in Nat, NEW k \in Nat
  PROVE  /\ a * k \in Nat
         /\ a <= b => a * k <= b * k
         /\ (a + 1) * k = a * k + k
<1>1. a * k \in Nat /\ b * k \in Nat
  OBVIOUS
<1>2. (a + 1) * k = a * k + k
  OBVIOUS
<1>3. ASSUME a <= b PROVE a * k <= b * k
  <2>1. PICK d \in Nat : b = a + d
    BY <1>3
  <2>2. b * k = a * k + d * k /\ d * k \in Nat
    BY <2>1
  <2>. QED
    BY <1>1, <2>2
<1>. QED
  BY <1>1, <1>2, <1>3

LEMMA Delays ==
  /\ Len(RetryDelays) = 3 /\ DOMAIN RetryDelays = 1 .. 3
  /\ \A a \in 1 .. 3 : RetryDelays[a] = 1
BY DEF RetryDelays

LEMMA Finite ==
  /\ IsFiniteSet(Polled) /\ IsFiniteSet(Live) /\ IsFiniteSet(Watch)
  /\ IsFiniteSet(Siblings) /\ IsFiniteSet(Targets)
<1>1. /\ Polled \in SUBSET (Polled \cup Siblings) /\ Live \in SUBSET (Polled \cup Siblings)
      /\ Watch \in SUBSET (Polled \cup Siblings) /\ Siblings \in SUBSET (Polled \cup Siblings)
  BY DEF Polled
<1>2. IsFiniteSet(Polled \cup Siblings) /\ IsFiniteSet(Targets)
  BY DaemonAssumption
<1>. QED
  BY <1>1, <1>2, FS_Subset

LEMMA Clamped ==
  /\ Tick \in Nat /\ Tick >= 1 /\ Interval \in Nat /\ Interval >= Tick
  /\ Setback \in Nat /\ AgeCap = Interval + Setback
<1>1. TickArg \in Nat /\ IntervalArg \in Nat /\ Setback \in Nat
  BY DaemonAssumption
<1>2. Tick \in Nat /\ Tick >= 1
  BY <1>1 DEF Tick
<1>3. Interval \in Nat /\ Interval >= Tick
  BY <1>1, <1>2 DEF Interval
<1>. QED
  BY <1>1, <1>2, <1>3 DEF AgeCap

\* What the processing of c takes at most, what is left of the pulls at the a-th, and what
\* comes after them.
Longest(c) == IF c \in Watch THEN LongestNotice ELSE LongestUpdate
Pulls(a) == (5 - a) * CallTime + (4 - a)
Landing == CallTime + (Cardinality(Siblings) + 1) * Round

LEMMA Durations ==
  /\ CallTime \in Nat /\ SendTimeout \in Nat /\ Round \in Nat /\ Landing \in Nat
  /\ Cardinality(Targets) \in Nat /\ Cardinality(Siblings) \in Nat
  /\ LongestNotice = CallTime + Round /\ LongestNotice \in Nat
  /\ LongestUpdate = CallTime + Pulls(1) + Landing /\ LongestUpdate \in Nat
  /\ Pulls(4) = CallTime
  /\ \A a \in 1 .. 3 : Pulls(a) = CallTime + 1 + Pulls(a + 1)
  /\ \A a \in 1 .. 4 : Pulls(a) \in Nat /\ Pulls(a) >= CallTime
  /\ Round <= Landing /\ LongestNotice <= LongestUpdate
<1>1. /\ CallTime \in Nat /\ SendTimeout \in Nat
      /\ Cardinality(Targets) \in Nat /\ Cardinality(Siblings) \in Nat
  BY DaemonAssumption, Finite, FS_CardinalityType
<1>2. Round \in Nat
  BY <1>1, Scale DEF Round
<1>. DEFINE n == Cardinality(Siblings)
            news == (n + 1) * Round
<1>3. n \in Nat
  BY <1>1
<1>. HIDE DEF n
<1>4. news \in Nat /\ news = n * Round + Round /\ n * Round \in Nat
  BY <1>2, <1>3, Scale
<1>5. news >= Round /\ Landing = CallTime + news
  <2>1. news >= Round
    BY <1>2, <1>4
  <2>2. Landing = CallTime + news
    BY DEF Landing, n
  <2>. QED
    BY <2>1, <2>2
<1>6. LongestUpdate = CallTime + 4 * CallTime + 3 + CallTime + news
  BY <1>1, <1>4, Delays DEF LongestUpdate, n
<1>. HIDE DEF news
<1>7. /\ Pulls(1) = 4 * CallTime + 3 /\ Pulls(2) = 3 * CallTime + 2
      /\ Pulls(3) = 2 * CallTime + 1 /\ Pulls(4) = CallTime
  BY <1>1 DEF Pulls
<1>8. \A a \in 1 .. 4 : a = 1 \/ a = 2 \/ a = 3 \/ a = 4
  OBVIOUS
<1>9. \A a \in 1 .. 3 : Pulls(a) = CallTime + 1 + Pulls(a + 1)
  <2>1. \A a \in 1 .. 3 : a = 1 \/ a = 2 \/ a = 3
    OBVIOUS
  <2>2. 1 + 1 = 2 /\ 2 + 1 = 3 /\ 3 + 1 = 4
    OBVIOUS
  <2>. QED
    BY <1>1, <1>7, <2>1, <2>2
<1>10. \A a \in 1 .. 4 : Pulls(a) \in Nat /\ Pulls(a) >= CallTime
  BY <1>1, <1>7, <1>8
<1>11. LongestNotice = CallTime + Round
  BY DEF LongestNotice
<1>. QED
  BY <1>1, <1>2, <1>4, <1>5, <1>6, <1>7, <1>9, <1>10, <1>11

\* What the processing of some containers, one after the other, takes at most.
Total(C) == Cardinality(C \cap Live) * LongestUpdate + Cardinality(C \cap Watch) * LongestNotice

LEMMA TotalOf ==
  ASSUME NEW C \in SUBSET Polled
  PROVE  /\ Total(C) \in Nat /\ Total(C) <= LongestTick
         /\ \A c \in C : Total(C) = Total(C \ {c}) + Longest(c)
         /\ C = {} => Total(C) = 0
<1>. DEFINE l == Cardinality(C \cap Live)
            w == Cardinality(C \cap Watch)
<1>1. /\ C \cap Live \in SUBSET Live /\ C \cap Watch \in SUBSET Watch
      /\ Live \cap Watch = {} /\ Polled = Live \cup Watch
  BY DaemonAssumption DEF Polled
<1>2. IsFiniteSet(C \cap Live) /\ IsFiniteSet(C \cap Watch) /\ l \in Nat /\ w \in Nat
  BY <1>1, Finite, FS_Subset, FS_CardinalityType
<1>3. /\ Cardinality(Live) \in Nat /\ Cardinality(Watch) \in Nat
      /\ l <= Cardinality(Live) /\ w <= Cardinality(Watch)
  BY <1>1, Finite, FS_Subset, FS_CardinalityType
<1>4. LongestUpdate \in Nat /\ LongestNotice \in Nat
  BY Durations
<1>5. Total(C) = l * LongestUpdate + w * LongestNotice
  BY DEF Total
<1>6. LongestTick = Cardinality(Live) * LongestUpdate + Cardinality(Watch) * LongestNotice
  BY DEF LongestTick
<1>7. Total(C) \in Nat /\ Total(C) <= LongestTick
  <2>. HIDE DEF l, w
  <2>1. l * LongestUpdate \in Nat /\ l * LongestUpdate <= Cardinality(Live) * LongestUpdate
    BY <1>2, <1>3, <1>4, Scale
  <2>2. w * LongestNotice \in Nat /\ w * LongestNotice <= Cardinality(Watch) * LongestNotice
    BY <1>2, <1>3, <1>4, Scale
  <2>3. Cardinality(Live) * LongestUpdate \in Nat /\ Cardinality(Watch) * LongestNotice \in Nat
    BY <1>3, <1>4, Scale
  <2>. QED
    BY <1>5, <1>6, <2>1, <2>2, <2>3
<1>8. ASSUME NEW c \in C, c \in Watch
      PROVE  Total(C) = Total(C \ {c}) + Longest(c)
  <2>1. (C \ {c}) \cap Live = C \cap Live /\ (C \ {c}) \cap Watch = (C \cap Watch) \ {c}
    BY <1>1, <1>8
  <2>2. Cardinality((C \cap Watch) \ {c}) = w - 1 /\ Cardinality((C \cap Watch) \ {c}) \in Nat
    BY <1>2, <1>8, FS_RemoveElement, FS_CardinalityType
  <2>3. Total(C \ {c}) = l * LongestUpdate + (w - 1) * LongestNotice
    BY <2>1, <2>2 DEF Total
  <2>4. PICK n \in Nat : w = n + 1 /\ w - 1 = n
    BY <1>2, <2>2
  <2>5. w * LongestNotice = (w - 1) * LongestNotice + LongestNotice
    BY <1>4, <2>4, Scale
  <2>6. l * LongestUpdate \in Nat /\ (w - 1) * LongestNotice \in Nat
    BY <1>2, <1>4, <2>2, Scale
  <2>. QED
    BY <1>4, <1>5, <1>8, <2>3, <2>5, <2>6 DEF Longest
<1>9. ASSUME NEW c \in C, c \in Live
      PROVE  Total(C) = Total(C \ {c}) + Longest(c)
  <2>1. /\ (C \ {c}) \cap Watch = C \cap Watch /\ (C \ {c}) \cap Live = (C \cap Live) \ {c}
        /\ c \notin Watch
    BY <1>1, <1>9
  <2>2. Cardinality((C \cap Live) \ {c}) = l - 1 /\ Cardinality((C \cap Live) \ {c}) \in Nat
    BY <1>2, <1>9, FS_RemoveElement, FS_CardinalityType
  <2>3. Total(C \ {c}) = (l - 1) * LongestUpdate + w * LongestNotice
    BY <2>1, <2>2 DEF Total
  <2>4. PICK n \in Nat : l = n + 1 /\ l - 1 = n
    BY <1>2, <2>2
  <2>5. l * LongestUpdate = (l - 1) * LongestUpdate + LongestUpdate
    BY <1>4, <2>4, Scale
  <2>6. w * LongestNotice \in Nat /\ (l - 1) * LongestUpdate \in Nat
    BY <1>2, <1>4, <2>2, Scale
  <2>. QED
    BY <1>4, <1>5, <2>1, <2>3, <2>5, <2>6 DEF Longest
<1>10. ASSUME C = {} PROVE Total(C) = 0
  <2>1. l = 0 /\ w = 0
    BY <1>10, FS_EmptySet
  <2>. QED
    BY <1>4, <1>5, <2>1
<1>. QED
  BY <1>1, <1>7, <1>8, <1>9, <1>10

LEMMA LongestOf ==
  /\ \A c \in Polled : Longest(c) \in Nat /\ Longest(c) <= LongestStep
  /\ LongestStep \in Nat
BY Durations DEF Longest, LongestStep, Polled

-----------------------------------------------------------------------------
(* The types.                                                              *)

\* Until the clock is set back nothing is younger than nothing, and a drain begins with
\* the signal.
ClocksSound ==
  /\ ~setBack => elapsed >= 0 /\ \A c \in Polled : age[c] >= 0
  /\ ~signalled => drain = 0

\* Where the process is determines what it has at hand.
PlaceSound ==
  /\ spent <= Limit
  /\ pc = "idle" => todo = {}
  /\ pc \in {"pull", "backoff", "swap"} => cur \notin Watch
  /\ pc = "pull" => attempt \in 1 .. 4
  /\ pc = "send" =>
       /\ queue # <<>> /\ pending \subseteq Subscribers(queue[1].trigger)
       /\ Len(queue) <= IF cur \in Watch THEN 1 ELSE Cardinality(Siblings) + 1

Sound == DaemonTypeOK /\ ClocksSound /\ PlaceSound

LEMMA SubscribersType ==
  ASSUME NEW trigger \in {"available", "succeeded", "failed"}
  PROVE  Subscribers(trigger) \in SUBSET Targets
<1>1. /\ AvailableTo \subseteq Targets /\ SucceededTo \subseteq Targets
      /\ FailedTo \subseteq Targets
  BY DaemonAssumption
<1>. QED
  BY <1>1 DEF Subscribers

LEMMA HeadType ==
  ASSUME NEW q \in Seq(Events), q # <<>>
  PROVE  /\ q[1] \in Events /\ Len(q) \in Nat \ {0} /\ 1 \in DOMAIN q
         /\ Subscribers(q[1].trigger) \in SUBSET Targets
         /\ Tail(q) \in Seq(Events) /\ Len(Tail(q)) = Len(q) - 1
<1>1. q[1] \in Events /\ Len(q) \in Nat \ {0} /\ 1 \in DOMAIN q
  OBVIOUS
<1>2. q[1].trigger \in {"available", "succeeded", "failed"}
  BY <1>1 DEF Events
<1>. QED
  BY <1>1, <1>2, SubscribersType

\* Where the container's events leave the process: done with it, or sending the first.
Sends(news) ==
  /\ spent' = 0 /\ queue' = news
  /\ IF news = <<>> THEN pc' = "tick" /\ cur' = Nobody /\ attempt' = 0 /\ pending' = {}
     ELSE /\ pc' = "send" /\ cur' = cur /\ attempt' = attempt
          /\ pending' = Subscribers(news[1].trigger)

LEMMA Dispatches ==
  ASSUME NEW news, Dispatch(news)
  PROVE  Sends(news)
BY DEF Dispatch, Done, To, Sends

LEMMA DoneSends ==
  ASSUME Done
  PROVE  Sends(<<>>)
BY DEF Done, To, Sends

\* The variables that the work on a container leaves alone.
Framed ==
  /\ UNCHANGED <<process, stopTimeout, signalled, drain>>
  /\ UNCHANGED <<phase, missed, elapsed, age, setBack, waited>>
  /\ UNCHANGED <<todo, seen, upstream>>

LEMMA SendsSound ==
  ASSUME Sound, cur \in Polled, Framed, NEW news \in Seq(Events), Sends(news),
         Len(news) <= IF cur \in Watch THEN 1 ELSE Cardinality(Siblings) + 1,
         latest' \in 0 .. MaxPublish, notified' \in [Watch -> 0 .. MaxPublish],
         facts' \subseteq Events, told' \subseteq Events \X Targets,
         heard' \in [Targets -> 0 .. MaxPublish]
  PROVE  Sound'
<1>1. Nobody \notin Polled /\ SendTimeout \in Nat
  BY DaemonAssumption
<1>2. ClocksSound'
  BY DEF Sound, ClocksSound, Framed
<1>3. CASE news = <<>>
  <2>1. /\ pc' = "tick" /\ cur' = Nobody /\ attempt' = 0 /\ pending' = {} /\ spent' = 0
        /\ queue' = <<>>
    BY <1>3 DEF Sends
  <2>2. DaemonTypeOK'
    BY <2>1, Delays DEF Sound, DaemonTypeOK, Framed
  <2>3. PlaceSound'
    BY <2>1 DEF PlaceSound, Limit
  <2>. QED
    BY <1>2, <2>2, <2>3 DEF Sound
<1>4. CASE news # <<>>
  <2>1. /\ pc' = "send" /\ cur' = cur /\ attempt' = attempt /\ spent' = 0 /\ queue' = news
        /\ pending' = Subscribers(news[1].trigger)
    BY <1>4 DEF Sends
  <2>2. pending' \subseteq Targets
    BY <1>4, <2>1, HeadType
  <2>3. DaemonTypeOK'
    BY <1>1, <2>1, <2>2, Delays DEF Sound, DaemonTypeOK, Framed
  <2>4. spent' <= Limit'
    BY <1>1, <2>1 DEF Limit, Patience
  <2>5. PlaceSound'
    BY <1>4, <2>1, <2>4 DEF PlaceSound
  <2>. QED
    BY <1>2, <2>3, <2>5 DEF Sound
<1>. QED
  BY <1>3, <1>4

LEMMA EndSound ==
  ASSUME Sound, End
  PROVE  Sound'
<1>1. Setback \in Nat /\ AgeCap \in Nat /\ Tick \in Nat /\ Tick >= 1 /\ MaxPublish \in Nat
  BY Clamped, DaemonAssumption
<1>2. 0 \in 0 .. stopTimeout' /\ 0 \in 0 .. Tick - 1 /\ 0 \in -Setback .. AgeCap
      /\ 0 \in 0 .. MaxPublish
  BY <1>1 DEF End
<1>3. DaemonTypeOK'
  <2>1. /\ upstream' \in 0 .. MaxPublish /\ setBack' \in BOOLEAN
        /\ heard' \in [Targets -> 0 .. MaxPublish]
    BY DEF Sound, DaemonTypeOK, End
  <2>2. /\ stopTimeout' \in StopTimeouts \cup {0} /\ drain' \in 0 .. stopTimeout'
        /\ phase' \in 0 .. Tick - 1 /\ elapsed' \in -Setback .. AgeCap
        /\ latest' \in 0 .. MaxPublish /\ attempt' \in 0 .. Len(RetryDelays) + 1
    BY <1>2, Delays DEF End
  <2>3. /\ age' \in [Polled -> -Setback .. AgeCap] /\ notified' \in [Watch -> 0 .. MaxPublish]
        /\ waited' \in [Polled -> Nat]
    BY <1>2 DEF End
  <2>4. /\ process' = "down" /\ signalled' = FALSE /\ missed' = TRUE /\ pc' = "idle"
        /\ spent' = 0 /\ todo' = {} /\ cur' = Nobody /\ queue' = <<>> /\ pending' = {}
        /\ seen' = {} /\ facts' = {} /\ told' = {}
    BY DEF End
  <2>5. queue' \in Seq(Events) /\ cur' \in Polled \cup {Nobody} /\ seen' \subseteq Polled
    BY <2>4
  <2>6. /\ (cur' = Nobody <=> pc' \in {"idle", "tick"})
        /\ (pc' = "backoff" => attempt' \in DOMAIN RetryDelays)
    BY <2>4
  <2>. QED
    BY <2>1, <2>2, <2>3, <2>4, <2>5, <2>6 DEF DaemonTypeOK
<1>4. ClocksSound' /\ PlaceSound'
  BY <1>2 DEF ClocksSound, PlaceSound, Limit, End
<1>. QED
  BY <1>3, <1>4 DEF Sound

LEMMA OutsideSound ==
  ASSUME Sound, Publish \/ SetBack \/ Signal \/ Restart
  PROVE  Sound'
<1>1. Setback \in Nat /\ AgeCap \in Nat /\ Tick \in Nat /\ Tick >= 1 /\ MaxPublish \in Nat
      /\ AgeCap = Interval + Setback /\ Interval \in Nat /\ StopTimeouts \subseteq Nat
  BY Clamped, DaemonAssumption
<1>2. CASE Publish
  <2>1. UNCHANGED <<life, clock, work, seen, notified, report>> /\ upstream' \in 0 .. MaxPublish
    BY <1>1, <1>2 DEF Publish, Sound, DaemonTypeOK
  <2>2. DaemonTypeOK'
    BY <2>1 DEF Sound, DaemonTypeOK, life, clock, work, report
  <2>3. ClocksSound' /\ PlaceSound'
    BY <2>1 DEF Sound, ClocksSound, PlaceSound, Limit, life, clock, work, report
  <2>. QED
    BY <2>2, <2>3 DEF Sound
<1>3. CASE SetBack
  <2>1. /\ UNCHANGED <<life, phase, missed, waited, work, seen, notified, upstream, report>>
        /\ setBack' = TRUE
    BY <1>3 DEF SetBack
  <2>2. /\ elapsed >= 0 /\ elapsed \in -Setback .. AgeCap
        /\ \A c \in Polled : age[c] >= 0 /\ age[c] \in -Setback .. AgeCap
    BY <1>3 DEF SetBack, Sound, ClocksSound, DaemonTypeOK
  <2>3. elapsed' \in -Setback .. AgeCap
    BY <1>1, <1>3, <2>2 DEF SetBack
  <2>4. age' \in [Polled -> -Setback .. AgeCap]
    <3>1. \A c \in Polled : (IF c \in seen THEN age[c] - Setback ELSE 0) \in -Setback .. AgeCap
      BY <1>1, <2>2
    <3>. QED
      BY <1>3, <3>1 DEF SetBack
  <2>5. DaemonTypeOK'
    BY <2>1, <2>3, <2>4 DEF Sound, DaemonTypeOK, life, work, report
  <2>6. ClocksSound' /\ PlaceSound'
    BY <2>1 DEF Sound, ClocksSound, PlaceSound, Limit, life, work, report
  <2>. QED
    BY <2>5, <2>6 DEF Sound
<1>4. CASE Signal
  <2>1. /\ UNCHANGED <<process, drain, setBack, work, seen, notified, upstream, report>>
        /\ signalled' = TRUE /\ stopTimeout' \in StopTimeouts /\ stopTimeout' \in Nat
        /\ phase' = 0 /\ missed' = FALSE /\ elapsed' = 0
        /\ age' = [c \in Polled |-> 0] /\ waited' = [c \in Polled |-> 0]
    BY <1>1, <1>4 DEF Signal
  <2>2. drain = 0 /\ setBack \in BOOLEAN
    BY <1>4 DEF Signal, Sound, ClocksSound, DaemonTypeOK
  <2>3. DaemonTypeOK'
    <3>1. /\ stopTimeout' \in StopTimeouts \cup {0} /\ drain' \in 0 .. stopTimeout'
          /\ phase' \in 0 .. Tick - 1 /\ elapsed' \in -Setback .. AgeCap
      BY <1>1, <2>1, <2>2
    <3>2. age' \in [Polled -> -Setback .. AgeCap] /\ waited' \in [Polled -> Nat]
      BY <1>1, <2>1
    <3>. QED
      BY <2>1, <3>1, <3>2 DEF Sound, DaemonTypeOK, work, report
  <2>4. ClocksSound'
    BY <2>1 DEF ClocksSound
  <2>5. PlaceSound'
    BY <2>1 DEF Sound, PlaceSound, Limit, work
  <2>. QED
    BY <2>3, <2>4, <2>5 DEF Sound
<1>5. CASE Restart
  <2>1. /\ UNCHANGED <<stopTimeout, signalled, drain, clock, work, seen, notified, upstream, report>>
        /\ process' = "up"
    BY <1>5 DEF Restart
  <2>2. DaemonTypeOK'
    BY <2>1 DEF Sound, DaemonTypeOK, clock, work, report
  <2>3. ClocksSound' /\ PlaceSound'
    BY <2>1 DEF Sound, ClocksSound, PlaceSound, Limit, clock, work, report
  <2>. QED
    BY <2>2, <2>3 DEF Sound
<1>. QED
  BY <1>2, <1>3, <1>4, <1>5

LEMMA Wraps ==
  ASSUME NEW n \in 0 .. Tick - 1
  PROVE  (n + 1) % Tick = IF n + 1 = Tick THEN 0 ELSE n + 1
<1>1. Tick \in Nat /\ Tick >= 1 /\ n \in Nat
  BY Clamped
<1>2. CASE n + 1 = Tick
  <2>1. Tick % Tick = 0
    BY <1>1
  <2>. QED
    BY <1>2, <2>1
<1>3. CASE n + 1 # Tick
  <2>1. n + 1 < Tick /\ n + 1 \in Nat
    BY <1>1, <1>3
  <2>2. \A a \in Nat : a < Tick => a % Tick = a
    BY <1>1
  <2>. QED
    BY <1>3, <2>1, <2>2
<1>. QED
  BY <1>2, <1>3

\* Time passes at the select between ticks, or in a call.
LEMMA Passing ==
  ASSUME Sound, Pass
  PROVE  /\ UNCHANGED <<process, stopTimeout, signalled, setBack, pc, todo, cur, attempt, latest>>
         /\ UNCHANGED <<queue, pending, seen, notified, upstream, facts, told, heard>>
         /\ \/ pc = "idle" /\ ~missed /\ ~signalled /\ spent' = 0
            \/ pc \in {"probe", "pull", "backoff", "swap", "send"} /\ spent' = spent + 1 /\ spent < Limit
         /\ \/ signalled /\ drain' = drain + 1 /\ drain < stopTimeout
               /\ UNCHANGED <<phase, missed, elapsed, age, waited>>
            \/ /\ ~signalled /\ drain' = drain
               /\ phase' = (IF phase + 1 = Tick THEN 0 ELSE phase + 1)
               /\ missed' = (missed \/ phase' = 0)
               /\ elapsed' = IF pc = "idle" THEN 0 ELSE Capped(elapsed + 1, AgeCap)
               /\ age' = [c \in Polled |-> IF c \in seen THEN Capped(age[c] + 1, AgeCap) ELSE 0]
               /\ waited' = [c \in Polled |-> Capped(waited[c] + 1, LongestWait + 1)]
<1>1. /\ UNCHANGED <<process, stopTimeout, signalled, setBack, pc, todo, cur, attempt, latest>>
      /\ UNCHANGED <<queue, pending, seen, notified, upstream, facts, told, heard>>
  BY DEF Pass, clock, report
<1>2. \/ pc = "idle" /\ ~missed /\ ~signalled /\ spent' = 0
      \/ pc \in {"probe", "pull", "backoff", "swap", "send"} /\ spent' = spent + 1 /\ spent < Limit
  <2>1. pc \in {"idle", "tick"} => ~(spent < Limit)
    BY DEF Limit, Sound, DaemonTypeOK
  <2>2. pc \in {"idle", "tick", "probe", "pull", "backoff", "swap", "send"}
    BY DEF Sound, DaemonTypeOK
  <2>. QED
    BY <2>1, <2>2 DEF Pass, Waiting
<1>3. (phase + 1) % Tick = IF phase + 1 = Tick THEN 0 ELSE phase + 1
  BY Wraps DEF Sound, DaemonTypeOK
<1>4. CASE signalled
  BY <1>1, <1>2, <1>4 DEF Pass, clock
<1>5. CASE ~signalled
  <2>1. /\ drain' = drain /\ phase' = (phase + 1) % Tick
        /\ missed' = (missed \/ phase' = 0)
        /\ elapsed' = IF pc = "idle" THEN 0 ELSE Capped(elapsed + 1, AgeCap)
        /\ age' = [c \in Polled |-> IF c \in seen THEN Capped(age[c] + 1, AgeCap) ELSE 0]
        /\ waited' = [c \in Polled |-> Capped(waited[c] + 1, LongestWait + 1)]
    BY <1>5 DEF Pass
  <2>. QED
    BY <1>1, <1>2, <1>3, <1>5, <2>1
<1>. QED
  BY <1>4, <1>5

LEMMA CappedAt ==
  ASSUME NEW n \in Int, NEW bound \in Int
  PROVE  /\ Capped(n, bound) \in Int /\ Capped(n, bound) <= n /\ Capped(n, bound) <= bound
         /\ (Capped(n, bound) < bound => Capped(n, bound) = n)
         /\ \A m \in Int : m <= n /\ m <= bound => m <= Capped(n, bound)
BY DEF Capped

LEMMA WaitLimit ==
  /\ LongestTick \in Nat
  /\ LongestWait \in Nat
  /\ LongestWait = Interval + (IF LongestTick > Tick THEN LongestTick ELSE Tick) + LongestTick
                   + (IF setBack THEN Setback ELSE 0)
<1>1. LongestTick \in Nat
  <2>1. Total(Polled) \in Nat
    BY TotalOf
  <2>2. Polled \cap Live = Live /\ Polled \cap Watch = Watch
    BY DEF Polled
  <2>. QED
    BY <2>1, <2>2 DEF Total, LongestTick
<1>2. Interval \in Nat /\ Tick \in Nat /\ Setback \in Nat
  BY Clamped
<1>. QED
  BY <1>1, <1>2 DEF LongestWait

LEMMA LimitType ==
  ASSUME Sound
  PROVE  /\ Limit \in Nat /\ (pc \in {"idle", "tick"} => Limit = 0)
         /\ (pc \in {"probe", "pull", "swap"} => Limit = CallTime)
         /\ (pc = "backoff" => Limit = 1)
         /\ (pc = "send" => Limit = IF pending = {} THEN 0 ELSE SendTimeout)
<1>1. CallTime \in Nat /\ SendTimeout \in Nat
  BY Durations
<1>2. pc \in {"idle", "tick", "probe", "pull", "backoff", "swap", "send"}
  BY DEF Sound, DaemonTypeOK
<1>3. pc = "backoff" => RetryDelays[attempt] = 1
  BY Delays DEF Sound, DaemonTypeOK
<1>4. CASE pc \in {"idle", "tick"}
  BY <1>4 DEF Limit
<1>5. CASE pc \in {"probe", "pull", "swap"}
  BY <1>1, <1>5 DEF Limit
<1>6. CASE pc = "backoff"
  BY <1>3, <1>6 DEF Limit
<1>7. CASE pc = "send"
  BY <1>1, <1>7 DEF Limit, Patience
<1>. QED
  BY <1>2, <1>4, <1>5, <1>6, <1>7

LEMMA PassSound ==
  ASSUME Sound, Pass
  PROVE  Sound'
<1>1. Setback \in Nat /\ AgeCap \in Nat /\ Tick \in Nat /\ Tick >= 1 /\ CallTime \in Nat
      /\ SendTimeout \in Nat
  BY Clamped, Durations
<1>2. spent' \in Nat /\ spent' <= Limit /\ Limit' = Limit
  <2>1. /\ spent' \in Nat
        /\ \/ spent' = 0
           \/ spent' = spent + 1 /\ spent < Limit
    <3>1. spent \in Nat
      BY DEF Sound, DaemonTypeOK
    <3>2. \/ spent' = 0
          \/ spent' = spent + 1 /\ spent < Limit
      BY Passing
    <3>. QED
      BY <3>1, <3>2
  <2>2. Limit' = Limit
    BY Passing DEF Limit
  <2>3. Limit \in Nat
    BY LimitType
  <2>. QED
    BY <2>1, <2>2, <2>3 DEF Sound, DaemonTypeOK
<1>3. /\ drain' \in 0 .. stopTimeout' /\ phase' \in 0 .. Tick - 1 /\ missed' \in BOOLEAN
      /\ (~signalled' => drain' = 0)
  <2>1. stopTimeout' = stopTimeout /\ signalled' = signalled
    BY Passing
  <2>2. stopTimeout \in Nat /\ drain \in 0 .. stopTimeout /\ phase \in 0 .. Tick - 1
        /\ missed \in BOOLEAN /\ (~signalled => drain = 0)
    BY DaemonAssumption DEF Sound, DaemonTypeOK, ClocksSound
  <2>3. CASE signalled
    <3>1. drain' = drain + 1 /\ drain < stopTimeout /\ phase' = phase /\ missed' = missed
      BY <2>3, Passing
    <3>. QED
      BY <2>1, <2>2, <2>3, <3>1
  <2>4. CASE ~signalled
    <3>1. /\ drain' = drain /\ phase' = (IF phase + 1 = Tick THEN 0 ELSE phase + 1)
          /\ missed' = (missed \/ phase' = 0)
      BY <2>4, Passing
    <3>. QED
      BY <1>1, <2>1, <2>2, <2>4, <3>1
  <2>. QED
    BY <2>3, <2>4
<1>4. /\ elapsed' \in -Setback .. AgeCap /\ age' \in [Polled -> -Setback .. AgeCap]
      /\ waited' \in [Polled -> Nat]
      /\ (~setBack' => elapsed' >= 0 /\ \A c \in Polled : age'[c] >= 0)
  <2>1. setBack' = setBack
    BY Passing
  <2>2. /\ elapsed \in -Setback .. AgeCap /\ age \in [Polled -> -Setback .. AgeCap]
        /\ waited \in [Polled -> Nat]
        /\ (~setBack => elapsed >= 0 /\ \A c \in Polled : age[c] >= 0)
    BY DEF Sound, DaemonTypeOK, ClocksSound
  <2>3. CASE signalled
    BY <2>1, <2>2, <2>3, Passing
  <2>4. CASE ~signalled
    <3>1. /\ elapsed' = IF pc = "idle" THEN 0 ELSE Capped(elapsed + 1, AgeCap)
          /\ age' = [c \in Polled |-> IF c \in seen THEN Capped(age[c] + 1, AgeCap) ELSE 0]
          /\ waited' = [c \in Polled |-> Capped(waited[c] + 1, LongestWait + 1)]
      BY <2>4, Passing
    <3>2. \A n \in -Setback .. AgeCap : /\ Capped(n + 1, AgeCap) \in -Setback .. AgeCap
                                        /\ n >= 0 => Capped(n + 1, AgeCap) >= 0
      BY <1>1 DEF Capped
    <3>3. 0 \in -Setback .. AgeCap
      BY <1>1
    <3>4. elapsed' \in -Setback .. AgeCap /\ (~setBack => elapsed' >= 0)
      BY <2>2, <3>1, <3>2, <3>3
    <3>5. age' \in [Polled -> -Setback .. AgeCap]
      BY <2>2, <3>1, <3>2, <3>3
    <3>6. ~setBack => \A c \in Polled : age'[c] >= 0
      BY <2>2, <3>1, <3>2
    <3>7. waited' \in [Polled -> Nat]
      <4>1. \A c \in Polled : Capped(waited[c] + 1, LongestWait + 1) \in Nat
        BY <2>2, WaitLimit DEF Capped
      <4>. QED
        BY <3>1, <4>1
    <3>. QED
      BY <2>1, <3>4, <3>5, <3>6, <3>7
  <2>. QED
    BY <2>3, <2>4
<1>5. /\ UNCHANGED <<process, stopTimeout, signalled, setBack, pc, todo, cur, attempt, latest>>
      /\ UNCHANGED <<queue, pending, seen, notified, upstream, facts, told, heard>>
  BY Passing
<1>6. DaemonTypeOK'
  BY <1>2, <1>3, <1>4, <1>5 DEF Sound, DaemonTypeOK
<1>7. ClocksSound'
  BY <1>3, <1>4 DEF ClocksSound
<1>8. PlaceSound'
  BY <1>2, <1>5 DEF Sound, PlaceSound
<1>. QED
  BY <1>6, <1>7, <1>8 DEF Sound

LEMMA TickSound ==
  ASSUME Sound, Fire \/ EndTick \/ Decline \/ \E c \in Polled : Visit(c)
  PROVE  Sound'
<1>1. Setback \in Nat /\ AgeCap \in Nat /\ CallTime \in Nat /\ 0 \in -Setback .. AgeCap
  BY Clamped, Durations
<1>2. CASE Fire
  <2>1. /\ UNCHANGED <<life, phase, age, setBack, waited, spent, cur, attempt, latest, queue,
                       pending, seen, notified, upstream, report>>
        /\ pc = "idle" /\ missed' = FALSE /\ pc' = "tick" /\ elapsed' = 0 /\ todo' \subseteq Polled
    BY <1>2 DEF Fire, Up
  <2>2. DaemonTypeOK'
    BY <1>1, <2>1 DEF Sound, DaemonTypeOK, life, report
  <2>3. ClocksSound' /\ PlaceSound'
    BY <2>1 DEF Sound, ClocksSound, PlaceSound, Limit, life
  <2>. QED
    BY <2>2, <2>3 DEF Sound
<1>3. CASE EndTick
  <2>1. /\ UNCHANGED <<life, phase, missed, age, setBack, waited, spent, todo, cur, attempt,
                       latest, queue, pending, seen, notified, upstream, heard>>
        /\ pc = "tick" /\ pc' = "idle" /\ elapsed' = 0 /\ todo = {} /\ facts' = {} /\ told' = {}
    BY <1>3 DEF EndTick, Up
  <2>2. DaemonTypeOK'
    BY <1>1, <2>1 DEF Sound, DaemonTypeOK, life
  <2>3. ClocksSound' /\ PlaceSound'
    BY <2>1 DEF Sound, ClocksSound, PlaceSound, Limit, life
  <2>. QED
    BY <2>2, <2>3 DEF Sound
<1>4. CASE Decline
  <2>1. /\ UNCHANGED <<life, clock, pc, spent, cur, attempt, latest, queue, pending,
                       seen, notified, upstream, report>>
        /\ pc = "tick" /\ todo' = {}
    BY <1>4 DEF Decline, Up
  <2>2. DaemonTypeOK'
    BY <2>1 DEF Sound, DaemonTypeOK, life, clock, report
  <2>3. ClocksSound' /\ PlaceSound'
    BY <2>1 DEF Sound, ClocksSound, PlaceSound, Limit, life, clock
  <2>. QED
    BY <2>2, <2>3 DEF Sound
<1>5. ASSUME NEW c \in Polled, Visit(c)
      PROVE  Sound'
  <2>1. /\ UNCHANGED <<life, phase, missed, elapsed, setBack, attempt, latest, queue, pending,
                       notified, upstream, heard>>
        /\ pc' = "probe" /\ cur' = c /\ todo' = todo \ {c} /\ spent' = 0
        /\ seen' = seen \cup {c} /\ age' = [age EXCEPT ![c] = elapsed]
        /\ waited' = [waited EXCEPT ![c] = 0] /\ facts' = {} /\ told' = {}
    BY <1>5 DEF Visit
  <2>2. c # Nobody
    BY DaemonAssumption
  <2>3. age' \in [Polled -> -Setback .. AgeCap] /\ waited' \in [Polled -> Nat]
    BY <2>1 DEF Sound, DaemonTypeOK
  <2>4. DaemonTypeOK'
    BY <2>1, <2>2, <2>3 DEF Sound, DaemonTypeOK, life
  <2>5. ClocksSound'
    BY <2>1 DEF Sound, DaemonTypeOK, ClocksSound, life
  <2>6. PlaceSound'
    BY <1>1, <2>1 DEF PlaceSound, Limit
  <2>. QED
    BY <2>4, <2>5, <2>6 DEF Sound
<1>. QED
  BY <1>2, <1>3, <1>4, <1>5

-----------------------------------------------------------------------------
(* The work on a container, and what is left of it.                        *)

\* From where the process is, how long the container in process takes at most.
Left ==
  CASE pc = "probe" -> Longest(cur) - spent
    [] pc = "pull" -> Pulls(attempt) + Landing - spent
    [] pc = "backoff" -> 1 + Pulls(attempt + 1) + Landing - spent
    [] pc = "swap" -> Landing - spent
    [] pc = "send" -> (Len(queue) - 1) * Round + Cardinality(pending) * SendTimeout - spent
    [] OTHER -> 0

LEMMA LeftType ==
  ASSUME Sound
  PROVE  Left \in Nat /\ (pc \in {"idle", "tick"} => Left = 0) /\ (spent < Limit => Left >= 1)
<1>1. /\ CallTime \in Nat /\ SendTimeout \in Nat /\ Round \in Nat /\ Landing \in Nat
      /\ LongestNotice = CallTime + Round /\ LongestUpdate = CallTime + Pulls(1) + Landing
      /\ Pulls(1) \in Nat /\ Landing >= CallTime
  <2>1. Landing >= CallTime
    BY Durations, Scale DEF Landing
  <2>. QED
    BY <2>1, Durations
<1>2. spent \in Nat /\ spent <= Limit /\ Limit \in Nat
  BY LimitType DEF Sound, DaemonTypeOK, PlaceSound
<1>3. CASE pc = "probe"
  <2>1. Left = Longest(cur) - spent /\ Limit = CallTime
    BY <1>3, LimitType DEF Left
  <2>. QED
    BY <1>1, <1>2, <1>3, <2>1 DEF Longest
<1>4. CASE pc = "pull"
  <2>1. Left = Pulls(attempt) + Landing - spent /\ Limit = CallTime
    BY <1>4, LimitType DEF Left
  <2>2. Pulls(attempt) \in Nat /\ Pulls(attempt) >= CallTime
    BY <1>4, Durations DEF Sound, PlaceSound
  <2>. QED
    BY <1>1, <1>2, <1>4, <2>1, <2>2
<1>5. CASE pc = "backoff"
  <2>1. Left = 1 + Pulls(attempt + 1) + Landing - spent /\ Limit = 1
    BY <1>5, LimitType DEF Left
  <2>2. Pulls(attempt + 1) \in Nat
    <3>1. attempt + 1 \in 1 .. 4
      BY <1>5, Delays DEF Sound, DaemonTypeOK
    <3>. QED
      BY <3>1, Durations
  <2>. QED
    BY <1>1, <1>2, <1>5, <2>1, <2>2
<1>6. CASE pc = "swap"
  <2>1. Left = Landing - spent /\ Limit = CallTime
    BY <1>6, LimitType DEF Left
  <2>. QED
    BY <1>1, <1>2, <1>6, <2>1
<1>7. CASE pc = "send"
  <2>1. /\ Left = (Len(queue) - 1) * Round + Cardinality(pending) * SendTimeout - spent
        /\ Limit = IF pending = {} THEN 0 ELSE SendTimeout
    BY <1>7, LimitType DEF Left
  <2>2. Len(queue) - 1 \in Nat
    BY <1>7, HeadType DEF Sound, DaemonTypeOK, PlaceSound
  <2>3. (Len(queue) - 1) * Round \in Nat
    BY <1>1, <2>2, Scale
  <2>4. Cardinality(pending) \in Nat /\ (pending # {} => Cardinality(pending) >= 1)
    <3>1. IsFiniteSet(pending)
      BY Finite, FS_Subset DEF Sound, DaemonTypeOK
    <3>. QED
      BY <3>1, FS_CardinalityType, FS_EmptySet
  <2>5. /\ Cardinality(pending) * SendTimeout \in Nat
        /\ pending # {} => Cardinality(pending) * SendTimeout >= SendTimeout
    BY <1>1, <2>4, Scale
  <2>. DEFINE later == (Len(queue) - 1) * Round
              first == Cardinality(pending) * SendTimeout
  <2>6. Left = later + first - spent /\ later \in Nat /\ first \in Nat
    BY <2>1, <2>3, <2>5
  <2>7. pending # {} => first >= SendTimeout
    BY <2>5
  <2>. HIDE DEF later, first
  <2>8. spent <= first /\ (spent < Limit => spent < first)
    BY <1>1, <1>2, <2>1, <2>6, <2>7
  <2>. QED
    BY <1>2, <1>7, <2>6, <2>8
<1>8. CASE pc \in {"idle", "tick"}
  <2>1. Left = 0 /\ Limit = 0
    BY <1>8, LimitType DEF Left
  <2>. QED
    BY <1>2, <1>8, <2>1
<1>. QED
  BY <1>3, <1>4, <1>5, <1>6, <1>7, <1>8 DEF Sound, DaemonTypeOK

\* The work goes on, or is over, and what is left of it has not grown.
Eases == Framed /\ cur' \in {cur, Nobody} /\ Left' \in Nat /\ Left' <= Left

\* Announcing n events takes n rounds.
LEMMA SendsLeft ==
  ASSUME NEW news \in Seq(Events), Sends(news)
  PROVE  Left' \in Nat /\ Left' <= Len(news) * Round
<1>1. Round \in Nat /\ SendTimeout \in Nat /\ Cardinality(Targets) \in Nat
  BY Durations
<1>2. CASE news = <<>>
  <2>1. Left' = 0
    BY <1>2 DEF Sends, Left
  <2>2. Len(news) * Round = 0
    BY <1>1, <1>2
  <2>. QED
    BY <2>1, <2>2
<1>3. CASE news # <<>>
  <2>1. /\ pc' = "send" /\ spent' = 0 /\ queue' = news
        /\ pending' = Subscribers(news[1].trigger)
    BY <1>3 DEF Sends
  <2>2. Left' = (Len(news) - 1) * Round + Cardinality(pending') * SendTimeout - 0
    BY <2>1 DEF Left
  <2>3. pending' \in SUBSET Targets /\ Len(news) \in Nat \ {0}
    BY <1>3, <2>1, HeadType
  <2>4. Cardinality(pending') \in Nat /\ Cardinality(pending') <= Cardinality(Targets)
    BY <2>3, Finite, FS_Subset, FS_CardinalityType
  <2>5. /\ Cardinality(pending') * SendTimeout \in Nat
        /\ Cardinality(pending') * SendTimeout <= Round
    BY <1>1, <2>4, Scale DEF Round
  <2>6. PICK n \in Nat : Len(news) = n + 1 /\ Len(news) - 1 = n
    BY <2>3
  <2>7. (Len(news) - 1) * Round \in Nat /\ Len(news) * Round = (Len(news) - 1) * Round + Round
    BY <1>1, <2>6, Scale
  <2>. QED
    BY <1>1, <2>2, <2>5, <2>7
<1>. QED
  BY <1>2, <1>3

\* A step between the pulls and the swap.
LEMMA MovesSound ==
  ASSUME Sound, Framed, cur \in Polled, cur \notin Watch, To(pc'), cur' = cur,
         pc' \in {"pull", "backoff", "swap"}, attempt' \in 1 .. 4,
         pc' = "backoff" => attempt' \in 1 .. 3,
         UNCHANGED <<queue, pending, latest, notified, facts, told, heard>>
  PROVE  Sound'
<1>1. spent' = 0 /\ cur # Nobody /\ CallTime \in Nat
  BY DaemonAssumption DEF To
<1>2. DaemonTypeOK'
  BY <1>1, Delays DEF Sound, DaemonTypeOK, Framed
<1>3. ClocksSound'
  BY DEF Sound, ClocksSound, Framed
<1>4. spent' <= Limit'
  <2>1. pc' = "backoff" => RetryDelays[attempt'] = 1
    BY Delays
  <2>. QED
    BY <1>1, <2>1 DEF Limit
<1>5. PlaceSound'
  BY <1>4 DEF PlaceSound
<1>. QED
  BY <1>2, <1>3, <1>5 DEF Sound

LEMMA ProbeEases ==
  ASSUME Sound, Probe
  PROVE  Sound' /\ Eases
<1>1. cur \in Polled /\ pc = "probe" /\ Framed /\ UNCHANGED <<notified, told, heard>>
  BY DEF Sound, DaemonTypeOK, Probe, Up, Framed, life, clock
<1>2. /\ latest \in 0 .. MaxPublish /\ upstream \in 0 .. MaxPublish /\ facts \subseteq Events
      /\ notified \in [Watch -> 0 .. MaxPublish] /\ told \subseteq Events \X Targets
      /\ heard \in [Targets -> 0 .. MaxPublish]
  BY DEF Sound, DaemonTypeOK
<1>3. /\ Round \in Nat /\ CallTime \in Nat /\ Landing \in Nat /\ Pulls(1) \in Nat
      /\ LongestNotice = CallTime + Round /\ LongestUpdate = CallTime + Pulls(1) + Landing
  BY Durations
<1>4. Left = Longest(cur) - spent /\ spent \in Nat /\ spent <= CallTime /\ Left \in Nat
  BY <1>1, LimitType, LeftType DEF Left, Sound, DaemonTypeOK, PlaceSound
<1>5. ASSUME Done, latest' = latest, facts' = facts
      PROVE  Sound' /\ Eases
  <2>1. Sends(<<>>)
    BY <1>5, DoneSends
  <2>2. Sound'
    <3>1. <<>> \in Seq(Events) /\ Len(<<>>) <= IF cur \in Watch THEN 1 ELSE Cardinality(Siblings) + 1
      BY Durations
    <3>2. /\ latest' \in 0 .. MaxPublish /\ notified' \in [Watch -> 0 .. MaxPublish]
          /\ facts' \subseteq Events /\ told' \subseteq Events \X Targets
          /\ heard' \in [Targets -> 0 .. MaxPublish]
      BY <1>1, <1>2, <1>5
    <3>. QED
      BY <1>1, <1>5, <2>1, <3>1, <3>2, SendsSound
  <2>3. Left' = 0 /\ cur' = Nobody
    BY <2>1 DEF Sends, Left
  <2>. QED
    BY <1>1, <1>4, <2>2, <2>3 DEF Eases
<1>6. CASE cur \in Watch
  <2>1. CASE upstream > 0 /\ cur \in Opted /\ notified[cur] # upstream
    <3>. DEFINE news == <<Event("available", cur)>>
    <3>1. Dispatch(news) /\ latest' = upstream /\ facts' = {Event("available", cur)}
      BY <1>6, <2>1 DEF Probe
    <3>2. Event("available", cur) \in Events
      BY <1>1 DEF Event, Events
    <3>3. news \in Seq(Events) /\ Len(news) = 1
      BY <3>2
    <3>. HIDE DEF news
    <3>4. Sends(news)
      BY <3>1, Dispatches
    <3>5. /\ latest' \in 0 .. MaxPublish /\ notified' \in [Watch -> 0 .. MaxPublish]
          /\ facts' \subseteq Events /\ told' \subseteq Events \X Targets
          /\ heard' \in [Targets -> 0 .. MaxPublish]
      BY <1>1, <1>2, <3>1, <3>2
    <3>6. Sound'
      <4>1. Len(news) <= IF cur \in Watch THEN 1 ELSE Cardinality(Siblings) + 1
        BY <1>6, <3>3
      <4>. QED
        BY <1>1, <3>3, <3>4, <3>5, <4>1, SendsSound
    <3>7. Left' <= 1 * Round /\ Left' \in Nat
      BY <3>3, <3>4, SendsLeft
    <3>8. Left = CallTime + Round - spent
      BY <1>3, <1>4, <1>6 DEF Longest
    <3>9. cur' \in {cur, Nobody}
      BY <3>4 DEF Sends
    <3>. QED
      BY <1>1, <1>3, <1>4, <3>6, <3>7, <3>8, <3>9 DEF Eases
  <2>2. CASE ~(upstream > 0 /\ cur \in Opted /\ notified[cur] # upstream)
    BY <1>5, <1>6, <2>2 DEF Probe
  <2>. QED
    BY <2>1, <2>2
<1>7. CASE cur \notin Watch
  <2>1. CASE Done
    BY <1>5, <1>7, <2>1 DEF Probe
  <2>2. CASE To("pull") /\ attempt' = 1 /\ UNCHANGED <<cur, queue, pending>>
    <3>1. pc' = "pull" /\ spent' = 0 /\ latest' = latest /\ facts' = facts
      BY <1>7, <2>2 DEF Probe, To
    <3>2. Sound'
      BY <1>1, <1>7, <2>2, <3>1, MovesSound
    <3>3. Left' = Pulls(1) + Landing - 0
      BY <2>2, <3>1 DEF Left
    <3>4. Left = CallTime + Pulls(1) + Landing - spent
      BY <1>3, <1>4, <1>7 DEF Longest
    <3>. QED
      BY <1>1, <1>3, <1>4, <2>2, <3>2, <3>3, <3>4 DEF Eases
  <2>. QED
    BY <1>7, <2>1, <2>2 DEF Probe
<1>. QED
  BY <1>6, <1>7

LEMMA PullEases ==
  ASSUME Sound, Pull
  PROVE  Sound' /\ Eases
<1>1. cur \in Polled /\ cur \notin Watch /\ pc = "pull" /\ Framed /\ attempt \in 1 .. 4
      /\ UNCHANGED <<latest, notified, facts, told, heard>>
  BY DEF Sound, DaemonTypeOK, PlaceSound, Pull, Up, Framed, life, clock, report
<1>2. Pulls(attempt) \in Nat /\ Pulls(attempt) >= CallTime /\ Landing \in Nat /\ CallTime \in Nat
  BY <1>1, Durations
<1>3. Left = Pulls(attempt) + Landing - spent /\ spent \in Nat /\ spent <= CallTime /\ Left \in Nat
  BY <1>1, LimitType, LeftType DEF Left, Sound, DaemonTypeOK, PlaceSound
<1>4. CASE To("swap") /\ UNCHANGED <<cur, attempt, queue, pending>>
  <2>1. pc' = "swap" /\ spent' = 0
    BY <1>4 DEF To
  <2>2. Sound'
    BY <1>1, <1>4, <2>1, MovesSound
  <2>3. Left' = Landing - 0
    BY <2>1 DEF Left
  <2>. QED
    BY <1>1, <1>2, <1>3, <1>4, <2>2, <2>3 DEF Eases
<1>5. CASE Retryable /\ To("backoff") /\ UNCHANGED <<cur, attempt, queue, pending>>
  <2>1. pc' = "backoff" /\ spent' = 0 /\ attempt' = attempt /\ attempt \in 1 .. 3
    BY <1>1, <1>5, Delays DEF To, Retryable
  <2>2. Sound'
    BY <1>1, <1>5, <2>1, MovesSound
  <2>3. Left' = 1 + Pulls(attempt + 1) + Landing - 0
    BY <2>1 DEF Left
  <2>4. Pulls(attempt) = CallTime + 1 + Pulls(attempt + 1) /\ Pulls(attempt + 1) \in Nat
    <3>1. attempt + 1 \in 1 .. 4
      BY <2>1
    <3>. QED
      BY <2>1, <3>1, Durations
  <2>. QED
    BY <1>1, <1>2, <1>3, <1>5, <2>2, <2>3, <2>4 DEF Eases
<1>6. CASE Done
  <2>1. Sends(<<>>)
    BY <1>6, DoneSends
  <2>2. <<>> \in Seq(Events) /\ Len(<<>>) <= IF cur \in Watch THEN 1 ELSE Cardinality(Siblings) + 1
    BY Durations
  <2>3. /\ latest' \in 0 .. MaxPublish /\ notified' \in [Watch -> 0 .. MaxPublish]
        /\ facts' \subseteq Events /\ told' \subseteq Events \X Targets
        /\ heard' \in [Targets -> 0 .. MaxPublish]
    BY <1>1 DEF Sound, DaemonTypeOK
  <2>4. Sound'
    BY <1>1, <2>1, <2>2, <2>3, SendsSound
  <2>5. Left' = 0 /\ cur' = Nobody
    BY <2>1 DEF Sends, Left
  <2>. QED
    BY <1>1, <1>3, <2>4, <2>5 DEF Eases
<1>. QED
  BY <1>4, <1>5, <1>6 DEF Pull

LEMMA RetryEases ==
  ASSUME Sound, Retry
  PROVE  Sound' /\ Eases
<1>1. cur \in Polled /\ cur \notin Watch /\ pc = "backoff" /\ Framed /\ attempt \in 1 .. 3
      /\ UNCHANGED <<latest, notified, facts, told, heard, cur, queue, pending>>
  BY Delays DEF Sound, DaemonTypeOK, PlaceSound, Retry, Up, Framed, life, clock, report
<1>2. pc' = "pull" /\ spent' = 0 /\ attempt' = attempt + 1 /\ attempt' \in 1 .. 4 /\ spent = 1
  BY <1>1, LimitType DEF Retry, To
<1>3. Sound'
  <2>1. To(pc')
    BY <1>2 DEF To
  <2>. QED
    BY <1>1, <1>2, <2>1, MovesSound
<1>4. Left = 1 + Pulls(attempt + 1) + Landing - 1 /\ Left' = Pulls(attempt + 1) + Landing - 0
  BY <1>1, <1>2 DEF Left
<1>5. Pulls(attempt + 1) \in Nat /\ Landing \in Nat
  BY <1>2, Durations
<1>. QED
  BY <1>1, <1>3, <1>4, <1>5 DEF Eases

\* The members are announced in some order, and no other container is.
LEMMA Announcements ==
  ASSUME NEW U \in SUBSET (Polled \cup Siblings), NEW q \in StepEvents(U)
  PROVE  /\ q \in Seq(Events) /\ Len(q) = Cardinality(U \cap Opted) /\ Len(q) \in Nat
         /\ \A i \in 1 .. Len(q) : \E c \in U \cap Opted : q[i] = Event("succeeded", c)
         /\ \A c \in U \cap Opted : \E i \in 1 .. Len(q) : q[i] = Event("succeeded", c)
<1>. DEFINE S == U \cap Opted
            n == Cardinality(S)
<1>1. IsFiniteSet(S) /\ n \in Nat
  BY Finite, FS_Union, FS_Subset, FS_CardinalityType
<1>2. PICK s \in SetToSeqs(S) : q = [i \in DOMAIN s |-> Event("succeeded", s[i])]
  BY DEF StepEvents
<1>3. s \in [1 .. n -> S] /\ \A i, j \in 1 .. n : i # j => s[i] # s[j]
  BY <1>2 DEF SetToSeqs
<1>4. DOMAIN q = 1 .. n /\ \A i \in 1 .. n : q[i] = Event("succeeded", s[i]) /\ s[i] \in S
  BY <1>2, <1>3
<1>5. \A c \in S : Event("succeeded", c) \in Events
  BY DEF Event, Events
<1>6. q \in [1 .. n -> Events]
  BY <1>2, <1>3, <1>4, <1>5
<1>7. q \in Seq(Events) /\ Len(q) = n
  <2>1. n \in Nat
    BY <1>1
  <2>. HIDE DEF n
  <2>. QED
    BY <1>6, <2>1
<1>8. \A c \in S : \E i \in 1 .. n : s[i] = c
  <2>1. s \in Injection(1 .. n, S)
    BY <1>3 DEF Injection, IsInjective
  <2>2. Cardinality(1 .. n) = n
    BY <1>1, FS_Interval
  <2>3. s \in Surjection(1 .. n, S)
    BY <1>1, <2>1, <2>2, FS_Injection
  <2>. QED
    BY <2>3 DEF Surjection
<1>. QED
  BY <1>1, <1>4, <1>7, <1>8

\* A lone update has an end that is announced once at most; of a rollout every member that
\* was updated is announced, and an abort, unless they opted out.
LEMMA SwapNews ==
  ASSUME Sound, Swap
  PROVE  /\ facts' \subseteq Events
         /\ \E news \in Seq(Events) :
              /\ Dispatch(news) /\ Len(news) <= Cardinality(Siblings) + 1
              /\ \A i \in 1 .. Len(news) : news[i] \in facts' /\ news[i].container \in Opted
              /\ \A e \in facts' : e.container \in Opted => \E i \in 1 .. Len(news) : news[i] = e
<1>1. cur \in Polled
  BY DEF Sound, DaemonTypeOK, Swap, Up
<1>2. PICK updated \in SUBSET ({cur} \cup Siblings), failed \in BOOLEAN :
        \E q \in StepEvents(updated) :
          /\ failed => updated # {cur} \cup Siblings
          /\ Dispatch(q \o (IF failed /\ cur \in Opted THEN <<Event("failed", cur)>> ELSE <<>>))
          /\ facts' = {Event("succeeded", c) : c \in updated}
                      \cup (IF failed THEN {Event("failed", cur)} ELSE {})
  BY DEF Swap
<1>3. PICK q \in StepEvents(updated) :
          /\ failed => updated # {cur} \cup Siblings
          /\ Dispatch(q \o (IF failed /\ cur \in Opted THEN <<Event("failed", cur)>> ELSE <<>>))
          /\ facts' = {Event("succeeded", c) : c \in updated}
                      \cup (IF failed THEN {Event("failed", cur)} ELSE {})
  BY <1>2
<1>. DEFINE end == IF failed /\ cur \in Opted THEN <<Event("failed", cur)>> ELSE <<>>
            news == q \o end
<1>4. updated \in SUBSET (Polled \cup Siblings)
  BY <1>1
<1>5. /\ q \in Seq(Events) /\ Len(q) = Cardinality(updated \cap Opted) /\ Len(q) \in Nat
      /\ \A i \in 1 .. Len(q) : \E c \in updated \cap Opted : q[i] = Event("succeeded", c)
      /\ \A c \in updated \cap Opted : \E i \in 1 .. Len(q) : q[i] = Event("succeeded", c)
  BY <1>4, Announcements
<1>6. /\ Event("failed", cur) \in Events /\ Event("failed", cur).container = cur
      /\ \A c \in updated : Event("succeeded", c) \in Events /\ Event("succeeded", c).container = c
  BY <1>1 DEF Event, Events
<1>7. end \in Seq(Events) /\ Len(end) = IF failed /\ cur \in Opted THEN 1 ELSE 0
  BY <1>6
<1>8. news \in Seq(Events) /\ Len(news) = Len(q) + Len(end)
  BY <1>5, <1>7
<1>9. /\ \A i \in 1 .. Len(q) : news[i] = q[i] /\ i \in 1 .. Len(news)
      /\ \A i \in 1 .. Len(news) : i \in 1 .. Len(q) \/ (i = Len(q) + 1 /\ Len(end) = 1)
      /\ Len(end) = 1 => news[Len(q) + 1] = Event("failed", cur) /\ Len(q) + 1 \in 1 .. Len(news)
  <2>1. \A i \in 1 .. Len(q) : news[i] = q[i]
    BY <1>5, <1>7
  <2>2. Len(end) = 1 => news[Len(q) + 1] = end[1]
    BY <1>5, <1>7
  <2>3. Len(end) = 1 => end[1] = Event("failed", cur)
    BY <1>7
  <2>. HIDE DEF news, end
  <2>4. Len(news) = Len(q) + Len(end) /\ Len(end) \in {0, 1} /\ Len(q) \in Nat
    BY <1>5, <1>7, <1>8
  <2>5. \A i \in 1 .. Len(q) : i \in 1 .. Len(news)
    BY <2>4
  <2>6. \A i \in 1 .. Len(news) : i \in 1 .. Len(q) \/ (i = Len(q) + 1 /\ Len(end) = 1)
    <3>1. CASE Len(end) = 0
      BY <2>4, <3>1
    <3>2. CASE Len(end) = 1
      BY <2>4, <3>2
    <3>. QED
      BY <2>4, <3>1, <3>2
  <2>7. Len(end) = 1 => Len(q) + 1 \in 1 .. Len(news)
    BY <2>4
  <2>. QED
    BY <2>1, <2>2, <2>3, <2>5, <2>6, <2>7
<1>10. Len(news) <= Cardinality(Siblings) + 1
  <2>1. IsFiniteSet({cur} \cup Siblings) /\ Cardinality({cur} \cup Siblings) <= Cardinality(Siblings) + 1
        /\ Cardinality({cur} \cup Siblings) \in Nat /\ Cardinality(Siblings) \in Nat
    <3>1. {cur} \cup Siblings = Siblings \cup {cur} /\ IsFiniteSet(Siblings)
      BY Finite
    <3>2. /\ IsFiniteSet(Siblings \cup {cur}) /\ Cardinality(Siblings) \in Nat
          /\ Cardinality(Siblings \cup {cur})
               = IF cur \in Siblings THEN Cardinality(Siblings) ELSE Cardinality(Siblings) + 1
      BY <3>1, FS_AddElement, FS_CardinalityType
    <3>. QED
      BY <3>1, <3>2
  <2>2. updated \cap Opted \in SUBSET ({cur} \cup Siblings)
    OBVIOUS
  <2>3. Len(q) <= Cardinality({cur} \cup Siblings)
    BY <1>5, <2>1, <2>2, FS_Subset
  <2>4. failed => Len(q) < Cardinality({cur} \cup Siblings)
    <3>1. failed => updated \cap Opted # {cur} \cup Siblings
      BY <1>3
    <3>2. Len(q) = Cardinality({cur} \cup Siblings) => updated \cap Opted = {cur} \cup Siblings
      BY <1>5, <2>1, <2>2, FS_Subset
    <3>. QED
      BY <1>5, <2>1, <2>3, <3>1, <3>2
  <2>5. Len(end) = IF failed /\ cur \in Opted THEN 1 ELSE 0
    BY <1>7
  <2>6. Len(news) = Len(q) + Len(end) /\ Len(q) \in Nat
    BY <1>5, <1>8
  <2>. HIDE DEF news, end
  <2>. QED
    BY <2>1, <2>3, <2>4, <2>5, <2>6
<1>11. facts' \subseteq Events
  BY <1>3, <1>6
<1>12. \A i \in 1 .. Len(news) : news[i] \in facts' /\ news[i].container \in Opted
  <2>. SUFFICES ASSUME NEW i \in 1 .. Len(news)
                PROVE  news[i] \in facts' /\ news[i].container \in Opted
    OBVIOUS
  <2>1. CASE i \in 1 .. Len(q)
    <3>1. PICK c \in updated \cap Opted : q[i] = Event("succeeded", c)
      BY <1>5, <2>1
    <3>2. news[i] = Event("succeeded", c)
      BY <1>9, <2>1, <3>1
    <3>. QED
      BY <1>3, <1>6, <3>2
  <2>2. CASE i = Len(q) + 1 /\ Len(end) = 1
    BY <1>3, <1>6, <1>7, <1>9, <2>2
  <2>. QED
    BY <1>9, <2>1, <2>2
<1>13. \A e \in facts' : e.container \in Opted => \E i \in 1 .. Len(news) : news[i] = e
  <2>. SUFFICES ASSUME NEW e \in facts', e.container \in Opted
                PROVE  \E i \in 1 .. Len(news) : news[i] = e
    OBVIOUS
  <2>1. CASE \E c \in updated : e = Event("succeeded", c)
    <3>1. PICK c \in updated : e = Event("succeeded", c)
      BY <2>1
    <3>2. c \in updated \cap Opted
      BY <1>6, <3>1
    <3>3. PICK i \in 1 .. Len(q) : q[i] = e
      BY <1>5, <3>1, <3>2
    <3>. QED
      BY <1>9, <3>3
  <2>2. CASE failed /\ e = Event("failed", cur)
    BY <1>6, <1>7, <1>9, <2>2
  <2>. QED
    BY <1>3, <2>1, <2>2
<1>14. Dispatch(news)
  BY <1>3
<1>. HIDE DEF news
<1>. QED
  BY <1>8, <1>10, <1>11, <1>12, <1>13, <1>14

LEMMA SwapEases ==
  ASSUME Sound, Swap
  PROVE  Sound' /\ Eases
<1>1. cur \in Polled /\ cur \notin Watch /\ pc = "swap" /\ Framed
      /\ UNCHANGED <<latest, notified, told, heard>>
  BY DEF Sound, DaemonTypeOK, PlaceSound, Swap, Up, Framed, life, clock
<1>2. PICK news \in Seq(Events) : Dispatch(news) /\ Len(news) <= Cardinality(Siblings) + 1
  BY SwapNews
<1>3. Sends(news)
  BY <1>2, Dispatches
<1>4. /\ latest' \in 0 .. MaxPublish /\ notified' \in [Watch -> 0 .. MaxPublish]
      /\ facts' \subseteq Events /\ told' \subseteq Events \X Targets
      /\ heard' \in [Targets -> 0 .. MaxPublish]
  BY <1>1, SwapNews DEF Sound, DaemonTypeOK
<1>5. Sound'
  <2>1. Len(news) <= IF cur \in Watch THEN 1 ELSE Cardinality(Siblings) + 1
    BY <1>1, <1>2
  <2>. QED
    BY <1>1, <1>3, <1>4, <2>1, SendsSound
<1>6. Left' \in Nat /\ Left' <= Len(news) * Round
  BY <1>3, SendsLeft
<1>. DEFINE n == Cardinality(Siblings) + 1
<1>7. n \in Nat /\ Round \in Nat /\ CallTime \in Nat /\ Len(news) \in Nat /\ Len(news) <= n
  <2>1. Len(news) \in Nat
    OBVIOUS
  <2>2. Cardinality(Siblings) \in Nat /\ Round \in Nat /\ CallTime \in Nat
    BY Durations
  <2>. QED
    BY <1>2, <2>1, <2>2
<1>8. Landing = CallTime + n * Round
  BY DEF Landing
<1>. HIDE DEF n
<1>9. n * Round \in Nat
  BY <1>7, Scale
<1>10. Left = CallTime + n * Round - spent /\ spent <= CallTime /\ spent \in Nat
  <2>1. Left = Landing - spent
    BY <1>1 DEF Left
  <2>2. spent <= CallTime /\ spent \in Nat
    BY <1>1, LimitType DEF Sound, DaemonTypeOK, PlaceSound
  <2>. QED
    BY <1>7, <1>8, <1>9, <2>1, <2>2
<1>11. Len(news) * Round <= n * Round /\ Len(news) * Round \in Nat /\ n * Round \in Nat
  BY <1>7, Scale
<1>12. Left' <= Left
  BY <1>6, <1>7, <1>10, <1>11
<1>. QED
  BY <1>1, <1>3, <1>5, <1>6, <1>12 DEF Eases, Sends

LEMMA SendEases ==
  ASSUME Sound, NEW t \in Targets, Send(t)
  PROVE  Sound' /\ Eases
<1>1. /\ pc = "send" /\ t \in pending /\ pending' = pending \ {t} /\ spent' = 0
      /\ Framed /\ UNCHANGED <<pc, cur, attempt, latest, queue, notified, facts>>
  BY DEF Send, AfterFailure, Up, Framed, life, clock
<1>2. /\ queue # <<>> /\ queue \in Seq(Events) /\ queue[1] \in Events /\ latest \in 0 .. MaxPublish
      /\ Len(queue) - 1 \in Nat
  BY <1>1, HeadType DEF Sound, DaemonTypeOK, PlaceSound
<1>3. told' \subseteq Events \X Targets /\ heard' \in [Targets -> 0 .. MaxPublish]
  <2>1. told \subseteq Events \X Targets /\ heard \in [Targets -> 0 .. MaxPublish]
    BY DEF Sound, DaemonTypeOK
  <2>2. told' = told \cup {<<queue[1], t>>} \/ told' = told
    BY DEF Send
  <2>3. heard' = heard \/ heard' = [heard EXCEPT ![t] = latest]
    BY DEF Send
  <2>. QED
    BY <1>2, <2>1, <2>2, <2>3
<1>4. SendTimeout \in Nat /\ Round \in Nat
  BY Durations
<1>5. Sound'
  <2>1. DaemonTypeOK'
    BY <1>1, <1>3, Delays DEF Sound, DaemonTypeOK, Framed
  <2>2. ClocksSound'
    BY <1>1 DEF Sound, ClocksSound, Framed
  <2>3. spent' <= Limit'
    BY <1>1, <1>4 DEF Limit, Patience
  <2>4. PlaceSound'
    BY <1>1, <2>3 DEF Sound, PlaceSound
  <2>. QED
    BY <2>1, <2>2, <2>4 DEF Sound
<1>6. /\ Cardinality(pending') \in Nat /\ Cardinality(pending) \in Nat
      /\ Cardinality(pending) = Cardinality(pending') + 1
  <2>1. IsFiniteSet(pending)
    BY Finite, FS_Subset DEF Sound, DaemonTypeOK
  <2>2. IsFiniteSet(pending \ {t}) /\ Cardinality(pending \ {t}) = Cardinality(pending) - 1
    BY <1>1, <2>1, FS_RemoveElement
  <2>3. Cardinality(pending) \in Nat /\ Cardinality(pending \ {t}) \in Nat
    BY <2>1, <2>2, FS_CardinalityType
  <2>. QED
    BY <1>1, <2>2, <2>3
<1>. DEFINE later == (Len(queue) - 1) * Round
            first == Cardinality(pending') * SendTimeout
<1>7. /\ later \in Nat /\ first \in Nat
      /\ Cardinality(pending) * SendTimeout = first + SendTimeout
  BY <1>2, <1>4, <1>6, Scale
<1>8. Left = later + (first + SendTimeout) - spent /\ Left' = later + first - 0
  BY <1>1, <1>7 DEF Left
<1>9. spent \in Nat /\ spent <= SendTimeout
  BY <1>1, LimitType DEF Sound, DaemonTypeOK, PlaceSound
<1>. HIDE DEF later, first
<1>10. Left' \in Nat /\ Left' <= Left
  BY <1>4, <1>7, <1>8, <1>9
<1>. QED
  BY <1>1, <1>5, <1>10 DEF Eases

LEMMA DispatchedEases ==
  ASSUME Sound, Dispatched
  PROVE  Sound' /\ Eases
<1>1. /\ pc = "send" /\ pending = {} /\ latest' = 0 /\ cur \in Polled
      /\ Framed /\ UNCHANGED <<facts, told, heard>>
  BY DEF Dispatched, Up, Framed, Sound, DaemonTypeOK, life, clock, report
<1>2. /\ queue # <<>> /\ queue \in Seq(Events) /\ Len(queue) \in Nat \ {0}
      /\ Tail(queue) \in Seq(Events) /\ Len(Tail(queue)) = Len(queue) - 1
  BY <1>1, HeadType DEF Sound, DaemonTypeOK, PlaceSound
<1>3. Sends(Tail(queue))
  BY Dispatches DEF Dispatched
<1>4. notified' \in [Watch -> 0 .. MaxPublish]
  <2>1. notified \in [Watch -> 0 .. MaxPublish] /\ latest \in 0 .. MaxPublish
    BY DEF Sound, DaemonTypeOK
  <2>. QED
    BY <2>1 DEF Dispatched, Recorded
<1>5. /\ latest' \in 0 .. MaxPublish /\ facts' \subseteq Events /\ told' \subseteq Events \X Targets
      /\ heard' \in [Targets -> 0 .. MaxPublish]
  <2>1. MaxPublish \in Nat
    BY DaemonAssumption
  <2>. QED
    BY <1>1, <2>1 DEF Sound, DaemonTypeOK
<1>6. Sound'
  <2>1. Len(queue) <= IF cur \in Watch THEN 1 ELSE Cardinality(Siblings) + 1
    BY <1>1 DEF Sound, PlaceSound
  <2>2. Cardinality(Siblings) \in Nat
    BY Durations
  <2>3. Len(Tail(queue)) <= IF cur \in Watch THEN 1 ELSE Cardinality(Siblings) + 1
    BY <1>2, <2>1, <2>2
  <2>. QED
    BY <1>1, <1>2, <1>3, <1>4, <1>5, <2>3, SendsSound
<1>7. Left' \in Nat /\ Left' <= (Len(queue) - 1) * Round
  BY <1>2, <1>3, SendsLeft
<1>8. Left = (Len(queue) - 1) * Round
  <2>1. Left = (Len(queue) - 1) * Round + Cardinality(pending) * SendTimeout - spent
    BY <1>1 DEF Left
  <2>2. Cardinality(pending) = 0 /\ spent = 0 /\ SendTimeout \in Nat
    <3>1. Cardinality({}) = 0 /\ SendTimeout \in Nat
      BY FS_EmptySet, Durations
    <3>2. spent \in Nat /\ spent <= Limit /\ Limit = 0
      BY <1>1, LimitType DEF Sound, DaemonTypeOK, PlaceSound
    <3>. QED
      BY <1>1, <3>1, <3>2
  <2>3. (Len(queue) - 1) * Round \in Nat
    <3>1. Len(queue) - 1 \in Nat /\ Round \in Nat
      BY <1>2, Durations
    <3>. QED
      BY <3>1, Scale
  <2>. QED
    BY <2>1, <2>2, <2>3
<1>. QED
  BY <1>1, <1>3, <1>6, <1>7, <1>8 DEF Eases, Sends

\* Every step of the work on a container.
Work == Probe \/ Pull \/ Retry \/ Swap \/ Dispatched \/ \E t \in Targets : Send(t)

LEMMA WorkEases ==
  ASSUME Sound, Work
  PROVE  Sound' /\ Eases
BY ProbeEases, PullEases, RetryEases, SwapEases, DispatchedEases, SendEases DEF Work

\* The steps of the process, in the parts that the proofs take them in.
LEMMA Steps ==
  ASSUME [DaemonNext]_daemonVars
  PROVE  \/ Work \/ End \/ Pass
         \/ Publish \/ SetBack \/ Signal \/ Restart
         \/ Fire \/ EndTick \/ Decline \/ (\E c \in Polled : Visit(c))
         \/ UNCHANGED daemonVars
BY DEF DaemonNext, Step, Work, Exit, ForcedExit, Kill

LEMMA SoundInitially ==
  ASSUME DaemonInit
  PROVE  Sound
<1>1. Setback \in Nat /\ AgeCap \in Nat /\ Tick \in Nat /\ Tick >= 1 /\ MaxPublish \in Nat
  BY Clamped, DaemonAssumption
<1>2. /\ stopTimeout \in StopTimeouts \cup {0} /\ drain \in 0 .. stopTimeout
      /\ phase \in 0 .. Tick - 1 /\ elapsed \in -Setback .. AgeCap
      /\ latest \in 0 .. MaxPublish /\ attempt \in 0 .. Len(RetryDelays) + 1
      /\ upstream \in 0 .. MaxPublish
  BY <1>1, Delays DEF DaemonInit
<1>3. /\ age \in [Polled -> -Setback .. AgeCap] /\ notified \in [Watch -> 0 .. MaxPublish]
      /\ waited \in [Polled -> Nat] /\ heard \in [Targets -> 0 .. MaxPublish]
  BY <1>1 DEF DaemonInit
<1>4. /\ process = "up" /\ signalled = FALSE /\ missed = TRUE /\ pc = "idle" /\ setBack = FALSE
      /\ spent = 0 /\ todo = {} /\ cur = Nobody /\ queue = <<>> /\ pending = {}
      /\ seen = {} /\ facts = {} /\ told = {} /\ drain = 0
      /\ elapsed = 0 /\ \A c \in Polled : age[c] = 0
  BY DEF DaemonInit
<1>5. queue \in Seq(Events) /\ cur \in Polled \cup {Nobody} /\ seen \subseteq Polled
  BY <1>4
<1>6. /\ (cur = Nobody <=> pc \in {"idle", "tick"})
      /\ (pc = "backoff" => attempt \in DOMAIN RetryDelays)
  BY <1>4
<1>7. DaemonTypeOK
  BY <1>2, <1>3, <1>4, <1>5, <1>6 DEF DaemonTypeOK
<1>8. ClocksSound /\ PlaceSound
  BY <1>4 DEF ClocksSound, PlaceSound, Limit
<1>. QED
  BY <1>7, <1>8 DEF Sound

LEMMA SoundStep ==
  ASSUME Sound, [DaemonNext]_daemonVars
  PROVE  Sound'
<1>1. CASE UNCHANGED daemonVars
  BY <1>1 DEF Sound, DaemonTypeOK, ClocksSound, PlaceSound, Limit, daemonVars, life, clock, work, report
<1>. QED
  BY <1>1, Steps, WorkEases, EndSound, PassSound, OutsideSound, TickSound

-----------------------------------------------------------------------------
(* The drain and the waits.                                                *)

\* What is left of the container in process fits into what is allowed it, also if the
\* drain had begun when it was half done.
DrainSound ==
  /\ cur # Nobody => Left <= Longest(cur)
  /\ signalled => drain + Left <= LongestStep

Slack == IF setBack THEN Setback ELSE 0
Longer == IF LongestTick > Tick THEN LongestTick ELSE Tick

\* What the wall clock says of c's last poll, as long as it says too little.
AgeTells(c) ==
  IF setBack THEN age[c] < Interval => waited[c] <= age[c] + Setback
             ELSE age[c] < AgeCap => waited[c] <= age[c]

\* A container that is due has the containers before it to wait for; another one that
\* was not due when this tick, or the last one, began was polled less than an interval
\* before it.  A tick that comes late begins when the one before it ends.
WaitsSound ==
  IF signalled THEN \A c \in Polled : waited[c] = 0
  ELSE /\ Left + Total(todo) <= LongestTick
       /\ \A c \in todo : waited[c] + Left + Total(todo) <= LongestWait
       /\ \A c \in Polled \ todo :
            /\ waited[c] + Left + Total(todo) <= Interval - 1 + Slack + Longer
            /\ ~missed => waited[c] <= Interval - 1 + Slack + phase
       /\ \A c \in seen : AgeTells(c)

TimesInv == Sound /\ DrainSound /\ WaitsSound

LEMMA WaitNumbers ==
  ASSUME Sound
  PROVE  /\ Left \in Nat /\ drain \in Nat /\ stopTimeout \in Nat /\ phase \in Nat /\ phase <= Tick - 1
         /\ \A c \in Polled : waited[c] \in Nat /\ age[c] \in Int
         /\ todo \in SUBSET Polled /\ seen \in SUBSET Polled
         /\ Total(todo) \in Nat /\ Total(todo) <= LongestTick
         /\ Slack \in Nat /\ Longer \in Nat /\ Longer >= Tick /\ Longer >= LongestTick
         /\ LongestTick \in Nat /\ LongestWait \in Nat
         /\ LongestWait = Interval + Longer + LongestTick + Slack
         /\ Interval \in Nat /\ Interval >= 1 /\ Tick \in Nat /\ Tick >= 1
<1>1. stopTimeout \in Nat
  <2>1. stopTimeout \in StopTimeouts \cup {0} /\ StopTimeouts \subseteq Nat
    BY DaemonAssumption DEF Sound, DaemonTypeOK
  <2>. QED
    BY <2>1
<1>2. drain \in Nat /\ phase \in Nat /\ phase <= Tick - 1 /\ Interval \in Nat /\ Interval >= 1
      /\ Tick \in Nat /\ Tick >= 1 /\ Setback \in Nat
  <2>1. drain \in 0 .. stopTimeout /\ phase \in 0 .. Tick - 1
    BY DEF Sound, DaemonTypeOK
  <2>. QED
    BY <1>1, <2>1, Clamped
<1>3. todo \in SUBSET Polled /\ seen \in SUBSET Polled
  BY DEF Sound, DaemonTypeOK
<1>4. \A c \in Polled : waited[c] \in Nat /\ age[c] \in Int
  <2>1. waited \in [Polled -> Nat] /\ age \in [Polled -> -Setback .. AgeCap]
    BY DEF Sound, DaemonTypeOK
  <2>2. \A n \in -Setback .. AgeCap : n \in Int
    BY <1>2
  <2>. QED
    BY <2>1, <2>2
<1>5. Total(todo) \in Nat /\ Total(todo) <= LongestTick
  BY <1>3, TotalOf
<1>6. LongestTick \in Nat /\ LongestWait \in Nat /\ LongestWait = Interval + Longer + LongestTick + Slack
  BY WaitLimit DEF Longer, Slack
<1>7. Slack \in Nat /\ Longer \in Nat /\ Longer >= Tick /\ Longer >= LongestTick
  BY <1>2, <1>6 DEF Slack, Longer
<1>. QED
  BY <1>1, <1>2, <1>3, <1>4, <1>5, <1>6, <1>7, LeftType

LEMMA WorkTimes ==
  ASSUME TimesInv, Work
  PROVE  TimesInv'
<1>1. Sound /\ Sound' /\ Eases
  BY WorkEases DEF TimesInv
<1>2. /\ UNCHANGED <<signalled, drain, phase, missed, age, setBack, waited, todo, seen>>
      /\ cur' \in {cur, Nobody} /\ Left' \in Nat /\ Left' <= Left
  BY <1>1 DEF Eases, Framed
<1>3. Left \in Nat /\ LongestStep \in Nat /\ LongestTick \in Nat /\ LongestWait \in Nat
      /\ drain \in Nat
  BY <1>1, WaitNumbers, LongestOf
<1>4. DrainSound'
  <2>1. Longest(cur)' = Longest(cur')
    BY DEF Longest
  <2>2. cur \in Polled \cup {Nobody}
    BY <1>1 DEF Sound, DaemonTypeOK
  <2>3. cur' # Nobody => Left' <= Longest(cur)'
    BY <1>2, <1>3, <2>1, <2>2, LongestOf DEF TimesInv, DrainSound
  <2>4. signalled' => drain' + Left' <= LongestStep'
    BY <1>2, <1>3 DEF TimesInv, DrainSound, LongestStep
  <2>. QED
    BY <2>3, <2>4 DEF DrainSound
<1>5. WaitsSound'
  <2>1. Total(todo)' = Total(todo) /\ LongestTick' = LongestTick /\ LongestWait' = LongestWait
        /\ Slack' = Slack /\ Longer' = Longer
    BY <1>2 DEF Total, LongestWait, Slack, Longer
  <2>2. CASE signalled
    BY <1>2, <2>2 DEF TimesInv, WaitsSound
  <2>3. CASE ~signalled
    <3>1. Left' + Total(todo) <= LongestTick
      BY <1>1, <1>2, <1>3, <2>3, WaitNumbers DEF TimesInv, WaitsSound
    <3>2. \A c \in todo : waited[c] + Left' + Total(todo) <= LongestWait
      BY <1>1, <1>2, <1>3, <2>3, WaitNumbers DEF TimesInv, WaitsSound
    <3>3. \A c \in Polled \ todo : waited[c] + Left' + Total(todo) <= Interval - 1 + Slack + Longer
      BY <1>1, <1>2, <1>3, <2>3, WaitNumbers DEF TimesInv, WaitsSound
    <3>4. \A c \in seen : AgeTells(c)'
      BY <1>2, <2>3 DEF TimesInv, WaitsSound, AgeTells
    <3>. QED
      BY <1>2, <2>1, <2>3, <3>1, <3>2, <3>3, <3>4 DEF TimesInv, WaitsSound
  <2>. QED
    BY <2>2, <2>3
<1>. QED
  BY <1>1, <1>4, <1>5 DEF TimesInv

LEMMA EndTimes ==
  ASSUME TimesInv, End
  PROVE  TimesInv'
<1>1. Sound /\ Sound'
  BY EndSound DEF TimesInv
<1>2. /\ signalled' = FALSE /\ drain' = 0 /\ pc' = "idle" /\ cur' = Nobody /\ todo' = {}
      /\ missed' = TRUE /\ seen' = {} /\ \A c \in Polled : waited'[c] = 0
  BY DEF End
<1>3. Left' = 0
  BY <1>2 DEF Left
<1>4. Total(todo') = 0
  BY <1>2, TotalOf
<1>5. Slack' \in Nat
  BY Clamped DEF Slack
<1>6. DrainSound'
  BY <1>2 DEF DrainSound
<1>7. WaitsSound'
  <2>1. Total(todo)' = Total(todo') /\ Longer' = Longer /\ LongestTick' = LongestTick
    BY DEF Total, Longer
  <2>2. 0 + 0 + 0 <= Interval - 1 + Slack' + Longer /\ 0 + 0 <= LongestTick
    BY <1>1, <1>5, WaitNumbers
  <2>. QED
    BY <1>2, <1>3, <1>4, <2>1, <2>2 DEF WaitsSound
<1>. QED
  BY <1>1, <1>6, <1>7 DEF TimesInv

LEMMA OutsideTimes ==
  ASSUME TimesInv, Publish \/ SetBack \/ Signal \/ Restart
  PROVE  TimesInv'
<1>1. Sound /\ Sound'
  BY OutsideSound DEF TimesInv
<1>2. UNCHANGED work /\ drain' = drain
  BY DEF Publish, SetBack, Signal, Restart, life
<1>3. Left' = Left /\ Longest(cur)' = Longest(cur) /\ Total(todo)' = Total(todo) /\ cur' = cur
      /\ todo' = todo /\ Longer' = Longer /\ LongestTick' = LongestTick /\ LongestStep' = LongestStep
  BY <1>2 DEF work, Left, Longest, Total, Longer
<1>4. CASE Publish \/ Restart
  <2>1. UNCHANGED <<signalled, phase, missed, age, setBack, waited, seen>>
    BY <1>4 DEF Publish, Restart, life, clock
  <2>2. Slack' = Slack /\ LongestWait' = LongestWait
    BY <2>1 DEF Slack, LongestWait
  <2>3. \A c \in seen : AgeTells(c)' <=> AgeTells(c)
    BY <2>1 DEF AgeTells
  <2>. QED
    BY <1>1, <1>2, <1>3, <2>1, <2>2, <2>3 DEF TimesInv, DrainSound, WaitsSound
<1>5. CASE Signal
  <2>1. /\ ~signalled /\ signalled' = TRUE /\ drain = 0
        /\ \A c \in Polled : waited'[c] = 0
    BY <1>1, <1>5 DEF Signal, Sound, ClocksSound
  <2>2. Left <= LongestStep /\ Left \in Nat
    <3>1. CASE cur = Nobody
      <4>1. pc \in {"idle", "tick"}
        BY <1>1, <3>1 DEF Sound, DaemonTypeOK
      <4>2. Left = 0
        BY <1>1, <4>1, LeftType
      <4>. QED
        BY <4>2, LongestOf
    <3>2. CASE cur # Nobody
      <4>1. cur \in Polled /\ Left <= Longest(cur)
        BY <1>1, <3>2 DEF TimesInv, DrainSound, Sound, DaemonTypeOK
      <4>. QED
        BY <1>1, <4>1, LeftType, LongestOf
    <3>. QED
      BY <3>1, <3>2
  <2>3. DrainSound'
    BY <1>2, <1>3, <2>1, <2>2 DEF TimesInv, DrainSound
  <2>. QED
    BY <1>1, <2>1, <2>3 DEF TimesInv, WaitsSound
<1>6. CASE SetBack
  <2>1. /\ ~signalled /\ ~setBack /\ setBack' = TRUE /\ UNCHANGED <<signalled, phase, missed, waited, seen>>
        /\ age' = [c \in Polled |-> IF c \in seen THEN age[c] - Setback ELSE 0]
    BY <1>6 DEF SetBack, life
  <2>2. Slack = 0 /\ Slack' = Setback /\ LongestWait' = LongestWait + Setback /\ Setback \in Nat
    <3>1. Slack = 0 /\ Slack' = Setback /\ Setback \in Nat
      BY <2>1, Clamped DEF Slack
    <3>2. LongestWait' = Interval + Longer + LongestTick + Setback
      BY <2>1 DEF LongestWait, Longer
    <3>3. LongestWait = Interval + Longer + LongestTick + 0
      BY <1>1, <3>1, WaitNumbers
    <3>4. Interval \in Nat /\ Longer \in Nat /\ LongestTick \in Nat
      BY <1>1, WaitNumbers
    <3>. QED
      BY <3>1, <3>2, <3>3, <3>4
  <2>3. DrainSound'
    BY <1>2, <1>3, <2>1 DEF TimesInv, DrainSound
  <2>4. \A c \in todo : waited[c] + Left + Total(todo) <= LongestWait + Setback
    BY <1>1, <2>1, <2>2, WaitNumbers DEF TimesInv, WaitsSound
  <2>5. \A c \in Polled \ todo :
          /\ waited[c] + Left + Total(todo) <= Interval - 1 + Setback + Longer
          /\ ~missed => waited[c] <= Interval - 1 + Setback + phase
    BY <1>1, <2>1, <2>2, WaitNumbers DEF TimesInv, WaitsSound
  <2>6. \A c \in seen : AgeTells(c)'
    <3>. SUFFICES ASSUME NEW c \in seen, age'[c] < Interval
                  PROVE  waited[c] <= age'[c] + Setback
      BY <2>1 DEF AgeTells
    <3>1. c \in Polled /\ waited[c] \in Nat /\ age[c] \in Int /\ Interval \in Nat
      BY <1>1, WaitNumbers
    <3>2. age'[c] = age[c] - Setback
      BY <2>1, <3>1
    <3>3. age[c] < AgeCap
      BY <2>2, <3>1, <3>2 DEF AgeCap
    <3>4. waited[c] <= age[c]
      BY <2>1, <3>3 DEF TimesInv, WaitsSound, AgeTells
    <3>. QED
      BY <2>2, <3>1, <3>2, <3>4
  <2>7. WaitsSound'
    BY <1>3, <2>1, <2>2, <2>4, <2>5, <2>6 DEF TimesInv, WaitsSound
  <2>. QED
    BY <1>1, <2>3, <2>7 DEF TimesInv
<1>. QED
  BY <1>4, <1>5, <1>6

LEMMA TickTimes ==
  ASSUME TimesInv, Fire \/ EndTick \/ Decline \/ \E c \in Polled : Visit(c)
  PROVE  TimesInv'
<1>1. Sound /\ Sound'
  BY TickSound DEF TimesInv
<1>2. /\ UNCHANGED <<signalled, drain, phase, setBack>>
      /\ LongestTick' = LongestTick /\ LongestStep' = LongestStep /\ Longer' = Longer
      /\ Slack' = Slack /\ LongestWait' = LongestWait
  BY DEF Fire, EndTick, Decline, Visit, life, clock, Longer, Slack, LongestWait
<1>3. ASSUME cur' = cur, cur = Nobody, Left' = 0, Left = 0
      PROVE  DrainSound'
  BY <1>2, <1>3 DEF TimesInv, DrainSound
<1>4. CASE Fire
  <2>1. /\ pc = "idle" /\ pc' = "tick" /\ ~signalled /\ missed /\ missed' = FALSE
        /\ UNCHANGED <<cur, age, waited, seen>>
        /\ todo' = {c \in Polled : c \notin seen \/ age[c] >= Interval}
    BY <1>4 DEF Fire, Up
  <2>2. Left = 0 /\ Left' = 0 /\ cur = Nobody /\ todo = {}
    BY <1>1, <2>1, LeftType DEF Left, Sound, DaemonTypeOK, PlaceSound
  <2>3. /\ Total(todo') \in Nat /\ Total(todo') <= LongestTick /\ Total(todo) = 0
        /\ Total(todo)' = Total(todo')
    BY <2>1, <2>2, TotalOf DEF Total
  <2>4. \A c \in Polled : waited[c] <= Interval - 1 + Slack + Longer
    BY <1>1, <2>1, <2>2, <2>3, WaitNumbers DEF TimesInv, WaitsSound
  <2>5. \A c \in Polled : waited[c] + 0 + Total(todo') <= LongestWait
    BY <1>1, <2>3, <2>4, WaitNumbers
  <2>6. \A c \in Polled \ todo' : waited[c] <= Interval - 1 + Slack
    <3>. SUFFICES ASSUME NEW c \in Polled, c \in seen, ~(age[c] >= Interval)
                  PROVE  waited[c] <= Interval - 1 + Slack
      BY <2>1
    <3>1. AgeTells(c)
      BY <2>1 DEF TimesInv, WaitsSound
    <3>2. age[c] < Interval /\ age[c] <= Interval - 1
      BY <1>1, WaitNumbers
    <3>3. AgeCap = Interval + Setback /\ Setback \in Nat /\ Interval \in Nat
      BY Clamped
    <3>. QED
      BY <1>1, <3>1, <3>2, <3>3, WaitNumbers DEF AgeTells, Slack
  <2>7. \A c \in Polled \ todo' : /\ waited[c] + 0 + Total(todo') <= Interval - 1 + Slack + Longer
                                  /\ waited[c] <= Interval - 1 + Slack + phase
    BY <1>1, <2>3, <2>6, WaitNumbers
  <2>8. \A c \in seen : AgeTells(c)'
    BY <1>2, <2>1 DEF TimesInv, WaitsSound, AgeTells
  <2>9. WaitsSound'
    <3>1. 0 + Total(todo') <= LongestTick /\ todo' \in SUBSET Polled
      BY <2>1, <2>3
    <3>. QED
      BY <1>2, <2>1, <2>2, <2>3, <2>5, <2>7, <2>8, <3>1 DEF WaitsSound
  <2>. QED
    BY <1>1, <1>3, <2>1, <2>2, <2>9 DEF TimesInv
<1>5. CASE EndTick
  <2>1. /\ pc = "tick" /\ pc' = "idle" /\ todo = {}
        /\ UNCHANGED <<cur, age, waited, seen, missed, todo>>
    BY <1>5 DEF EndTick, Up
  <2>2. Left = 0 /\ Left' = 0 /\ cur = Nobody
    BY <1>1, <2>1, LeftType DEF Left, Sound, DaemonTypeOK
  <2>3. Total(todo)' = Total(todo)
    BY <2>1 DEF Total
  <2>4. \A c \in seen : AgeTells(c)' <=> AgeTells(c)
    BY <1>2, <2>1 DEF AgeTells
  <2>5. WaitsSound'
    BY <1>2, <2>1, <2>2, <2>3, <2>4 DEF TimesInv, WaitsSound
  <2>. QED
    BY <1>1, <1>3, <2>1, <2>2, <2>5 DEF TimesInv
<1>6. CASE Decline
  <2>1. pc = "tick" /\ pc' = "tick" /\ signalled /\ UNCHANGED <<cur, waited>>
    BY <1>6 DEF Decline, Up, clock
  <2>2. Left = 0 /\ Left' = 0 /\ cur = Nobody
    BY <1>1, <2>1, LeftType DEF Left, Sound, DaemonTypeOK
  <2>3. WaitsSound'
    BY <1>2, <2>1 DEF TimesInv, WaitsSound
  <2>. QED
    BY <1>1, <1>3, <2>1, <2>2, <2>3 DEF TimesInv
<1>7. ASSUME NEW c \in Polled, Visit(c)
      PROVE  TimesInv'
  <2>1. /\ pc = "tick" /\ pc' = "probe" /\ c \in todo /\ todo' = todo \ {c} /\ cur' = c /\ spent' = 0
        /\ ~signalled /\ seen' = seen \cup {c} /\ age' = [age EXCEPT ![c] = elapsed]
        /\ waited' = [waited EXCEPT ![c] = 0] /\ UNCHANGED <<missed>>
    BY <1>7 DEF Visit, Up
  <2>2. Left = 0 /\ Left' = Longest(c) - 0 /\ Longest(cur)' = Longest(c) /\ Longest(c) \in Nat
    BY <1>1, <2>1, LeftType, LongestOf DEF Left, Longest
  <2>3. Total(todo) = Total(todo \ {c}) + Longest(c) /\ Total(todo)' = Total(todo \ {c})
    BY <1>1, <2>1, TotalOf DEF Total, Sound, DaemonTypeOK
  <2>4. Total(todo \ {c}) \in Nat
    BY <1>1, TotalOf DEF Sound, DaemonTypeOK
  <2>5. waited'[c] = 0 /\ \A d \in Polled \ {c} : waited'[d] = waited[d] /\ age'[d] = age[d]
    BY <1>1, <2>1 DEF Sound, DaemonTypeOK
  <2>6. age'[c] = elapsed
    BY <1>1, <2>1 DEF Sound, DaemonTypeOK
  <2>7. DrainSound'
    BY <1>2, <2>1, <2>2 DEF DrainSound
  <2>8. \A d \in todo' : waited'[d] + Left' + Total(todo)' <= LongestWait
    <3>. SUFFICES ASSUME NEW d \in todo, d # c
                  PROVE  waited[d] + Left' + Total(todo)' <= LongestWait
      BY <1>1, <2>1, <2>5, WaitNumbers
    <3>1. waited[d] + Left + Total(todo) <= LongestWait /\ waited[d] \in Nat
      BY <1>1, <2>1, WaitNumbers DEF TimesInv, WaitsSound
    <3>. QED
      BY <2>2, <2>3, <2>4, <3>1
  <2>9. \A d \in Polled \ todo' :
           /\ waited'[d] + Left' + Total(todo)' <= Interval - 1 + Slack + Longer
           /\ ~missed => waited'[d] <= Interval - 1 + Slack + phase
    <3>1. Left + Total(todo) <= LongestTick
      BY <2>1 DEF TimesInv, WaitsSound
    <3>2. 0 + Left' + Total(todo)' <= Interval - 1 + Slack + Longer
          /\ 0 <= Interval - 1 + Slack + phase
      BY <1>1, <2>2, <2>3, <2>4, <3>1, WaitNumbers
    <3>3. ASSUME NEW d \in Polled \ todo, d # c
          PROVE  /\ waited[d] + Left' + Total(todo)' <= Interval - 1 + Slack + Longer
                 /\ ~missed => waited[d] <= Interval - 1 + Slack + phase
      <4>1. /\ waited[d] + Left + Total(todo) <= Interval - 1 + Slack + Longer
            /\ ~missed => waited[d] <= Interval - 1 + Slack + phase
        BY <2>1 DEF TimesInv, WaitsSound
      <4>2. waited[d] \in Nat /\ Left \in Nat /\ Total(todo) \in Nat
        BY <1>1, WaitNumbers
      <4>. QED
        BY <2>2, <2>3, <2>4, <4>1, <4>2
    <3>. QED
      BY <2>1, <2>5, <3>2, <3>3
  <2>10. \A d \in seen' : AgeTells(d)'
    <3>1. \A d \in seen : AgeTells(d)
      BY <2>1 DEF TimesInv, WaitsSound
    <3>2. ASSUME NEW d \in seen, d # c
          PROVE  AgeTells(d)'
      <4>1. d \in Polled
        BY <1>1, WaitNumbers
      <4>. QED
        BY <1>2, <2>5, <3>1, <3>2, <4>1 DEF AgeTells
    <3>3. AgeTells(c)'
      <4>1. /\ elapsed \in Int /\ elapsed >= -Setback /\ (~setBack => elapsed >= 0)
            /\ Setback \in Nat
        BY <1>1, Clamped DEF Sound, DaemonTypeOK, ClocksSound
      <4>. QED
        BY <1>2, <2>5, <2>6, <4>1 DEF AgeTells
    <3>. QED
      BY <2>1, <3>2, <3>3
  <2>11. WaitsSound'
    <3>1. Left' + Total(todo)' <= LongestTick
      BY <1>1, <2>1, <2>2, <2>3, <2>4 DEF TimesInv, WaitsSound
    <3>. QED
      BY <1>2, <2>1, <2>8, <2>9, <2>10, <3>1 DEF WaitsSound
  <2>. QED
    BY <1>1, <2>7, <2>11 DEF TimesInv
<1>. QED
  BY <1>4, <1>5, <1>6, <1>7

LEMMA PassLeft ==
  ASSUME Sound, Pass
  PROVE  \/ pc = "idle" /\ ~missed /\ ~signalled /\ cur = Nobody /\ todo = {} /\ Left = 0 /\ Left' = 0
         \/ cur # Nobody /\ Left' = Left - 1 /\ Left >= 1
<1>1. CASE pc = "idle"
  <2>1. pc' = "idle" /\ ~missed /\ ~signalled
    BY <1>1, Passing
  <2>2. Left = 0 /\ Left' = 0 /\ cur = Nobody /\ todo = {}
    BY <1>1, <2>1, LeftType DEF Left, Sound, DaemonTypeOK, PlaceSound
  <2>. QED
    BY <1>1, <2>1, <2>2
<1>2. CASE pc # "idle"
  <2>1. /\ pc \in {"probe", "pull", "backoff", "swap", "send"} /\ spent' = spent + 1 /\ spent < Limit
        /\ UNCHANGED <<pc, cur, attempt, queue, pending>>
    BY <1>2, Passing
  <2>2. Left \in Nat /\ Left >= 1 /\ spent \in Nat /\ cur # Nobody
    BY <2>1, LeftType DEF Sound, DaemonTypeOK
  <2>3. \E n \in Int : Left = n - spent /\ Left' = n - (spent + 1)
    <3>1. Longest(cur)' = Longest(cur)
      BY <2>1 DEF Longest
    <3>2. CASE pc = "probe"
      <4>1. Longest(cur) \in Int
        BY <2>1, <2>2, LongestOf DEF Sound, DaemonTypeOK
      <4>. QED
        BY <2>1, <3>1, <3>2, <4>1 DEF Left
    <3>3. CASE pc = "pull"
      <4>1. Pulls(attempt) \in Nat /\ Landing \in Nat
        BY <3>3, Durations DEF Sound, PlaceSound
      <4>2. Left = Pulls(attempt) + Landing - spent /\ Left' = Pulls(attempt') + Landing - spent'
        BY <2>1, <3>3 DEF Left
      <4>. DEFINE n == Pulls(attempt) + Landing
      <4>3. n \in Int /\ Left = n - spent /\ Left' = n - (spent + 1)
        BY <2>1, <2>2, <4>1, <4>2
      <4>. HIDE DEF n
      <4>. QED
        BY <4>3
    <3>4. CASE pc = "backoff"
      <4>1. attempt + 1 \in 1 .. 4
        BY <3>4, Delays DEF Sound, DaemonTypeOK
      <4>2. Pulls(attempt + 1) \in Nat /\ Landing \in Nat
        BY <4>1, Durations
      <4>3. /\ Left = 1 + Pulls(attempt + 1) + Landing - spent
            /\ Left' = 1 + Pulls(attempt' + 1) + Landing - spent'
        BY <2>1, <3>4 DEF Left
      <4>. DEFINE n == 1 + Pulls(attempt + 1) + Landing
      <4>4. n \in Int /\ Left = n - spent /\ Left' = n - (spent + 1)
        BY <2>1, <2>2, <4>2, <4>3
      <4>. HIDE DEF n
      <4>. QED
        BY <4>4
    <3>5. CASE pc = "swap"
      <4>1. Landing \in Int
        BY Durations
      <4>. QED
        BY <2>1, <3>5, <4>1 DEF Left
    <3>6. CASE pc = "send"
      <4>1. Len(queue) - 1 \in Nat /\ Cardinality(pending) \in Nat
        <5>1. IsFiniteSet(pending)
          BY Finite, FS_Subset DEF Sound, DaemonTypeOK
        <5>2. Cardinality(pending) \in Nat
          BY <5>1, FS_CardinalityType
        <5>. QED
          BY <3>6, <5>2, HeadType DEF Sound, DaemonTypeOK, PlaceSound
      <4>2. (Len(queue) - 1) * Round \in Nat /\ Cardinality(pending) * SendTimeout \in Nat
        BY <4>1, Durations, Scale
      <4>. DEFINE n == (Len(queue) - 1) * Round + Cardinality(pending) * SendTimeout
      <4>3. n \in Int
        BY <4>2
      <4>4. Left = n - spent /\ Left' = n - (spent + 1)
        <5>1. /\ Left = (Len(queue) - 1) * Round + Cardinality(pending) * SendTimeout - spent
              /\ Left' = (Len(queue') - 1) * Round + Cardinality(pending') * SendTimeout - spent'
          BY <2>1, <3>6 DEF Left
        <5>. QED
          BY <2>1, <2>2, <4>2, <5>1
      <4>. HIDE DEF n
      <4>. QED
        BY <4>3, <4>4
    <3>. QED
      BY <2>1, <3>2, <3>3, <3>4, <3>5, <3>6
  <2>. QED
    BY <2>2, <2>3
<1>. QED
  BY <1>1, <1>2

LEMMA PassTimes ==
  ASSUME TimesInv, Pass
  PROVE  TimesInv'
<1>1. Sound /\ Sound'
  BY PassSound DEF TimesInv
<1>2. UNCHANGED <<stopTimeout, signalled, setBack, pc, todo, cur, seen>>
  BY <1>1, Passing
<1>3. /\ Longest(cur)' = Longest(cur) /\ Total(todo)' = Total(todo) /\ LongestWait' = LongestWait
      /\ LongestTick' = LongestTick /\ LongestStep' = LongestStep
      /\ Longer' = Longer /\ Slack' = Slack
  BY <1>2 DEF Longest, Total, LongestWait, Longer, Slack
<1>4. /\ Left \in Nat /\ drain \in Nat /\ phase \in Nat /\ phase <= Tick - 1
      /\ todo \in SUBSET Polled /\ seen \in SUBSET Polled
      /\ Total(todo) \in Nat /\ Total(todo) <= LongestTick
      /\ Slack \in Nat /\ Longer \in Nat /\ Longer >= Tick /\ Longer >= LongestTick
      /\ LongestTick \in Nat /\ LongestWait \in Nat /\ LongestStep \in Nat
      /\ Interval \in Nat /\ Interval >= 1 /\ Tick \in Nat /\ Tick >= 1
      /\ \A c \in Polled : waited[c] \in Nat /\ age[c] \in Int
  BY <1>1, WaitNumbers, LongestOf
<1>5. Left' \in Nat /\ Left' <= Left
  BY <1>1, <1>4, PassLeft
<1>6. DrainSound'
  <2>1. cur # Nobody => Left' <= Longest(cur)
    <3>1. cur # Nobody => Longest(cur) \in Nat
      BY <1>1, LongestOf DEF Sound, DaemonTypeOK
    <3>. QED
      BY <1>4, <1>5, <3>1 DEF TimesInv, DrainSound
  <2>2. signalled => drain' + Left' <= LongestStep
    <3>. SUFFICES ASSUME signalled
                  PROVE  drain' + Left' <= LongestStep
      OBVIOUS
    <3>1. drain' = drain + 1 /\ Left' = Left - 1
      BY <1>1, Passing, PassLeft
    <3>. QED
      BY <1>4, <3>1 DEF TimesInv, DrainSound
  <2>. QED
    BY <1>2, <1>3, <2>1, <2>2 DEF DrainSound
<1>7. CASE signalled
  <2>1. waited' = waited
    BY <1>1, <1>7, Passing
  <2>. QED
    BY <1>1, <1>2, <1>6, <1>7, <2>1 DEF TimesInv, WaitsSound
<1>8. CASE ~signalled
  <2>1. /\ phase' = (IF phase + 1 = Tick THEN 0 ELSE phase + 1)
        /\ missed' = (missed \/ phase' = 0)
        /\ age' = [c \in Polled |-> IF c \in seen THEN Capped(age[c] + 1, AgeCap) ELSE 0]
        /\ waited' = [c \in Polled |-> Capped(waited[c] + 1, LongestWait + 1)]
    BY <1>1, <1>8, Passing
  <2>2. \A c \in Polled : waited'[c] \in Nat /\ waited'[c] <= waited[c] + 1
    BY <1>4, <2>1 DEF Capped
  <2>3. /\ Left + Total(todo) <= LongestTick
        /\ \A c \in todo : waited[c] + Left + Total(todo) <= LongestWait
        /\ \A c \in Polled \ todo :
             /\ waited[c] + Left + Total(todo) <= Interval - 1 + Slack + Longer
             /\ ~missed => waited[c] <= Interval - 1 + Slack + phase
        /\ \A c \in seen : AgeTells(c)
    BY <1>8 DEF TimesInv, WaitsSound
  <2>4. /\ Left' + Total(todo) <= LongestTick
        /\ \A c \in todo : waited'[c] + Left' + Total(todo) <= LongestWait
    <3>1. Left' + Total(todo) <= LongestTick
      BY <1>4, <1>5, <2>3
    <3>2. todo # {} => Left' = Left - 1
      BY <1>1, PassLeft
    <3>. QED
      BY <1>4, <2>2, <2>3, <3>1, <3>2
  <2>5. ASSUME NEW c \in Polled \ todo
        PROVE  ~missed' => waited'[c] <= Interval - 1 + Slack + phase'
    <3>1. ~missed' => ~missed /\ phase' = phase + 1
      BY <2>1
    <3>2. ~missed => waited[c] <= Interval - 1 + Slack + phase
      BY <2>3
    <3>. QED
      BY <1>4, <2>2, <3>1, <3>2
  <2>6. ASSUME NEW c \in Polled \ todo
        PROVE  waited'[c] + Left' + Total(todo) <= Interval - 1 + Slack + Longer
    <3>1. CASE cur # Nobody /\ Left' = Left - 1
      BY <1>4, <2>2, <2>3, <3>1
    <3>2. CASE ~missed /\ todo = {} /\ Left' = 0
      <4>1. waited[c] <= Interval - 1 + Slack + phase
        BY <2>3, <3>2
      <4>2. Total(todo) = 0
        BY <3>2, TotalOf
      <4>. QED
        BY <1>4, <2>2, <3>2, <4>1, <4>2
    <3>. QED
      BY <1>1, <3>1, <3>2, PassLeft
  <2>7. ASSUME NEW c \in seen
        PROVE  AgeTells(c)'
    <3>1. c \in Polled /\ age'[c] = Capped(age[c] + 1, AgeCap) /\ AgeTells(c)
      BY <1>4, <2>1, <2>3
    <3>2. AgeCap = Interval + Setback /\ Setback \in Nat
      BY Clamped
    <3>3. age'[c] < AgeCap => age'[c] = age[c] + 1
      BY <1>4, <3>1, <3>2 DEF Capped
    <3>4. age'[c] \in Int
      BY <1>4, <3>1, <3>2 DEF Capped
    <3>5. CASE setBack
      BY <1>2, <1>4, <2>2, <3>1, <3>2, <3>3, <3>4, <3>5 DEF AgeTells
    <3>6. CASE ~setBack
      BY <1>2, <1>4, <2>2, <3>1, <3>2, <3>3, <3>4, <3>6 DEF AgeTells
    <3>. QED
      BY <3>5, <3>6
  <2>8. WaitsSound'
    BY <1>2, <1>3, <1>8, <2>4, <2>5, <2>6, <2>7 DEF WaitsSound
  <2>. QED
    BY <1>1, <1>6, <2>8 DEF TimesInv
<1>. QED
  BY <1>7, <1>8

LEMMA TimesInitially ==
  ASSUME DaemonInit
  PROVE  TimesInv
<1>1. Sound
  BY SoundInitially
<1>2. /\ signalled = FALSE /\ pc = "idle" /\ cur = Nobody /\ todo = {} /\ missed = TRUE /\ seen = {}
      /\ \A c \in Polled : waited[c] = 0
  BY DEF DaemonInit
<1>3. Left = 0 /\ Total(todo) = 0
  BY <1>1, <1>2, LeftType, TotalOf
<1>4. DrainSound
  BY <1>2 DEF DrainSound
<1>5. WaitsSound
  <2>1. 0 + 0 + 0 <= Interval - 1 + Slack + Longer /\ 0 + 0 <= LongestTick
    BY <1>1, WaitNumbers
  <2>. QED
    BY <1>2, <1>3, <2>1 DEF WaitsSound
<1>. QED
  BY <1>1, <1>4, <1>5 DEF TimesInv

LEMMA TimesStep ==
  ASSUME TimesInv, [DaemonNext]_daemonVars
  PROVE  TimesInv'
<1>1. CASE UNCHANGED daemonVars
  <2>1. Sound'
    BY SoundStep DEF TimesInv
  <2>2. UNCHANGED <<life, clock, work, seen>>
    BY <1>1 DEF daemonVars
  <2>3. /\ Left' = Left /\ Longest(cur)' = Longest(cur) /\ Total(todo)' = Total(todo)
        /\ Slack' = Slack /\ Longer' = Longer /\ LongestWait' = LongestWait
        /\ LongestTick' = LongestTick /\ LongestStep' = LongestStep
    BY <2>2 DEF Left, Longest, Total, Slack, Longer, LongestWait, life, clock, work
  <2>4. \A c \in seen : AgeTells(c)' <=> AgeTells(c)
    BY <2>2 DEF AgeTells, clock
  <2>5. DrainSound'
    BY <2>2, <2>3 DEF TimesInv, DrainSound, life, work
  <2>6. WaitsSound'
    BY <2>2, <2>3, <2>4 DEF TimesInv, WaitsSound, life, clock, work
  <2>. QED
    BY <2>1, <2>5, <2>6 DEF TimesInv
<1>. QED
  BY <1>1, Steps, WorkTimes, EndTimes, PassTimes, OutsideTimes, TickTimes

\* Whatever hangs, fails and is published, and however --tick, --interval and
\* --stop-timeout are set: after a signal the process drains no longer than the stop
\* timeout and the processing of one container; and no container waits longer for its poll
\* than the interval, the length of two ticks, and the setback of the clock (commands/run.rs
\* with its ticker and its select, scheduler.rs with process_container and apply_update,
\* docker/mod.rs with its counted retries, notify/mod.rs with its request timeout).
THEOREM TimesHold == DaemonSpec => []TimesBounded
<1>1. DaemonInit => TimesInv
  BY TimesInitially
<1>2. TimesInv /\ [DaemonNext]_daemonVars => TimesInv'
  BY TimesStep
<1>3. TimesInv => TimesBounded
  <2>. SUFFICES ASSUME TimesInv
                PROVE  TimesBounded
    OBVIOUS
  <2>1. Sound /\ DaemonTypeOK
    BY DEF TimesInv, Sound
  <2>2. DrainBounded
    <3>. SUFFICES ASSUME signalled
                  PROVE  drain <= stopTimeout /\ drain <= LongestStep
      BY DEF DrainBounded
    <3>1. drain <= stopTimeout /\ drain \in Nat /\ Left \in Nat /\ LongestStep \in Nat
      BY <2>1, WaitNumbers, LongestOf DEF DaemonTypeOK
    <3>. QED
      BY <3>1 DEF TimesInv, DrainSound
  <2>3. PolledInTime
    <3>1. /\ Left \in Nat /\ Total(todo) \in Nat /\ LongestWait \in Nat /\ Interval \in Nat
          /\ Slack \in Nat /\ Longer \in Nat /\ LongestTick \in Nat
          /\ LongestWait = Interval + Longer + LongestTick + Slack
          /\ \A c \in Polled : waited[c] \in Nat
      BY <2>1, WaitNumbers
    <3>. QED
      BY <3>1 DEF PolledInTime, TimesInv, WaitsSound
  <2>. QED
    BY <2>1, <2>2, <2>3 DEF TimesBounded
<1>. QED
  BY <1>1, <1>2, <1>3, PTL DEF DaemonSpec

-----------------------------------------------------------------------------
(* The reports.                                                            *)

Due(e, t) == e.container \in Opted /\ t \in Subscribers(e.trigger)

\* Nothing is told before something has happened, only what is due is told, and what is due
\* to a reachable target has been told, or is being told, or is in the queue.
ReportsSound ==
  /\ pc \in {"idle", "probe", "pull", "backoff", "swap"} => facts = {} /\ told = {}
  /\ \A e \in Events, t \in Targets : <<e, t>> \in told => e \in facts /\ Due(e, t)
  /\ pc = "tick" => \A e \in facts, t \in Targets \ Flaky : Due(e, t) => <<e, t>> \in told
  /\ pc = "send" =>
       /\ \A i \in 1 .. Len(queue) : queue[i] \in facts /\ queue[i].container \in Opted
       /\ \A e \in facts, t \in Targets \ Flaky :
            Due(e, t) => \/ <<e, t>> \in told
                         \/ e = queue[1] /\ t \in pending
                         \/ \E i \in 2 .. Len(queue) : queue[i] = e

ReportsInv == Sound /\ ReportsSound

\* With the news all of what is due is in the queue, or told already.
LEMMA SendsReports ==
  ASSUME NEW news \in Seq(Events), Sends(news),
         \A i \in 1 .. Len(news) : news[i] \in facts' /\ news[i].container \in Opted,
         \A e \in Events, t \in Targets : <<e, t>> \in told' => e \in facts' /\ Due(e, t),
         \A e \in facts', t \in Targets \ Flaky :
           Due(e, t) => <<e, t>> \in told' \/ \E i \in 1 .. Len(news) : news[i] = e
  PROVE  ReportsSound'
<1>1. CASE news = <<>>
  <2>1. pc' = "tick" /\ Len(news) = 0
    BY <1>1 DEF Sends
  <2>2. \A e \in facts', t \in Targets \ Flaky : Due(e, t) => <<e, t>> \in told'
    BY <2>1
  <2>. QED
    BY <2>1, <2>2 DEF ReportsSound, Due
<1>2. CASE news # <<>>
  <2>1. pc' = "send" /\ queue' = news /\ pending' = Subscribers(news[1].trigger)
    BY <1>2 DEF Sends
  <2>2. \A e \in facts', t \in Targets \ Flaky :
          Due(e, t) => \/ <<e, t>> \in told'
                       \/ e = news[1] /\ t \in pending'
                       \/ \E i \in 2 .. Len(news) : news[i] = e
    <3>. SUFFICES ASSUME NEW e \in facts', NEW t \in Targets \ Flaky, Due(e, t), <<e, t>> \notin told'
                  PROVE  \/ e = news[1] /\ t \in pending'
                         \/ \E i \in 2 .. Len(news) : news[i] = e
      OBVIOUS
    <3>1. PICK i \in 1 .. Len(news) : news[i] = e
      OBVIOUS
    <3>2. Len(news) \in Nat
      OBVIOUS
    <3>3. CASE i = 1
      BY <2>1, <3>1, <3>3 DEF Due
    <3>4. CASE i # 1
      <4>1. i \in 2 .. Len(news)
        BY <3>2, <3>4
      <4>. QED
        BY <3>1, <4>1
    <3>. QED
      BY <3>3, <3>4
  <2>. QED
    BY <2>1, <2>2 DEF ReportsSound, Due
<1>. QED
  BY <1>1, <1>2

LEMMA WorkReports ==
  ASSUME ReportsInv, Work
  PROVE  ReportsInv'
<1>1. Sound /\ Sound' /\ ReportsSound
  BY WorkEases DEF ReportsInv
<1>2. told \subseteq Events \X Targets /\ facts \subseteq Events
  BY <1>1 DEF Sound, DaemonTypeOK
<1>3. ASSUME Sends(<<>>), facts = {}, told = {}, facts' = facts, told' = told
      PROVE  ReportsSound'
  BY <1>3 DEF ReportsSound, Sends
<1>4. CASE Probe
  <2>1. facts = {} /\ told = {} /\ told' = {} /\ cur \in Polled
    BY <1>1, <1>4 DEF Probe, Up, ReportsSound, Sound, DaemonTypeOK
  <2>2. ASSUME Done, facts' = facts
        PROVE  ReportsSound'
    <3>1. Sends(<<>>)
      BY <2>2, DoneSends
    <3>. QED
      BY <1>3, <2>1, <2>2, <3>1
  <2>3. ASSUME To("pull"), facts' = facts
        PROVE  ReportsSound'
    BY <2>1, <2>3 DEF To, ReportsSound
  <2>4. ASSUME cur \in Opted, Dispatch(<<Event("available", cur)>>),
               facts' = {Event("available", cur)}
        PROVE  ReportsSound'
    <3>. DEFINE e == Event("available", cur)
                news == <<e>>
    <3>1. e \in Events /\ e.container \in Opted
      BY <2>1, <2>4 DEF Event, Events
    <3>2. Sends(news)
      BY <2>4, Dispatches
    <3>3. news \in Seq(Events) /\ Len(news) = 1 /\ news[1] = e
      BY <3>1
    <3>4. facts' = {e}
      BY <2>4
    <3>. HIDE DEF news, e
    <3>5. \A i \in 1 .. Len(news) : news[i] \in facts' /\ news[i].container \in Opted
      BY <3>1, <3>3, <3>4
    <3>6. \A f \in facts' : \E i \in 1 .. Len(news) : news[i] = f
      BY <3>3, <3>4
    <3>. QED
      BY <2>1, <3>2, <3>3, <3>5, <3>6, SendsReports
  <2>. QED
    BY <2>2, <2>3, <2>4, <1>1, <1>4 DEF Probe, ReportsInv
<1>5. CASE Pull
  <2>1. facts = {} /\ told = {} /\ told' = {} /\ facts' = {}
    BY <1>1, <1>5 DEF Pull, Up, ReportsSound, report
  <2>2. ASSUME To("swap") \/ To("backoff")
        PROVE  ReportsSound'
    BY <2>1, <2>2 DEF To, ReportsSound
  <2>3. ASSUME Done
        PROVE  ReportsSound'
    <3>1. Sends(<<>>)
      BY <2>3, DoneSends
    <3>. QED
      BY <1>3, <2>1, <3>1
  <2>. QED
    BY <1>1, <1>5, <2>2, <2>3 DEF Pull, ReportsInv
<1>6. CASE Retry
  <2>1. facts' = {} /\ told' = {} /\ pc' = "pull"
    BY <1>1, <1>6 DEF Retry, To, Up, ReportsSound, report
  <2>. QED
    BY <1>1, <2>1 DEF ReportsSound, ReportsInv
<1>7. CASE Swap
  <2>1. told = {} /\ told' = {} /\ facts' \subseteq Events
    BY <1>1, <1>7, SwapNews DEF Swap, Up, ReportsSound
  <2>2. PICK news \in Seq(Events) :
          /\ Dispatch(news)
          /\ \A i \in 1 .. Len(news) : news[i] \in facts' /\ news[i].container \in Opted
          /\ \A e \in facts' : e.container \in Opted => \E i \in 1 .. Len(news) : news[i] = e
    BY <1>1, <1>7, SwapNews
  <2>3. Sends(news)
    BY <2>2, Dispatches
  <2>4. \A e \in facts', t \in Targets \ Flaky :
          Due(e, t) => <<e, t>> \in told' \/ \E i \in 1 .. Len(news) : news[i] = e
    BY <2>2 DEF Due
  <2>5. \A e \in Events, t \in Targets : <<e, t>> \in told' => e \in facts' /\ Due(e, t)
    BY <2>1
  <2>6. ReportsSound'
    BY <2>2, <2>3, <2>4, <2>5, SendsReports
  <2>. QED
    BY <1>1, <2>6 DEF ReportsInv
<1>8. CASE Dispatched
  <2>1. /\ pc = "send" /\ pending = {} /\ facts' = facts /\ told' = told
        /\ Dispatch(Tail(queue)) /\ queue # <<>> /\ queue \in Seq(Events)
    BY <1>1, <1>8 DEF Dispatched, Up, report, Sound, DaemonTypeOK, PlaceSound
  <2>. DEFINE news == Tail(queue)
  <2>2. /\ news \in Seq(Events) /\ Len(news) = Len(queue) - 1 /\ Len(queue) \in Nat \ {0}
        /\ \A i \in 1 .. Len(news) : news[i] = queue[i + 1]
    BY <2>1, HeadType
  <2>3. Sends(news)
    BY <2>1, Dispatches
  <2>. HIDE DEF news
  <2>4. /\ \A i \in 1 .. Len(queue) : queue[i] \in facts /\ queue[i].container \in Opted
        /\ \A e \in facts, t \in Targets \ Flaky :
             Due(e, t) => \/ <<e, t>> \in told
                          \/ e = queue[1] /\ t \in pending
                          \/ \E i \in 2 .. Len(queue) : queue[i] = e
    BY <1>1, <2>1 DEF ReportsSound
  <2>5. \A i \in 1 .. Len(news) : i + 1 \in 1 .. Len(queue)
    BY <2>2
  <2>6. \A i \in 1 .. Len(news) : news[i] \in facts' /\ news[i].container \in Opted
    BY <2>1, <2>2, <2>4, <2>5
  <2>7. \A e \in facts', t \in Targets \ Flaky :
          Due(e, t) => <<e, t>> \in told' \/ \E i \in 1 .. Len(news) : news[i] = e
    <3>. SUFFICES ASSUME NEW e \in facts, NEW t \in Targets \ Flaky, Due(e, t), <<e, t>> \notin told
                  PROVE  \E i \in 1 .. Len(news) : news[i] = e
      BY <2>1
    <3>1. PICK i \in 2 .. Len(queue) : queue[i] = e
      BY <2>1, <2>4
    <3>2. i - 1 \in 1 .. Len(news) /\ (i - 1) + 1 = i
      BY <2>2, <3>1
    <3>. QED
      BY <2>2, <3>1, <3>2
  <2>8. \A e \in Events, t \in Targets : <<e, t>> \in told' => e \in facts' /\ Due(e, t)
    BY <1>1, <2>1 DEF ReportsSound
  <2>9. ReportsSound'
    BY <2>2, <2>3, <2>6, <2>7, <2>8, SendsReports
  <2>. QED
    BY <1>1, <2>9 DEF ReportsInv
<1>9. ASSUME NEW t \in Targets, Send(t)
      PROVE  ReportsInv'
  <2>1. /\ pc = "send" /\ t \in pending /\ pending' = pending \ {t}
        /\ UNCHANGED <<pc, queue, facts>>
        /\ told' = told \cup {<<queue[1], t>>} \/ (t \in Flaky /\ told' = told)
    BY <1>9 DEF Send, AfterFailure, Up
  <2>2. queue[1] \in Events /\ 1 \in 1 .. Len(queue)
    <3>1. queue \in Seq(Events) /\ queue # <<>>
      BY <1>1, <2>1 DEF Sound, DaemonTypeOK, PlaceSound
    <3>2. queue[1] \in Events /\ Len(queue) \in Nat \ {0}
      BY <3>1, HeadType
    <3>. QED
      BY <3>2
  <2>3. queue[1] \in facts /\ Due(queue[1], t)
    BY <1>1, <2>1, <2>2 DEF ReportsSound, Due, Sound, PlaceSound
  <2>4. \A e \in Events, u \in Targets : <<e, u>> \in told' => e \in facts /\ Due(e, u)
    BY <1>1, <2>1, <2>3 DEF ReportsSound
  <2>5. \A e \in facts, u \in Targets \ Flaky :
          Due(e, u) => \/ <<e, u>> \in told'
                       \/ e = queue[1] /\ u \in pending'
                       \/ \E i \in 2 .. Len(queue) : queue[i] = e
    BY <1>1, <2>1 DEF ReportsSound
  <2>6. ReportsSound'
    BY <1>1, <2>1, <2>4, <2>5 DEF ReportsSound, Due
  <2>. QED
    BY <1>1, <2>6 DEF ReportsInv
<1>. QED
  BY <1>4, <1>5, <1>6, <1>7, <1>8, <1>9 DEF Work

LEMMA ReportsStep ==
  ASSUME ReportsInv, [DaemonNext]_daemonVars
  PROVE  ReportsInv'
<1>1. Sound' /\ ReportsSound
  BY SoundStep DEF ReportsInv
<1>2. ASSUME UNCHANGED <<pc, queue, pending, facts, told>>
      PROVE  ReportsSound'
  BY <1>1, <1>2 DEF ReportsSound, Due
<1>3. CASE End \/ \E c \in Polled : Visit(c)
  <2>1. facts' = {} /\ told' = {} /\ pc' \in {"idle", "probe"}
    BY <1>3 DEF End, Visit
  <2>. QED
    BY <1>1, <2>1 DEF ReportsInv, ReportsSound
<1>4. CASE Pass
  <2>1. UNCHANGED <<pc, queue, pending, facts, told>>
    BY <1>4, Passing DEF ReportsInv
  <2>. QED
    BY <1>1, <1>2, <2>1 DEF ReportsInv
<1>5. CASE Publish \/ SetBack \/ Signal \/ Restart \/ Decline \/ UNCHANGED daemonVars
  <2>1. UNCHANGED <<pc, queue, pending, facts, told>>
    BY <1>5 DEF Publish, SetBack, Signal, Restart, Decline, daemonVars, work, report
  <2>. QED
    BY <1>1, <1>2, <2>1 DEF ReportsInv
<1>6. CASE Fire
  <2>1. facts' = {} /\ told' = {} /\ pc' = "tick"
    BY <1>1, <1>6 DEF Fire, Up, report, ReportsSound
  <2>. QED
    BY <1>1, <2>1 DEF ReportsInv, ReportsSound
<1>7. CASE EndTick
  <2>1. facts' = {} /\ told' = {} /\ pc' = "idle"
    BY <1>7 DEF EndTick
  <2>. QED
    BY <1>1, <2>1 DEF ReportsInv, ReportsSound
<1>. QED
  BY Steps, WorkReports, <1>3, <1>4, <1>5, <1>6, <1>7

\* Whatever fails or hangs, and in whatever order the members of a rollout are updated:
\* when a container is done with, every reachable target has been told of each event that
\* it subscribes to of a container with freshdock.notify, and no target of another one
\* (notify/mod.rs, dispatch; scheduler.rs, report_rollout).
THEOREM ReportsHold == DaemonSpec => []Reported
<1>1. DaemonInit => ReportsInv
  <2>. SUFFICES ASSUME DaemonInit
                PROVE  ReportsInv
    OBVIOUS
  <2>1. Sound /\ facts = {} /\ told = {} /\ pc = "idle"
    BY SoundInitially DEF DaemonInit
  <2>. QED
    BY <2>1 DEF ReportsInv, ReportsSound
<1>2. ReportsInv /\ [DaemonNext]_daemonVars => ReportsInv'
  BY ReportsStep
<1>3. ReportsInv => Reported
  BY DEF ReportsInv, ReportsSound, Reported, Up, Due
<1>. QED
  BY <1>1, <1>2, <1>3, PTL DEF DaemonSpec
=============================================================================
