--------------------------- MODULE SchedulerProofs ---------------------------
(***************************************************************************)
(* The daemon loop does nothing twice, loses no cron window and ends after *)
(* a shutdown with the update in flight, for any containers, projects,     *)
(* digests and intervals.                                                  *)
(***************************************************************************)
EXTENDS Scheduler, TLAPS

-----------------------------------------------------------------------------
(* What a tick keeps, whatever happens around it.                          *)

Ticking == pc \in {"tick", "probe", "apply"}

CountsOK ==
  /\ rejections \in [All -> 0 .. 2] /\ updates \in [All -> 0 .. 2]
  /\ told \in [Containers -> 0 .. 2] /\ tail \in 0 .. 2

\* The listing is split into what was visited and what is still to visit.
ListingKept ==
  /\ Ticking => live = listed \ todo
  /\ cur # None => cur \in listed

\* What was announced is remembered.
ToldSound == \A c \in Containers : told[c] # 0 => told[c] = 1 /\ notified[c] = upstream

\* An update begun after the signal is the one whose probe was in flight.
TailSound == tail # 0 => tail = 1 /\ shutdown /\ pc \notin {"probe", "apply"}

LoopBase == TypeOK /\ CountsOK /\ ListingKept /\ ToldSound /\ TailSound

Members == (Project \cap running) \ Watch

LEMMA CountsStay ==
  ASSUME NEW D, NEW f \in [D -> 0 .. 2], NEW S
  PROVE  /\ Count(f, S) \in [D -> 0 .. 2] /\ Cleared(f, S, 0) \in [D -> 0 .. 2]
         /\ \A c \in D : /\ c \notin S => Count(f, S)[c] = f[c]
                         /\ c \in S /\ f[c] = 0 => Count(f, S)[c] = 1
                         /\ Cleared(f, S, 0)[c] = IF c \in S THEN 0 ELSE f[c]
<1>1. \A n \in 0 .. 2 : Capped(n + 1, 2) \in 0 .. 2
  BY DEF Capped
<1>2. Capped(0 + 1, 2) = 1
  BY DEF Capped
<1>3. DOMAIN f = D
  OBVIOUS
<1> HIDE DEF Capped
<1>4. Count(f, S) \in [D -> 0 .. 2] /\ Cleared(f, S, 0) \in [D -> 0 .. 2]
  BY <1>1, <1>3 DEF Count, Cleared
<1> QED
  BY <1>2, <1>3, <1>4 DEF Count, Cleared

\* What clearing leaves of the daemon's maps.
LEMMA ClearedMaps ==
  ASSUME TypeOK, NEW S
  PROVE  /\ \A v \in Digests :
              /\ Cleared(image, S, v) \in [All -> Digests]
              /\ \A c \in All : Cleared(image, S, v)[c] = IF c \in S THEN v ELSE image[c]
         /\ \A v \in Digests \cup {None} :
              /\ Cleared(failed, S, v) \in [All -> Digests \cup {None}]
              /\ \A c \in All : Cleared(failed, S, v)[c] = IF c \in S THEN v ELSE failed[c]
         /\ Cleared(notified, S, None) \in [Containers -> Digests \cup {None}]
         /\ \A c \in Containers : Cleared(notified, S, None)[c] = IF c \in S THEN None ELSE notified[c]
         /\ Cleared(window, S, FALSE) \in [Containers -> BOOLEAN]
         /\ \A c \in Containers \ S : Cleared(window, S, FALSE)[c] = window[c]
         /\ Cleared(age, S, PollInterval) \in [Containers -> 0 .. PollInterval]
<1>1. PollInterval \in 0 .. PollInterval
  BY SchedulerAssumption
<1> QED
  BY <1>1 DEF TypeOK, Cleared

\* What may stop and start with it.
Moved(T) ==
  \/ \E down \in SUBSET (Dependents \cap MayLeave) : running' \in {running \ down, (running \cup {cur}) \ down}
  \/ \E m \in T : running' = running \ {m}

\* An application of an update, whichever way it went: to the container alone, or to the
\* targets of its project (T); nothing is tried of a project that could not be read.
Applies ==
  /\ pc = "apply" /\ pc' = "tick" /\ cur' = None /\ latest' = None
  /\ UNCHANGED <<todo, live, states, crons, age, window, notified, upstream, calendar, hour, ticked,
                 shutdown, listed, told>>
  /\ \E T \in {{cur}, Targets} : \E tried \in SUBSET T : \E done, bad \in SUBSET tried :
       /\ tried # {} => \/ T = {cur} /\ cur \notin Project \cap running
                        \/ T = Targets /\ cur \in Project \cap running
       /\ \E again \in SUBSET Dependents : handled' = handled \cup T \cup again
       /\ Moved(T)
       /\ image' = Cleared(image, done, upstream)
       /\ tag' \in {tag, upstream}
       /\ rejections' = Count(rejections, bad) /\ updates' = Count(updates, tried)
       /\ tail' \in {tail, IF shutdown THEN Capped(tail + 1, 2) ELSE tail}
       /\ \/ bad # {} /\ upstream \in Bad /\ Reject(T)
          \/ bad = {} /\ UNCHANGED failed
          \/ bad = {} /\ upstream \notin Bad /\ Land(T)

LEMMA ApplyEffects ==
  ASSUME LoopBase, Alone \/ Rollout \/ RolloutUnread
  PROVE  Applies
<1> DEFINE Tail == {tail, IF shutdown THEN Capped(tail + 1, 2) ELSE tail}
           Outcome(T, tried, done, bad) ==
             /\ image' = Cleared(image, done, upstream)
             /\ tag' \in {tag, upstream}
             /\ rejections' = Count(rejections, bad) /\ updates' = Count(updates, tried)
             /\ tail' \in Tail
             /\ pc' = "tick" /\ cur' = None /\ latest' = None
             /\ UNCHANGED <<todo, live, states, crons, age, window, notified, upstream, calendar,
                            hour, ticked, shutdown, listed, told>>
<1>1. \A tried, done, bad, T : Applied(tried, done, bad) => Outcome(T, tried, done, bad)
  <2>1. \A done, bad : (IF done = {} /\ bad = {} /\ CanFail THEN {tag, upstream} ELSE {upstream})
                       \subseteq {tag, upstream}
    OBVIOUS
  <2> QED
    BY <2>1 DEF Applied, Processed
<1>2. ASSUME pc = "apply",
             NEW T \in {{cur}, Targets}, NEW tried \in SUBSET T, NEW done \in SUBSET tried, NEW bad \in SUBSET tried,
             tried # {} => \/ T = {cur} /\ cur \notin Project \cap running
                           \/ T = Targets /\ cur \in Project \cap running,
             Outcome(T, tried, done, bad), \E again \in SUBSET Dependents : handled' = handled \cup T \cup again,
             Moved(T),
             \/ bad # {} /\ upstream \in Bad /\ Reject(T)
             \/ bad = {} /\ UNCHANGED failed
             \/ bad = {} /\ upstream \notin Bad /\ Land(T)
      PROVE  Applies
  BY <1>2 DEF Applies
<1>0. ASSUME NEW T
      PROVE  /\ running' \in {running, running \cup {cur}} \/ (\E m \in T : running' = running \ {m}) => Moved(T)
             /\ handled' = handled \cup T => \E again \in SUBSET Dependents : handled' = handled \cup T \cup again
  <2>1. {} \in SUBSET (Dependents \cap MayLeave) /\ running \ {} = running
        /\ (running \cup {cur}) \ {} = running \cup {cur}
    OBVIOUS
  <2>2. running' \in {running, running \cup {cur}} \/ (\E m \in T : running' = running \ {m}) => Moved(T)
    BY <2>1 DEF Moved
  <2>3. {} \in SUBSET Dependents /\ (handled \cup T) \cup {} = handled \cup T
    OBVIOUS
  <2> QED
    BY <2>2, <2>3
<1> HIDE DEF Outcome
<1>3. CASE Alone
  <2>1. pc = "apply" /\ cur \in Containers /\ cur # None
    BY <1>3, SchedulerAssumption DEF Alone, LoopBase, TypeOK, All
  <2>2. cur \notin Project \cap running \/ Targets = {cur}
    BY <1>3 DEF Alone
  <2>3. cur \in Targets => cur \in Project \cap running
    BY <2>1, SchedulerAssumption DEF Targets
  <2>4. \/ {cur} = {cur} /\ cur \notin Project \cap running
        \/ {cur} = Targets /\ cur \in Project \cap running
    BY <2>2, <2>3
  <2>5. {cur} \in {{cur}, Targets} /\ {cur} \in SUBSET {cur} /\ {} \in SUBSET {cur} /\ cur \in {cur}
    OBVIOUS
  <2>6. ASSUME upstream \notin Bad, Applied({cur}, {cur}, {}), Land({cur}),
               Restarted({cur}, IF cur \in Project \cap running THEN Dependents ELSE {})
        PROVE  Applies
    <3>1. PICK again \in SUBSET Dependents, down \in SUBSET (Dependents \cap MayLeave) :
            /\ running' = (running \cup ({cur} \ Jobs)) \ down
            /\ handled' = handled \cup {cur} \cup again
      BY <2>6 DEF Restarted
    <3>2. {cur} \ Jobs = {cur}
      BY <2>1, SchedulerAssumption
    <3>3. Moved({cur})
      BY <3>1, <3>2 DEF Moved
    <3> QED
      BY <1>1, <1>2, <2>1, <2>4, <2>5, <2>6, <3>1, <3>3
  <2>7. CASE upstream \in Bad /\ Applied({cur}, {}, {cur}) /\ Reject({cur}) /\ running' = running \cup {cur}
             /\ handled' = handled \cup {cur}
    <3>1. Moved({cur}) /\ \E again \in SUBSET Dependents : handled' = handled \cup {cur} \cup again
      BY <1>0, <2>7
    <3>2. Outcome({cur}, {cur}, {}, {cur}) /\ {cur} # {}
      BY <1>1, <2>7
    <3> QED
      BY <1>2, <2>1, <2>4, <2>5, <2>7, <3>1, <3>2
  <2>8. CASE Applied({cur}, {}, {}) /\ UNCHANGED failed /\ running' \in {running, running \ {cur}}
             /\ handled' = handled \cup {cur}
    BY <1>0, <1>1, <1>2, <2>1, <2>4, <2>5, <2>8
  <2>9. CASE Applied({cur}, {cur}, {}) /\ UNCHANGED failed /\ running' = running \cup {cur}
             /\ handled' = handled \cup {cur}
    BY <1>0, <1>1, <1>2, <2>1, <2>4, <2>5, <2>9
  <2> QED
    BY <1>3, <2>6, <2>7, <2>8, <2>9 DEF Alone
<1>4. CASE Rollout
  <2>1. pc = "apply" /\ cur \in Project \cap running
    BY <1>4 DEF Rollout
  <2>2. ASSUME upstream \notin Bad, Applied(Targets, Targets, {}), Land(Targets), Restarted(Targets, Dependents)
        PROVE  Applies
    <3> DEFINE tried == Targets
    <3>1. tried \in SUBSET Targets /\ tried \in SUBSET tried /\ {} \in SUBSET tried
      OBVIOUS
    <3>4. PICK again \in SUBSET Dependents, down \in SUBSET (Dependents \cap MayLeave) :
            /\ running' = (running \cup (Targets \ Jobs)) \ down
            /\ handled' = handled \cup Targets \cup again
      BY <2>2 DEF Restarted
    <3>5. running \cup (Targets \ Jobs) = running
      BY DEF Targets
    <3>6. Moved(Targets)
      BY <3>4, <3>5 DEF Moved
    <3> HIDE DEF tried
    <3>2. Applied(tried, tried, {})
      BY <2>2 DEF tried
    <3>3. Outcome(Targets, tried, tried, {})
      BY <1>1, <3>2
    <3> QED
      BY <1>2, <2>1, <2>2, <3>1, <3>3, <3>4, <3>6
  <2>3. ASSUME NEW done \in SUBSET Targets, NEW m \in Targets \ done, handled' = handled \cup Targets,
               \/ upstream \in Bad /\ Applied(done \cup {m}, done, {m}) /\ Reject(Targets)
                  /\ UNCHANGED running
               \/ Applied(done \cup {m}, done, {}) /\ UNCHANGED <<failed, running>>
               \/ Applied(done \cup {m}, done, {}) /\ UNCHANGED failed /\ running' \in {running, running \ {m}}
               \/ Applied(done \cup {m}, done \cup {m}, {}) /\ UNCHANGED <<failed, running>>
        PROVE  Applies
    <3> DEFINE tried == done \cup {m}
    <3>1. tried \in SUBSET Targets /\ done \in SUBSET tried /\ {m} \in SUBSET tried /\ {} \in SUBSET tried
          /\ tried \in SUBSET tried
      OBVIOUS
    <3> HIDE DEF tried
    <3>2. CASE upstream \in Bad /\ Applied(tried, done, {m}) /\ Reject(Targets) /\ UNCHANGED running
      BY <1>0, <1>1, <1>2, <2>1, <2>3, <3>1, <3>2
    <3>3. CASE Applied(tried, done, {}) /\ UNCHANGED failed /\ running' \in {running, running \ {m}}
      BY <1>0, <1>1, <1>2, <2>1, <2>3, <3>1, <3>3
    <3>4. CASE Applied(tried, tried, {}) /\ UNCHANGED <<failed, running>>
      BY <1>0, <1>1, <1>2, <2>1, <2>3, <3>1, <3>4
    <3> QED
      BY <2>3, <3>2, <3>3, <3>4 DEF tried
  <2> QED
    BY <1>4, <2>2, <2>3 DEF Rollout
<1>5. CASE RolloutUnread
  <2>1. /\ pc = "apply" /\ pc' = "tick" /\ cur' = None /\ latest' = None /\ handled' = handled \cup {cur}
        /\ UNCHANGED <<world, docker, memory, history, todo, live>>
    BY <1>5 DEF RolloutUnread, Processed
  <2>2. Cleared(image, {}, upstream) = image
    BY DEF Cleared, LoopBase, TypeOK
  <2>3. Count(rejections, {}) = rejections /\ Count(updates, {}) = updates
    BY DEF Count, LoopBase, CountsOK
  <2>4. Moved({cur}) /\ \E again \in SUBSET Dependents : handled' = handled \cup {cur} \cup again
    BY <1>0, <2>1 DEF world
  <2> QED
    BY <2>1, <2>2, <2>3, <2>4 DEF Applies, world, docker, memory, history
<1> QED
  BY <1>3, <1>4, <1>5

LEMMA ApplyKeeps ==
  ASSUME LoopBase, Applies
  PROVE  LoopBase'
<1> USE DEF LoopBase
<1>1. /\ pc = "apply" /\ pc' = "tick" /\ cur' = None /\ latest' = None
      /\ UNCHANGED <<todo, live, states, crons, age, window, notified, upstream, calendar, hour, ticked,
                     shutdown, listed, told>>
  BY DEF Applies
<1>2. cur \in Containers /\ Targets \subseteq All /\ upstream \in Digests /\ latest \in Digests \cup {None}
  BY <1>1, SchedulerAssumption DEF TypeOK, Targets, All
<1>3. /\ running' \subseteq Containers /\ handled' \subseteq All /\ tag' \in Digests
  <2>1. /\ tag' \in {tag, upstream} /\ handled' \subseteq handled \cup {cur} \cup Targets \cup Dependents
        /\ running' \subseteq running \cup {cur}
    BY DEF Applies, Moved
  <2> QED
    BY <1>2, <2>1 DEF TypeOK, All, Dependents
<1>4. image' \in [All -> Digests]
  <2>1. \A S : Cleared(image, S, upstream) \in [All -> Digests]
    BY <1>2, ClearedMaps
  <2>2. image \in [All -> Digests]
    BY DEF TypeOK
  <2>3. \E S : image' = Cleared(image, S, upstream)
    BY DEF Applies
  <2> QED
    BY <2>1, <2>2, <2>3
<1>5. failed' \in [All -> Digests \cup {None}]
  <2>1. \A S : /\ Cleared(failed, S, latest) \in [All -> Digests \cup {None}]
              /\ Cleared(failed, S, None) \in [All -> Digests \cup {None}]
    BY <1>2, ClearedMaps
  <2>2. failed \in [All -> Digests \cup {None}]
    BY DEF TypeOK
  <2>3. failed' = failed \/ \E S : failed' \in {Cleared(failed, S, latest), Cleared(failed, S, None)}
    BY DEF Applies, Reject, Land
  <2> QED
    BY <2>1, <2>2, <2>3
<1>6. TypeOK'
  BY <1>1, <1>3, <1>4, <1>5 DEF TypeOK
<1>7. rejections' \in [All -> 0 .. 2] /\ updates' \in [All -> 0 .. 2]
  BY CountsStay DEF Applies, CountsOK
<1>8. tail = 0
  BY <1>1 DEF TailSound
<1>9. tail' = 0 \/ (tail' = 1 /\ shutdown)
  BY <1>8 DEF Applies, Capped
<1>10. CountsOK' /\ TailSound'
  BY <1>1, <1>7, <1>9 DEF CountsOK, TailSound
<1>11. ListingKept' /\ ToldSound'
  BY <1>1, SchedulerAssumption DEF ListingKept, ToldSound, Ticking
<1> QED
  BY <1>6, <1>10, <1>11

LEMMA BaseStep ==
  ASSUME LoopBase, [Next]_vars
  PROVE  LoopBase'
<1> USE DEF LoopBase
<1> USE DEF world, docker, tick, memory, history
<1>1. CASE UNCHANGED vars
  BY <1>1 DEF vars, TypeOK, CountsOK, ListingKept, ToldSound, TailSound, Ticking
<1>2. CASE Alone \/ Rollout \/ RolloutUnread
  BY <1>2, ApplyEffects, ApplyKeeps
<1>3. CASE Publish
  <2>1. TypeOK'
    BY <1>3 DEF Publish, TypeOK
  <2>2. CountsOK' /\ ToldSound'
    BY <1>3 DEF Publish, CountsOK, ToldSound
  <2>3. ListingKept' /\ TailSound'
    BY <1>3 DEF Publish, ListingKept, TailSound, Ticking
  <2> QED
    BY <2>1, <2>2, <2>3
<1>4. ASSUME NEW c \in Containers, LeaveOrReturn(c) PROVE LoopBase'
  <2>1. TypeOK'
    BY <1>4 DEF LeaveOrReturn, TypeOK
  <2> QED
    BY <1>4, <2>1 DEF LeaveOrReturn, CountsOK, ListingKept, ToldSound, TailSound, Ticking
<1>5. ASSUME NEW c \in Containers, Relabel(c) PROVE LoopBase'
  <2>1. TypeOK'
    BY <1>5, SchedulerAssumption DEF Relabel, TypeOK
  <2> QED
    BY <1>5, <2>1 DEF Relabel, CountsOK, ListingKept, ToldSound, TailSound, Ticking
<1>6. CASE ShutDown
  <2>1. TypeOK'
    BY <1>6 DEF ShutDown, TypeOK
  <2> QED
    BY <1>6, <2>1 DEF ShutDown, CountsOK, ListingKept, ToldSound, TailSound, Ticking
<1>7. CASE Pass
  <2>1. hour' \in 0 .. Day - 1
    BY <1>7, SchedulerAssumption DEF Pass, TypeOK
  <2>2. age' \in [Containers -> 0 .. PollInterval]
    BY <1>7, SchedulerAssumption DEF Pass, TypeOK, Capped
  <2>3. window' \in [Containers -> BOOLEAN]
    BY <1>7 DEF Pass, TypeOK
  <2>4. TypeOK'
    BY <1>7, <2>1, <2>2, <2>3 DEF Pass, TypeOK
  <2> QED
    BY <1>7, <2>4 DEF Pass, CountsOK, ListingKept, ToldSound, TailSound, Ticking
<1>8. CASE StartTick
  <2>1. TypeOK'
    BY <1>8, SchedulerAssumption DEF StartTick, TypeOK
  <2>2. CountsOK' /\ ToldSound' /\ TailSound'
    BY <1>8 DEF StartTick, CountsOK, ToldSound, TailSound
  <2>3. ListingKept'
    BY <1>8 DEF StartTick, ListingKept, TypeOK, Ticking
  <2> QED
    BY <2>1, <2>2, <2>3
<1>9. CASE Stop
  <2>1. TypeOK'
    BY <1>9 DEF Stop, TypeOK
  <2> QED
    BY <1>9, <2>1 DEF Stop, CountsOK, ListingKept, ToldSound, TailSound, Ticking
<1>10. CASE Decline
  <2>1. TypeOK'
    BY <1>10 DEF Decline, TypeOK
  <2> QED
    BY <1>10, <2>1 DEF Decline, CountsOK, ListingKept, ToldSound, TailSound, Ticking
<1>11. ASSUME NEW c \in Containers, PassOver(c) PROVE LoopBase'
  <2>1. TypeOK'
    BY <1>11, SchedulerAssumption DEF PassOver, Note, TypeOK
  <2>2. ListingKept'
    BY <1>11 DEF PassOver, Note, ListingKept, TypeOK, Ticking
  <2> QED
    BY <1>11, <2>1, <2>2 DEF PassOver, Note, CountsOK, ToldSound, TailSound
<1>12. ASSUME NEW c \in Containers, Visit(c) PROVE LoopBase'
  <2>1. /\ age' \in [Containers -> 0 .. PollInterval] /\ window' \in [Containers -> BOOLEAN]
        /\ \/ pc' = "probe" /\ cur' = c
           \/ UNCHANGED <<pc, cur>>
    <3>1. Checked(c) => age' \in [Containers -> 0 .. PollInterval] /\ window' \in [Containers -> BOOLEAN]
      <4>1. 0 \in 0 .. PollInterval
        BY SchedulerAssumption
      <4> QED
        BY <4>1 DEF Checked, TypeOK
    <3>2. age \in [Containers -> 0 .. PollInterval] /\ window \in [Containers -> BOOLEAN]
      BY DEF TypeOK
    <3> QED
      BY <1>12, <3>1, <3>2 DEF Visit, Resolve
  <2>2. /\ pc = "tick" /\ c \in todo /\ ~shutdown /\ cur = None
        /\ todo' = todo \ {c} /\ live' = live \cup {c}
        /\ states' \subseteq Containers /\ crons' \subseteq states'
        /\ UNCHANGED <<world, docker, latest, handled, notified, failed, history>>
    BY <1>12 DEF Visit, Note, TypeOK
  <2>3. TypeOK'
    <3>1. todo' \subseteq listed' /\ live' \subseteq Containers /\ states' \subseteq Containers
          /\ crons' \subseteq states' /\ listed' \subseteq Containers
      BY <2>2 DEF TypeOK
    <3>2. pc' \in {"tick", "probe"} /\ cur' \in Containers \cup {None} /\ (cur' # None <=> pc' = "probe")
      BY <2>1, <2>2, SchedulerAssumption DEF TypeOK, All
    <3> QED
      BY <2>1, <2>2, <3>1, <3>2 DEF TypeOK
  <2>4. ListingKept'
    BY <2>1, <2>2 DEF ListingKept, TypeOK, Ticking
  <2>5. TailSound'
    BY <2>2 DEF TailSound
  <2> QED
    BY <2>2, <2>3, <2>4, <2>5 DEF CountsOK, ToldSound
<1>13. CASE EndTick
  <2> DEFINE gone == Containers \ live
  <2>1. /\ pc = "tick" /\ todo = {} /\ pc' = "idle"
        /\ states' = states \cap live /\ crons' = crons \cap live
        /\ age' = Cleared(age, gone, PollInterval)
        /\ window' = Cleared(window, gone, FALSE)
        /\ notified' = Cleared(notified, gone, None)
        /\ failed' = Cleared(failed, gone \cup Jobs, None)
        /\ rejections' = Cleared(rejections, All \ listed, 0)
        /\ told' = Cleared(told, All \ listed, 0)
        /\ handled' = {} /\ live' = {}
        /\ UNCHANGED <<world, docker, todo, cur, latest, listed, updates, tail>>
    BY <1>13 DEF EndTick
  <2>2. age' \in [Containers -> 0 .. PollInterval]
    BY <2>1, ClearedMaps, SchedulerAssumption DEF TypeOK
  <2>3. /\ window' \in [Containers -> BOOLEAN] /\ notified' \in [Containers -> Digests \cup {None}]
        /\ failed' \in [All -> Digests \cup {None}]
    BY <2>1, ClearedMaps DEF TypeOK
  <2>4. TypeOK'
    BY <2>1, <2>2, <2>3 DEF TypeOK
  <2>5. CountsOK'
    BY <2>1, CountsStay DEF CountsOK
  <2>6. ToldSound'
    <3> SUFFICES ASSUME NEW c \in Containers, told'[c] # 0 PROVE told'[c] = 1 /\ notified'[c] = upstream'
      BY DEF ToldSound
    <3>1. c \in listed /\ told'[c] = told[c]
      BY <2>1, CountsStay DEF CountsOK, All
    <3>2. c \in live
      BY <2>1, <3>1 DEF ListingKept, Ticking
    <3>3. c \notin gone /\ notified' = Cleared(notified, gone, None)
      BY <2>1, <3>2
    <3>4. notified'[c] = notified[c]
      BY <3>3 DEF Cleared, TypeOK
    <3> QED
      BY <2>1, <3>1, <3>4 DEF ToldSound
  <2>7. ListingKept' /\ TailSound'
    BY <2>1 DEF ListingKept, TailSound, TypeOK, Ticking
  <2> QED
    BY <2>4, <2>5, <2>6, <2>7
<1>14. CASE ProbeInVain
  <2>1. TypeOK'
    BY <1>14, SchedulerAssumption DEF ProbeInVain, Processed, TypeOK
  <2>2. ListingKept'
    BY <1>14 DEF ProbeInVain, Processed, ListingKept, Ticking
  <2> QED
    BY <1>14, <2>1, <2>2 DEF ProbeInVain, Processed, CountsOK, ToldSound, TailSound
<1>15. CASE Announce
  <2>1. cur \in Containers
    BY <1>15 DEF Announce, TypeOK
  <2>2. TypeOK'
    BY <1>15, SchedulerAssumption DEF Announce, Processed, TypeOK
  <2>3. CountsOK'
    BY <1>15, CountsStay DEF Announce, CountsOK
  <2>4. ToldSound'
    <3> SUFFICES ASSUME NEW c \in Containers, told'[c] # 0 PROVE told'[c] = 1 /\ notified'[c] = upstream'
      BY DEF ToldSound
    <3>1. told' = Count(told, {cur}) /\ notified' = [notified EXCEPT ![cur] = upstream]
          /\ notified[cur] # upstream /\ upstream' = upstream
      BY <1>15 DEF Announce
    <3>2. told[cur] = 0
      BY <2>1, <3>1 DEF ToldSound
    <3>3. CASE c = cur
      BY <2>1, <3>1, <3>2, <3>3, CountsStay DEF CountsOK, TypeOK
    <3>4. CASE c # cur
      BY <2>1, <3>1, <3>4, CountsStay DEF CountsOK, TypeOK, ToldSound
    <3> QED
      BY <3>3, <3>4
  <2>5. ListingKept' /\ TailSound'
    BY <1>15 DEF Announce, Processed, ListingKept, TailSound, Ticking
  <2> QED
    BY <2>2, <2>3, <2>4, <2>5
<1>16. CASE Proceed
  <2>1. TypeOK'
    BY <1>16 DEF Proceed, TypeOK
  <2> QED
    BY <1>16, <2>1 DEF Proceed, CountsOK, ListingKept, ToldSound, TailSound, Ticking
<1> QED
  BY <1>1, <1>2, <1>3, <1>4, <1>5, <1>6, <1>7, <1>8, <1>9, <1>10, <1>11, <1>12, <1>13, <1>14, <1>15,
     <1>16 DEF Next, Daemon

LEMMA BaseInitially ==
  ASSUME Init
  PROVE  LoopBase
<1>1. TypeOK
  <2>1. PollInterval \in 0 .. PollInterval /\ 0 \in 0 .. Day - 1
    BY SchedulerAssumption
  <2>2. First \in Digests /\ Cron \subseteq Containers \ Watch
    BY SchedulerAssumption
  <2> QED
    BY <2>1, <2>2 DEF Init, TypeOK
<1>2. CountsOK /\ ListingKept /\ ToldSound /\ TailSound
  BY DEF Init, CountsOK, ListingKept, ToldSound, TailSound, Ticking
<1> QED
  BY <1>1, <1>2 DEF LoopBase

LEMMA BaseInvariant == Spec => []LoopBase
<1> QED
  BY BaseInitially, BaseStep, PTL DEF Spec

LEMMA BaseSuffices ==
  ASSUME LoopBase
  PROVE  TypeOK /\ LastUpdate /\ AnnouncedOnce
<1>1. ASSUME NEW c \in Containers PROVE told[c] <= 1
  <2>1. told[c] \in 0 .. 2 /\ (told[c] # 0 => told[c] = 1)
    BY DEF LoopBase, CountsOK, ToldSound
  <2> QED
    BY <2>1
<1>2. TypeOK /\ LastUpdate
  BY DEF LoopBase, CountsOK, TailSound, LastUpdate
<1> QED
  BY <1>1, <1>2 DEF AnnouncedOnce

\* Whatever upstream does and whoever leaves: after the signal that run_with selects on,
\* at most the update in flight is carried out, and a watched update is announced once.
THEOREM EndsSoon == Spec => [](TypeOK /\ LastUpdate /\ AnnouncedOnce)
<1> QED
  BY BaseInvariant, BaseSuffices, PTL

-----------------------------------------------------------------------------
(* Nothing is done twice, provided that upstream does not publish between  *)
(* a probe and its pull, and that no member of the project leaves the      *)
(* listing: a race leaves the probed digest in the memory of failures, not *)
(* the pulled one, and leaving it erases what the member remembered.       *)

Steady == ~Races /\ Project \cap MayLeave = {}

\* The container does not run what upstream serves, or its tag does not name it.
Behind(c) == tag # upstream \/ image[c] # tag

\* What is being processed was listed, not yet covered, and has something to gain.
CurSound ==
  /\ pc \in {"probe", "apply"} => cur \in listed \ handled
  /\ pc = "apply" => /\ latest = upstream /\ cur \notin Watch
                     /\ Behind(cur) /\ failed[cur] # upstream

\* Only the rollout stops a member of the project within a tick.
MembersRun ==
  Ticking => Project \cap running \subseteq listed /\ (Project \cap listed) \ running \subseteq handled

\* A rejection is remembered where it happened, and by all who could ask for the rollout.
RejectSound ==
  /\ \A c \in All : rejections[c] # 0 => rejections[c] = 1 /\ upstream \in Bad /\ failed[c] = upstream
  /\ (\E m \in Project \cup Jobs : rejections[m] # 0) =>
       \A c \in Members : failed[c] = upstream \/ ~Behind(c)

\* So is what this tick has updated already.
UpdateSound ==
  /\ \A c \in All : updates[c] # 0 => updates[c] = 1 /\ (Ticking => c \in handled)
  /\ Ticking /\ (\E m \in Project \cup Jobs : updates[m] # 0) =>
       \A c \in Members : c \in handled \/ ~Behind(c)

LoopIInv == LoopBase /\ CurSound /\ MembersRun /\ RejectSound /\ UpdateSound

\* A step that touches neither what runs nor what is remembered of it.
Quiet ==
  /\ UNCHANGED <<upstream, running, tag, image, rejections, updates, failed, handled, listed>>
  /\ Ticking' => Ticking

LEMMA QuietKeeps ==
  ASSUME LoopIInv, Quiet
  PROVE  MembersRun' /\ RejectSound' /\ UpdateSound'
<1>1. Members' = Members /\ \A c \in Members : Behind(c)' = Behind(c)
  BY DEF Quiet, Members, Behind
<1>2. MembersRun'
  BY DEF Quiet, LoopIInv, MembersRun
<1>3. RejectSound'
  BY <1>1 DEF Quiet, LoopIInv, RejectSound
<1>4. UpdateSound'
  BY <1>1 DEF Quiet, LoopIInv, UpdateSound
<1> QED
  BY <1>2, <1>3, <1>4

\* What is current stays so through an update of others.
LEMMA ApplyAdvances ==
  ASSUME LoopIInv, Steady, Applies
  PROVE  /\ Members' \subseteq Members
         /\ \A c \in All : ~Behind(c) => ~Behind(c)'
         /\ MembersRun' /\ CurSound'
<1> USE DEF LoopIInv
<1>1. /\ pc = "apply" /\ pc' = "tick" /\ UNCHANGED <<upstream, listed>>
      /\ tag' \in {tag, upstream}
      /\ running' \in {running, running \cup {cur}}
         \/ \E m \in All : running' = running \ {m} /\ m \in handled'
      /\ handled \subseteq handled'
  <2>1. cur \in All /\ Targets \subseteq All
    BY SchedulerAssumption DEF Applies, LoopBase, TypeOK, Targets, All
  <2>2. Dependents \cap MayLeave = {}
    BY DEF Dependents, Steady
  <2>3. \A T : Moved(T) => \/ running' \in {running, running \cup {cur}}
                          \/ \E m \in T : running' = running \ {m}
    BY <2>2 DEF Moved
  <2>4. PICK T \in {{cur}, Targets} : Moved(T) /\ T \subseteq handled' /\ handled \subseteq handled'
    BY DEF Applies
  <2>5. \/ running' \in {running, running \cup {cur}}
        \/ \E m \in All : running' = running \ {m} /\ m \in handled'
    BY <2>1, <2>3, <2>4
  <2>6. pc = "apply" /\ pc' = "tick" /\ UNCHANGED <<upstream, listed>> /\ tag' \in {tag, upstream}
    BY DEF Applies
  <2> QED
    BY <2>4, <2>5, <2>6
<1>2. cur \in listed /\ (cur \in Project => cur \in running)
  BY <1>1 DEF CurSound, MembersRun, Ticking
<1>3. Project \cap running' \subseteq Project \cap running
  BY <1>1, <1>2
<1>4. MembersRun' /\ CurSound'
  BY <1>1, <1>2, <1>3 DEF MembersRun, CurSound, Ticking
<1>5. ASSUME NEW c \in All, ~Behind(c) PROVE ~Behind(c)'
  <2>1. image'[c] \in {image[c], upstream}
    <3>1. \E S : image' = Cleared(image, S, upstream)
      BY DEF Applies
    <3> QED
      BY <3>1 DEF Cleared, LoopBase, TypeOK
  <2> QED
    BY <1>1, <1>5, <2>1 DEF Behind
<1> QED
  BY <1>3, <1>4, <1>5 DEF Members

LEMMA ApplyRemembers ==
  ASSUME LoopIInv, Steady, Applies
  PROVE  RejectSound' /\ UpdateSound'
<1> USE DEF LoopIInv
<1>1. /\ pc = "apply" /\ pc' = "tick" /\ upstream' = upstream /\ latest = upstream
      /\ cur \in Containers /\ cur \notin handled /\ cur \notin Jobs
      /\ Behind(cur) /\ failed[cur] # upstream /\ cur \notin Watch
      /\ (cur \in Project => cur \in Project \cap running)
  BY SchedulerAssumption DEF Applies, CurSound, MembersRun, Ticking, LoopBase, TypeOK, All
<1>2. PICK T, tried, bad :
        /\ T \in {{cur}, Targets} /\ tried \subseteq T /\ bad \subseteq tried
        /\ tried # {} => \/ T = {cur} /\ cur \notin Project \cap running
                         \/ T = Targets /\ cur \in Project \cap running
        /\ handled \cup T \subseteq handled'
        /\ rejections' = Count(rejections, bad) /\ updates' = Count(updates, tried)
        /\ \/ bad # {} /\ upstream \in Bad /\ Reject(T)
           \/ bad = {} /\ UNCHANGED failed
           \/ bad = {} /\ upstream \notin Bad /\ Land(T)
  BY DEF Applies
<1>3. Targets \subseteq All /\ T \subseteq All
  BY <1>1, <1>2, SchedulerAssumption DEF Targets, All
<1>4. CurSound /\ \A c \in Members \ Targets : ~Behind(c)
  BY <1>1 DEF Members, Targets, Behind
<1>5. cur \in Project => \A m \in Project \cup Jobs : rejections[m] = 0 /\ updates[m] = 0
  <2> SUFFICES ASSUME cur \in Project PROVE \A m \in Project \cup Jobs : rejections[m] = 0 /\ updates[m] = 0
    OBVIOUS
  <2>1. cur \in Members
    BY <1>1 DEF Members
  <2> QED
    BY <1>1, <2>1 DEF RejectSound, UpdateSound, Ticking
<1>6. /\ Members' \subseteq Members /\ \A c \in All : ~Behind(c) => ~Behind(c)'
  BY ApplyAdvances
<1>7. /\ \A c \in All : c \notin bad => rejections'[c] = rejections[c]
      /\ \A c \in All : c \notin tried => updates'[c] = updates[c]
      /\ \A c \in All : c \in bad /\ rejections[c] = 0 => rejections'[c] = 1
      /\ \A c \in All : c \in tried /\ updates[c] = 0 => updates'[c] = 1
  BY <1>2, CountsStay DEF LoopBase, CountsOK
<1>8. \A c \in tried : rejections[c] = 0 /\ updates[c] = 0
  <2>1. CASE T = {cur} /\ cur \notin Project \cap running
    <3>1. rejections[cur] = 0 /\ updates[cur] = 0
      BY <1>1 DEF RejectSound, UpdateSound, Ticking, All
    <3> QED
      BY <1>2, <2>1, <3>1
  <2>2. CASE T = Targets /\ cur \in Project \cap running
    BY <1>2, <1>5, <2>2 DEF Targets
  <2> QED
    BY <1>2, <2>1, <2>2
<1>9. \A c \in All : failed'[c] = upstream \/ failed'[c] = failed[c] \/ (upstream \notin Bad /\ c \in T)
  <2>1. failed \in [All -> Digests \cup {None}]
    BY DEF LoopBase, TypeOK
  <2> QED
    BY <1>1, <1>2, <2>1 DEF Reject, Land, Cleared
<1>10. bad # {} => upstream \in Bad /\ \A c \in T : failed'[c] = upstream
  <2>1. failed \in [All -> Digests \cup {None}]
    BY DEF LoopBase, TypeOK
  <2> QED
    BY <1>1, <1>2, <1>3, <2>1 DEF Reject, Cleared
<1>11. Members \subseteq All
  BY SchedulerAssumption DEF Members, All
<1>12. ASSUME tried # {}, cur \notin Project
       PROVE  T = {cur} /\ \A m \in Project \cup Jobs : m \notin tried
  BY <1>1, <1>2, <1>12
<1>13. RejectSound'
  <2>1. ASSUME NEW c \in All, rejections'[c] # 0
        PROVE  rejections'[c] = 1 /\ upstream' \in Bad /\ failed'[c] = upstream'
    <3>1. CASE c \in bad
      BY <1>1, <1>2, <1>7, <1>8, <1>10, <3>1
    <3>2. CASE c \notin bad
      BY <1>1, <1>7, <1>9, <2>1, <3>2 DEF RejectSound
    <3> QED
      BY <3>1, <3>2
  <2>2. ASSUME NEW m \in Project \cup Jobs, rejections'[m] # 0, NEW c \in Members'
        PROVE  failed'[c] = upstream' \/ ~Behind(c)'
    <3>1. m \in All /\ c \in Members /\ c \in All
      BY <1>6, <1>11, SchedulerAssumption DEF All
    <3>2. upstream \in Bad
      BY <1>1, <2>1, <2>2, <3>1
    <3>3. CASE cur \in Project
      <4>1. m \in bad /\ bad # {}
        BY <1>5, <1>7, <2>2, <3>1, <3>3
      <4>2. T = Targets
        BY <1>1, <1>2, <3>3, <4>1
      <4> QED
        BY <1>1, <1>4, <1>6, <1>10, <3>1, <4>1, <4>2
    <3>4. CASE cur \notin Project
      <4>1. rejections[m] # 0
        BY <1>2, <1>7, <1>12, <2>2, <3>1, <3>4
      <4>2. failed[c] = upstream \/ ~Behind(c)
        BY <3>1, <4>1 DEF RejectSound
      <4> QED
        BY <1>1, <1>6, <1>9, <3>1, <3>2, <4>2
    <3> QED
      BY <3>3, <3>4
  <2> QED
    BY <2>1, <2>2 DEF RejectSound
<1>14. UpdateSound'
  <2>1. ASSUME NEW c \in All, updates'[c] # 0
        PROVE  updates'[c] = 1 /\ c \in handled'
    <3>1. CASE c \in tried
      BY <1>2, <1>7, <1>8, <3>1
    <3>2. CASE c \notin tried
      BY <1>1, <1>2, <1>7, <2>1, <3>2 DEF UpdateSound, Ticking
    <3> QED
      BY <3>1, <3>2
  <2>2. ASSUME NEW m \in Project \cup Jobs, updates'[m] # 0, NEW c \in Members'
        PROVE  c \in handled' \/ ~Behind(c)'
    <3>1. m \in All /\ c \in Members /\ c \in All
      BY <1>6, <1>11, SchedulerAssumption DEF All
    <3>2. CASE cur \in Project
      <4>1. m \in tried /\ tried # {}
        BY <1>5, <1>7, <2>2, <3>1, <3>2
      <4>2. T = Targets
        BY <1>1, <1>2, <3>2, <4>1
      <4> QED
        BY <1>2, <1>4, <1>6, <3>1, <4>2
    <3>3. CASE cur \notin Project
      <4>1. updates[m] # 0
        BY <1>7, <1>12, <2>2, <3>1, <3>3
      <4>2. c \in handled \/ ~Behind(c)
        BY <1>1, <3>1, <4>1 DEF UpdateSound, Ticking
      <4> QED
        BY <1>2, <1>6, <3>1, <4>2
    <3> QED
      BY <3>2, <3>3
  <2> QED
    BY <1>1, <2>1, <2>2 DEF UpdateSound, Ticking
<1> QED
  BY <1>13, <1>14
LEMMA LoopStep ==
  ASSUME LoopIInv, Steady, [Next]_vars
  PROVE  LoopIInv'
<1> USE DEF LoopIInv
<1> USE DEF world, docker, tick, memory, history
<1>1. LoopBase'
  BY BaseStep
<1>2. CASE UNCHANGED vars
  <2>1. Quiet /\ CurSound'
    BY <1>2 DEF vars, Quiet, Ticking, CurSound, Behind
  <2> QED
    BY <1>1, <2>1, QuietKeeps
<1>3. CASE Alone \/ Rollout \/ RolloutUnread
  BY <1>1, <1>3, ApplyEffects, ApplyAdvances, ApplyRemembers
<1>4. CASE Publish
  <2>1. MembersRun' /\ CurSound'
    BY <1>4 DEF Publish, Steady, MembersRun, CurSound, Ticking
  <2>2. RejectSound' /\ UpdateSound'
    BY <1>4, SchedulerAssumption DEF Publish, RejectSound, UpdateSound, All
  <2> QED
    BY <1>1, <2>1, <2>2
<1>5. ASSUME NEW c \in Containers, LeaveOrReturn(c) PROVE LoopIInv'
  <2>1. c \notin Project /\ Project \cap running' = Project \cap running
        /\ (Project \cap listed) \ running' = (Project \cap listed) \ running
    BY <1>5 DEF LeaveOrReturn, Steady
  <2>2. Members' = Members /\ \A m \in All : Behind(m)' = Behind(m)
    BY <1>5, <2>1 DEF LeaveOrReturn, Members, Behind
  <2>3. MembersRun' /\ CurSound'
    BY <1>5, <2>1 DEF LeaveOrReturn, MembersRun, CurSound, Ticking, Behind
  <2>4. Members \subseteq All
    BY SchedulerAssumption DEF Members, All
  <2>5. RejectSound'
    BY <1>5, <2>2, <2>4 DEF LeaveOrReturn, RejectSound
  <2>6. UpdateSound'
    BY <1>5, <2>2, <2>4 DEF LeaveOrReturn, UpdateSound, Ticking
  <2> QED
    BY <1>1, <2>3, <2>5, <2>6
<1>6. ASSUME NEW c \in Containers, Relabel(c) PROVE LoopIInv'
  <2>1. ~Ticking /\ ~Ticking'
    BY <1>6 DEF Relabel, Ticking
  <2>2. /\ UNCHANGED <<upstream, running, tag, rejections, updates, failed, pc>>
        /\ image' = [image EXCEPT ![c] = tag]
    BY <1>6 DEF Relabel
  <2>3. Members' = Members /\ \A m \in All : ~Behind(m) => ~Behind(m)'
    BY <2>2 DEF Members, Behind, LoopBase, TypeOK
  <2>4. Members \subseteq All
    BY SchedulerAssumption DEF Members, All
  <2>5. RejectSound'
    BY <2>2, <2>3, <2>4 DEF RejectSound
  <2>6. MembersRun' /\ CurSound' /\ UpdateSound'
    BY <2>1, <2>2 DEF MembersRun, CurSound, UpdateSound, Ticking
  <2> QED
    BY <1>1, <2>5, <2>6
<1>7. CASE ShutDown
  <2>1. Quiet /\ CurSound'
    BY <1>7 DEF ShutDown, Quiet, Ticking, CurSound, Behind
  <2> QED
    BY <1>1, <2>1, QuietKeeps
<1>8. CASE Pass
  <2>1. Quiet /\ CurSound'
    BY <1>8 DEF Pass, Quiet, Ticking, CurSound
  <2> QED
    BY <1>1, <2>1, QuietKeeps
<1>9. CASE StartTick
  <2>1. /\ pc = "idle" /\ UNCHANGED <<upstream, running, tag, image, rejections, failed>>
        /\ (pc' = "tick" /\ listed' = running) \/ pc' = "idle"
        /\ updates' = [c \in All |-> 0]
    BY <1>9 DEF StartTick
  <2>2. MembersRun' /\ CurSound'
    BY <2>1 DEF MembersRun, CurSound, Ticking
  <2>3. UpdateSound'
    BY <2>1, SchedulerAssumption DEF UpdateSound, All
  <2>4. RejectSound'
    BY <2>1 DEF RejectSound, Members, Behind
  <2> QED
    BY <1>1, <2>2, <2>3, <2>4
<1>10. CASE Stop
  <2>1. Quiet /\ CurSound'
    BY <1>10 DEF Stop, Quiet, Ticking, CurSound
  <2> QED
    BY <1>1, <2>1, QuietKeeps
<1>11. CASE Decline
  <2>1. pc' = "idle" /\ UNCHANGED <<upstream, running, tag, image, rejections, updates, failed, listed>>
    BY <1>11 DEF Decline
  <2>2. MembersRun' /\ CurSound' /\ UpdateSound'
    BY <2>1 DEF MembersRun, CurSound, UpdateSound, Ticking
  <2>3. RejectSound'
    BY <2>1 DEF RejectSound, Members, Behind
  <2> QED
    BY <1>1, <2>2, <2>3
<1>12. ASSUME NEW c \in Containers, PassOver(c) PROVE LoopIInv'
  <2>1. Quiet /\ CurSound'
    BY <1>12 DEF PassOver, Quiet, Ticking, CurSound
  <2> QED
    BY <1>1, <2>1, QuietKeeps
<1>13. ASSUME NEW c \in Containers, Visit(c) PROVE LoopIInv'
  <2>1. /\ pc = "tick" /\ c \in todo /\ c \notin handled
        /\ UNCHANGED <<world, docker, handled, failed, history>>
        /\ \/ pc' = "probe" /\ cur' = c
           \/ UNCHANGED <<pc, cur>>
    BY <1>13 DEF Visit, Covered, Resolve
  <2>2. Quiet /\ CurSound'
    BY <2>1 DEF Quiet, Ticking, CurSound, LoopBase, TypeOK
  <2> QED
    BY <1>1, <2>2, QuietKeeps
<1>14. CASE EndTick
  <2> DEFINE gone == Containers \ live
  <2>1. /\ pc = "tick" /\ todo = {} /\ pc' = "idle"
        /\ failed' = Cleared(failed, gone \cup Jobs, None)
        /\ rejections' = Cleared(rejections, All \ listed, 0)
        /\ UNCHANGED <<upstream, running, tag, image, listed, updates>>
    BY <1>14 DEF EndTick
  <2>2. live = listed
    BY <2>1 DEF LoopBase, ListingKept, Ticking
  <2>3. ASSUME NEW c \in listed PROVE c \in All /\ failed'[c] = failed[c]
    <3>1. c \in Containers /\ c \notin gone /\ c \notin Jobs
      BY <2>2, SchedulerAssumption DEF LoopBase, TypeOK
    <3> QED
      BY <2>1, <3>1 DEF Cleared, LoopBase, TypeOK, All
  <2>4. ASSUME NEW c \in All, rejections'[c] # 0 PROVE c \in listed /\ rejections'[c] = rejections[c]
    BY <2>1, <2>4, CountsStay DEF LoopBase, CountsOK
  <2>5. \A c \in Members : c \in listed
    BY <2>1 DEF Members, MembersRun, Ticking
  <2>6. Members' = Members /\ \A c \in All : Behind(c)' = Behind(c)
    BY <2>1 DEF Members, Behind
  <2>7. RejectSound'
    <3>1. Project \cup Jobs \subseteq All
      BY SchedulerAssumption DEF All
    <3>2. \A c \in All : rejections'[c] # 0 => rejections'[c] = 1 /\ upstream \in Bad /\ failed'[c] = upstream
      BY <2>3, <2>4 DEF RejectSound
    <3>3. ASSUME NEW m \in Project \cup Jobs, rejections'[m] # 0, NEW c \in Members
          PROVE  failed'[c] = upstream \/ ~Behind(c)
      BY <2>3, <2>4, <2>5, <3>1, <3>3 DEF RejectSound
    <3> QED
      BY <2>1, <2>3, <2>5, <2>6, <3>2, <3>3 DEF RejectSound
  <2>8. MembersRun' /\ CurSound' /\ UpdateSound'
    BY <2>1 DEF MembersRun, CurSound, UpdateSound, Ticking
  <2> QED
    BY <1>1, <2>7, <2>8
<1>15. CASE ProbeInVain
  <2>1. Quiet /\ CurSound'
    BY <1>15 DEF ProbeInVain, Processed, Quiet, Ticking, CurSound
  <2> QED
    BY <1>1, <2>1, QuietKeeps
<1>16. CASE Announce
  <2>1. Quiet /\ CurSound'
    BY <1>16 DEF Announce, Processed, Quiet, Ticking, CurSound
  <2> QED
    BY <1>1, <2>1, QuietKeeps
<1>17. CASE Proceed
  <2>1. Quiet /\ CurSound'
    BY <1>17 DEF Proceed, Available, Quiet, Ticking, CurSound, Behind
  <2> QED
    BY <1>1, <2>1, QuietKeeps
<1> QED
  BY <1>2, <1>3, <1>4, <1>5, <1>6, <1>7, <1>8, <1>9, <1>10, <1>11, <1>12, <1>13, <1>14, <1>15,
     <1>16, <1>17 DEF Next, Daemon

LEMMA LoopInvariant ==
  ASSUME Steady
  PROVE  Spec => []LoopIInv
<1>1. Init => LoopBase /\ CurSound /\ MembersRun /\ RejectSound /\ UpdateSound
  <2>1. Init => LoopBase
    BY BaseInitially
  <2>2. Init => CurSound /\ MembersRun
    BY DEF Init, CurSound, MembersRun, Ticking
  <2>3. Init => RejectSound /\ UpdateSound
    BY SchedulerAssumption DEF Init, RejectSound, UpdateSound, All
  <2> QED
    BY <2>1, <2>2, <2>3
<1>2. LoopIInv /\ [Next]_vars => LoopIInv'
  BY LoopStep
<1> QED
  BY <1>1, <1>2, PTL DEF Spec, LoopIInv

\* While upstream serves a digest no container is given it twice in a tick, none is given
\* it again after its health gate failed, and a watched one hears of it once: whichever
\* member of a project asks for the rollout that apply_update and rollout::plan carry out.
THEOREM TwiceNothing == Steady => (Spec => []NothingTwice)
<1> SUFFICES ASSUME Steady PROVE Spec => []NothingTwice
  OBVIOUS
<1>1. LoopIInv => NothingTwice
  <2>1. LoopIInv => RejectedOnce /\ OncePerTick
    BY DEF LoopIInv, RejectSound, UpdateSound, RejectedOnce, OncePerTick
  <2>2. LoopIInv => AnnouncedOnce
    BY BaseSuffices DEF LoopIInv
  <2> QED
    BY <2>1, <2>2 DEF NothingTwice
<1> QED
  BY <1>1, LoopInvariant, PTL

\* The bookkeeping of run_tick is sound through ticks, deferrals and the shutdown, after
\* which at most the update in flight is carried out.
THEOREM BookkeepingSound == Steady => (Spec => []LoopInv)
<1> SUFFICES ASSUME Steady PROVE Spec => []LoopInv
  OBVIOUS
<1>1. LoopIInv => LoopInv
  <2>1. LoopIInv => RejectedOnce
    BY DEF LoopIInv, RejectSound, RejectedOnce
  <2>2. LoopIInv => TypeOK /\ LastUpdate
    BY BaseSuffices DEF LoopIInv
  <2> QED
    BY <2>1, <2>2 DEF LoopInv
<1> QED
  BY <1>1, LoopInvariant, PTL

\* A cron window is used up only by probing its container, or lost when the container
\* leaves the listing: neither a failed inspect nor a deferral by process_container, nor
\* the rollout of another member, nor the shutdown, costs it.  No assumption is needed.
THEOREM WindowsKept == Spec => WindowKept
<1>1. ASSUME LoopBase, [Next]_vars, NEW c \in Containers, window[c], ~window'[c]
      PROVE  (pc' = "probe" /\ cur' = c) \/ c \notin listed
  <2> USE <1>1 DEF world, docker, tick, memory, history
  <2>1. CASE UNCHANGED vars
    BY <2>1 DEF vars
  <2>2. CASE Alone \/ Rollout \/ RolloutUnread
    BY <2>2, ApplyEffects DEF Applies
  <2>3. CASE Publish \/ ShutDown \/ \E m \in Containers : LeaveOrReturn(m) \/ Relabel(m)
    BY <2>3 DEF Publish, ShutDown, LeaveOrReturn, Relabel
  <2>4. CASE Pass
    BY <2>4 DEF Pass
  <2>5. CASE StartTick \/ Stop \/ Decline
    BY <2>5 DEF StartTick, Stop, Decline
  <2>6. ASSUME NEW m \in Containers, PassOver(m) PROVE window' = window
    BY <2>6 DEF PassOver
  <2>7. ASSUME NEW m \in Containers, Visit(m)
        PROVE  window' = window \/ (pc' = "probe" /\ cur' = m /\ window' = [window EXCEPT ![m] = FALSE])
    BY <2>7 DEF Visit, Resolve, Checked
  <2>8. CASE EndTick
    <3>1. live = listed /\ window' = Cleared(window, Containers \ live, FALSE)
      BY <2>8 DEF EndTick, LoopBase, ListingKept, Ticking
    <3> QED
      BY <3>1 DEF Cleared, LoopBase, TypeOK
  <2>9. CASE ProbeInVain \/ Announce \/ Proceed
    BY <2>9 DEF ProbeInVain, Announce, Proceed
  <2>10. ASSUME NEW m \in Containers, Visit(m) PROVE (pc' = "probe" /\ cur' = c) \/ c \notin listed
    BY <2>7, <2>10 DEF LoopBase, TypeOK
  <2> QED
    BY <2>1, <2>2, <2>3, <2>4, <2>5, <2>6, <2>8, <2>9, <2>10 DEF Next, Daemon
<1>2. LoopBase /\ [Next]_vars =>
        [\A c \in Containers : window[c] /\ ~window'[c] =>
           (pc' = "probe" /\ cur' = c) \/ c \notin listed]_vars
  BY <1>1
<1> QED
  BY <1>2, BaseInvariant, PTL DEF Spec, WindowKept
==============================================================================
