------------------------------ MODULE Scheduler ------------------------------
(***************************************************************************)
(* The daemon loop of scheduler.rs: a tick lists the running containers    *)
(* and processes those that are due one after the other, each by a probe   *)
(* of the registry (probe.rs) and, if that finds an update, a plain update *)
(* or the rollout of its compose project.  How an update proceeds is the   *)
(* subject of RecreateCycle and Rollout; here it is one step with the      *)
(* outcomes they have.                                                     *)
(*                                                                         *)
(* All containers run from one image tag, so that one update moves the tag *)
(* under the others.  An image is named by the digest it was pulled as.    *)
(* Time passes between ticks; a tick that runs long is a long pause.       *)
(***************************************************************************)
EXTENDS Naturals

CONSTANTS
  Containers,    \* the enabled containers
  Cron, Watch,   \* those first in a calendar mode, in watch mode; the others are live
  Project,       \* those forming one compose project
  Jobs,          \* the project's one-shots: exited, hence never listed
  MayLeave,      \* containers that may stop running, by a failed restart too, and come back
  MayRelabel,    \* those recreated from live to a calendar mode and back
  MayDefer,      \* containers with a pre-update hook
  Digests,       \* what upstream may publish
  First,         \* what it has published when the daemon starts
  Bad,           \* the digests whose containers fail their health gate
  PollInterval,  \* of live and watch containers, in units of time
  Day,           \* the time from one cron window to the next
  CanFail,       \* may daemon and registry calls fail?
  Races,         \* may upstream publish between a probe and its pull?
  MayShutDown,
  None

All == Containers \cup Jobs

ASSUME SchedulerAssumption ==
  /\ Cron \cap Watch = {}
  /\ Cron \cup Watch \cup Project \cup MayLeave \cup MayRelabel \cup MayDefer \subseteq Containers
  /\ MayRelabel \cap Watch = {}
  /\ Jobs \cap Containers = {}
  /\ First \in Digests \ Bad
  /\ None \notin Digests \cup All
  /\ {PollInterval, Day} \subseteq Nat \ {0}
  /\ {CanFail, Races, MayShutDown} \subseteq BOOLEAN

VARIABLES
  upstream,   \* the digest the registry serves for the tag
  running,    \* the containers that run
  calendar,   \* those whose labels now name a calendar mode
  hour,       \* time within the day: the cron window is at 0
  ticked,     \* has the tick of this unit of time been?
  shutdown,
  tag,        \* the digest of the image the tag resolves to locally
  image,      \* container -> the digest of the image it runs
  pc,         \* "idle", "tick", "probe", "apply" or "stopped"
  todo,       \* the listed containers not visited yet
  cur, latest,    \* the container in process, the digest its probe fetched
  handled, live,  \* this tick's sets
  states,     \* the containers that have a ContainerState:
  age,        \*   the time since last_checked, up to the poll interval
  crons,      \*   those whose state holds a cron expression
  window,     \*   has next_fire come?
  notified,   \*   last_notified_digest
  failed,     \* container -> the digest that failed its health gate
  \* history:
  listed,     \* this tick's listing
  rejections, \* how often the digest upstream serves was rejected for it
  told,       \* how often that digest was announced for it
  updates,    \* how often an update of it to that digest was begun in this tick
  tail        \* the updates begun since the shutdown

world == <<upstream, running, calendar, hour, ticked, shutdown>>
docker == <<tag, image>>
tick == <<todo, cur, latest, handled, live>>
memory == <<states, crons, age, window, notified, failed>>
history == <<listed, rejections, told, updates, tail>>
vars == <<world, docker, pc, tick, memory, history>>

TypeOK ==
  /\ {upstream, tag} \subseteq Digests
  /\ image \in [All -> Digests]
  /\ running \subseteq Containers /\ calendar \subseteq Containers \ Watch
  /\ hour \in 0 .. Day - 1
  /\ {ticked, shutdown} \subseteq BOOLEAN
  /\ pc \in {"idle", "tick", "probe", "apply", "stopped"}
  /\ cur \in Containers \cup {None} /\ latest \in Digests \cup {None}
  /\ todo \subseteq listed /\ listed \subseteq Containers
  /\ handled \subseteq All
  /\ live \subseteq Containers /\ states \subseteq Containers /\ crons \subseteq states
  /\ age \in [Containers -> 0 .. PollInterval]
  /\ window \in [Containers -> BOOLEAN]
  /\ notified \in [Containers -> Digests \cup {None}]
  /\ failed \in [All -> Digests \cup {None}]
  \* What is local to run_tick, and to process_container, does not outlive it.
  /\ pc \in {"idle", "stopped"} => todo = {} /\ handled = {} /\ live = {}
  /\ (cur # None) <=> pc \in {"probe", "apply"}

Init ==
  /\ upstream = First /\ running = Containers /\ calendar = Cron
  /\ hour = 0 /\ ticked = FALSE /\ shutdown = FALSE
  /\ tag = First /\ image = [c \in All |-> First]
  /\ pc = "idle"
  /\ todo = {} /\ cur = None /\ latest = None /\ handled = {} /\ live = {}
  /\ states = {} /\ crons = {}
  /\ age = [c \in Containers |-> PollInterval]
  /\ window = [c \in Containers |-> FALSE]
  /\ notified = [c \in Containers |-> None]
  /\ failed = [c \in All |-> None]
  /\ listed = {}
  /\ rejections = [c \in All |-> 0]
  /\ told = [c \in Containers |-> 0]
  /\ updates = [c \in All |-> 0]
  /\ tail = 0

Capped(n, bound) == IF n < bound THEN n ELSE bound
Count(f, S) == [c \in DOMAIN f |-> IF c \in S THEN Capped(f[c] + 1, 2) ELSE f[c]]
Cleared(f, S, zero) == [c \in DOMAIN f |-> IF c \in S THEN zero ELSE f[c]]

-----------------------------------------------------------------------------
(* The world around the daemon.                                            *)

Publish ==
  /\ pc = "apply" => Races
  /\ upstream' \in Digests \ {upstream}
  /\ rejections' = [c \in All |-> 0]
  /\ told' = [c \in Containers |-> 0]
  /\ updates' = [c \in All |-> 0]
  /\ UNCHANGED <<running, calendar, hour, ticked, shutdown, docker, pc, tick, memory, listed, tail>>

LeaveOrReturn(c) ==
  /\ c \in MayLeave
  /\ running' = IF c \in running THEN running \ {c} ELSE running \cup {c}
  /\ UNCHANGED <<upstream, calendar, hour, ticked, shutdown, docker, pc, tick, memory, history>>

\* Someone recreates the container with other labels, from the tag, between two ticks.
Relabel(c) ==
  /\ c \in MayRelabel /\ pc = "idle"
  /\ calendar' = IF c \in calendar THEN calendar \ {c} ELSE calendar \cup {c}
  /\ image' = [image EXCEPT ![c] = tag]
  /\ UNCHANGED <<upstream, running, hour, ticked, shutdown, tag, pc, tick, memory, history>>

ShutDown ==
  /\ MayShutDown /\ ~shutdown
  /\ shutdown' = TRUE
  /\ UNCHANGED <<upstream, running, calendar, hour, ticked, docker, pc, tick, memory, history>>

\* A schedule counts from the container's first sight: there is no backfill.
Pass ==
  /\ pc = "idle" /\ ticked
  /\ ticked' = FALSE
  /\ hour' = (hour + 1) % Day
  /\ age' = [c \in Containers |-> Capped(age[c] + 1, PollInterval)]
  /\ window' = [c \in Containers |->
                  window[c] \/ (hour' = 0 /\ c \in crons)]
  /\ UNCHANGED <<upstream, running, calendar, shutdown, docker, pc, tick, states, crons, notified, failed,
                 listed, rejections, told, updates, tail>>

-----------------------------------------------------------------------------
(* run_with and run_tick.                                                  *)

\* Mutant: a due tick takes precedence over the shutdown.
StartTickAnyway ==
  /\ pc = "idle" /\ ~ticked
  /\ ticked' = TRUE
  /\ pc' = "tick" /\ todo' = running /\ listed' = running
  /\ updates' = [c \in All |-> 0]
  /\ UNCHANGED <<upstream, running, calendar, hour, shutdown, docker, cur, latest, handled, live,
                 memory, rejections, told, tail>>

\* A failed listing ends the tick, and forgets nothing.
StartTick ==
  /\ pc = "idle" /\ ~ticked /\ ~shutdown
  /\ ticked' = TRUE
  /\ \/ pc' = "tick" /\ todo' = running /\ listed' = running
     \/ CanFail /\ UNCHANGED <<pc, todo, listed>>
  /\ updates' = [c \in All |-> 0]
  /\ UNCHANGED <<upstream, running, calendar, hour, shutdown, docker, cur, latest, handled, live,
                 memory, rejections, told, tail>>

Stop ==
  /\ pc = "idle" /\ shutdown
  /\ pc' = "stopped"
  /\ UNCHANGED <<world, docker, tick, memory, history>>

\* Mutant: the set of what rollouts have covered outlives the tick.
DeclineKeepingHandled ==
  /\ pc = "tick" /\ todo # {} /\ shutdown
  /\ pc' = "idle"
  /\ todo' = {} /\ live' = {}
  /\ UNCHANGED <<world, docker, cur, latest, handled, memory, history>>

\* Return without pruning: unvisited containers keep their schedule state.
Decline ==
  /\ pc = "tick" /\ todo # {} /\ shutdown
  /\ pc' = "idle"
  /\ todo' = {} /\ handled' = {} /\ live' = {}
  /\ UNCHANGED <<world, docker, cur, latest, memory, history>>

\* Mutant: what a rollout has covered is visited again.
CoveredNever(c) == FALSE

Covered(c) == c \in handled

Due(c) == IF c \in calendar THEN window[c] ELSE age[c] >= PollInterval

\* Mutant: a container is live only once it has been due.
NoteDue(c) ==
  /\ todo' = todo \ {c}
  /\ live' = IF Covered(c) \/ Due(c) THEN live \cup {c} ELSE live
  /\ states' = IF Covered(c) THEN states ELSE states \cup {c}
  /\ crons' = IF Covered(c) THEN crons ELSE crons \cup (({c} \cap calendar) \ states)

Note(c) ==
  /\ todo' = todo \ {c}
  /\ live' = live \cup {c}
  /\ states' = IF Covered(c) THEN states ELSE states \cup {c}
  /\ crons' = IF Covered(c) THEN crons ELSE crons \cup (({c} \cap calendar) \ states)

PassOver(c) ==
  /\ pc = "tick" /\ c \in todo /\ ~shutdown
  /\ Covered(c) \/ ~Due(c)
  /\ Note(c)
  /\ UNCHANGED <<world, docker, pc, cur, latest, handled, age, window, notified, failed, history>>

Checked(c) ==
  IF c \in calendar
    THEN window' = [window EXCEPT ![c] = FALSE] /\ UNCHANGED age
    ELSE age' = [age EXCEPT ![c] = 0] /\ UNCHANGED window

\* Mutant: the bookkeeping comes before the inspect.
ResolveLate(c) ==
  /\ Checked(c)
  /\ \/ pc' = "probe" /\ cur' = c
     \/ CanFail /\ UNCHANGED <<pc, cur>>

\* The target is resolved ahead of the bookkeeping: a failed inspect costs a poll
\* interval, but not a cron window.
Resolve(c) ==
  \/ Checked(c) /\ pc' = "probe" /\ cur' = c
  \/ CanFail /\ c \notin calendar /\ Checked(c) /\ UNCHANGED <<pc, cur>>
  \/ CanFail /\ c \in calendar /\ UNCHANGED <<age, window, pc, cur>>

\* Mutant: the shutdown is not looked at within a tick.
VisitOn(c) ==
  /\ pc = "tick" /\ c \in todo
  /\ ~Covered(c) /\ Due(c)
  /\ Note(c)
  /\ Resolve(c)
  /\ UNCHANGED <<world, docker, latest, handled, notified, failed, history>>

Visit(c) ==
  /\ pc = "tick" /\ c \in todo /\ ~shutdown
  /\ ~Covered(c) /\ Due(c)
  /\ Note(c)
  /\ Resolve(c)
  /\ UNCHANGED <<world, docker, latest, handled, notified, failed, history>>

\* All maps retain the live names only.
EndTick ==
  LET gone == Containers \ live
      unlisted == All \ listed
  IN /\ pc = "tick" /\ todo = {}
     /\ pc' = "idle"
     /\ states' = states \cap live /\ crons' = crons \cap live
     /\ age' = Cleared(age, gone, PollInterval)
     /\ window' = Cleared(window, gone, FALSE)
     /\ notified' = Cleared(notified, gone, None)
     /\ failed' = Cleared(failed, gone \cup Jobs, None)
     /\ rejections' = Cleared(rejections, unlisted, 0)
     /\ told' = Cleared(told, unlisted, 0)
     /\ handled' = {} /\ live' = {}
     /\ UNCHANGED <<world, docker, todo, cur, latest, listed, updates, tail>>

-----------------------------------------------------------------------------
(* process_container.                                                      *)

\* Mutant: a container behind its own tag is up to date.
AvailableByTag == tag # upstream

\* Upstream is not what the tag has locally, or the container is behind the tag.
Available == tag # upstream \/ image[cur] # tag

Processed == pc' = "tick" /\ cur' = None /\ UNCHANGED <<todo, live>>

\* Nothing to do: the probe failed, or found nothing, or a digest that has failed.
ProbeInVain ==
  /\ pc = "probe"
  /\ \/ CanFail
     \/ ~Available
     \/ cur \notin Watch /\ failed[cur] = upstream
     \/ cur \in Watch /\ notified[cur] = upstream
  /\ Processed
  /\ UNCHANGED <<world, docker, latest, handled, memory, history>>

Announce ==
  /\ pc = "probe"
  /\ Available /\ cur \in Watch /\ notified[cur] # upstream
  /\ notified' = [notified EXCEPT ![cur] = upstream]
  /\ told' = Count(told, {cur})
  /\ Processed
  /\ UNCHANGED <<world, docker, latest, handled, states, crons, age, window, failed,
                 listed, rejections, updates, tail>>

Proceed ==
  /\ pc = "probe"
  /\ Available /\ cur \notin Watch /\ failed[cur] # upstream
  /\ pc' = "apply"
  /\ latest' = upstream
  /\ UNCHANGED <<world, docker, todo, cur, handled, live, memory, history>>

-----------------------------------------------------------------------------
(* apply_update.  The digest applied is the one upstream serves at the pull *)

\* rollout::plan, of a project whose members all run from the tag; the members
\* that are current are left out once the tag carries the digest probed.
Targets ==
  Jobs \cup {m \in Project \cap running : m \notin Watch /\ ~(tag = latest /\ image[m] = tag)}

\* Mutant: only the trigger is remembered to have failed.
RejectTrigger(targets) == failed' = [failed EXCEPT ![cur] = latest]

Reject(targets) == failed' = Cleared(failed, targets, latest)
Land(targets) == failed' = Cleared(failed, targets, None)

\* What `tried` containers went through, of which `done` ended on the new image
\* and `bad` were rejected.
Applied(tried, done, bad) ==
  /\ image' = Cleared(image, done, upstream)
  /\ tag' \in IF done = {} /\ bad = {} /\ CanFail THEN {tag, upstream} ELSE {upstream}
  /\ rejections' = Count(rejections, bad)
  /\ updates' = Count(updates, tried)
  /\ tail' = IF shutdown THEN Capped(tail + 1, 2) ELSE tail
  /\ latest' = None
  /\ Processed
  /\ UNCHANGED <<upstream, calendar, hour, ticked, shutdown, states, crons, age, window, notified, listed, told>>

\* Once all `targets` have landed, dependents with a restart edge are restarted, and
\* covered with them; one that fails to start again is not, and has left.  Which of the
\* `dependents` have such an edge is left open.
Restarted(targets, dependents) ==
  \E again \in SUBSET dependents : \E down \in SUBSET (dependents \cap MayLeave) :
    /\ again \cap down = {} /\ down # {} => CanFail
    /\ running' = (running \cup (targets \ Jobs)) \ down
    /\ handled' = handled \cup targets \cup again

\* Those that a rollout may restart: unless they are only watched, or have left.
Dependents == (Project \cap running) \ Watch

\* The container on its own: it runs afterwards, also if it had been stopped since
\* the listing, unless a step failed.  A start whose answer is lost counts as failed,
\* and has taken place.
Alone ==
  /\ pc = "apply"
  /\ cur \notin Project \cap running \/ Targets = {cur}
  /\ \/ upstream \notin Bad /\ Applied({cur}, {cur}, {}) /\ Land({cur})
        /\ Restarted({cur}, IF cur \in Project \cap running THEN Dependents ELSE {})
     \/ /\ handled' = handled \cup {cur}
        /\ \/ upstream \in Bad /\ Applied({cur}, {}, {cur}) /\ Reject({cur})
              /\ running' = running \cup {cur}
           \/ cur \in MayDefer /\ Applied({cur}, {}, {}) /\ UNCHANGED <<failed, running>>
           \/ CanFail /\ Applied({cur}, {}, {}) /\ UNCHANGED failed
              /\ running' \in {running, running \ {cur}}
           \/ CanFail /\ Applied({cur}, {cur}, {}) /\ UNCHANGED failed
              /\ running' = running \cup {cur}

\* The project: the one-shots, then the others, up to the first that fails (m).
\* An abort that did not reject the image leaves no memory.
Rollout ==
  /\ pc = "apply"
  /\ cur \in Project \cap running /\ Targets # {cur}
  /\ \/ /\ upstream \notin Bad
        /\ Applied(Targets, Targets, {}) /\ Land(Targets) /\ Restarted(Targets, Dependents)
     \/ \E done \in SUBSET Targets : \E m \in Targets \ done :
          /\ handled' = handled \cup Targets
          /\ m \in Jobs => done \subseteq Jobs
          /\ m \notin Jobs => Jobs \subseteq done
          /\ upstream \in Bad => done \subseteq Jobs
          /\ \/ upstream \in Bad /\ Applied(done \cup {m}, done, {m}) /\ Reject(Targets)
                /\ UNCHANGED running
             \/ m \in MayDefer /\ Applied(done \cup {m}, done, {}) /\ UNCHANGED <<failed, running>>
             \/ CanFail /\ Applied(done \cup {m}, done, {}) /\ UNCHANGED failed
                /\ running' \in {running, running \ {m}}
             \/ CanFail /\ Applied(done \cup {m}, done \cup {m}, {}) /\ UNCHANGED <<failed, running>>

\* The project could not be read: nothing was updated.
RolloutUnread ==
  /\ pc = "apply" /\ CanFail
  /\ cur \in Project
  /\ handled' = handled \cup {cur}
  /\ latest' = None
  /\ Processed
  /\ UNCHANGED <<world, docker, memory, history>>

Daemon ==
  \/ StartTick \/ Stop \/ Decline \/ EndTick
  \/ \E c \in Containers : PassOver(c) \/ Visit(c)
  \/ ProbeInVain \/ Announce \/ Proceed
  \/ Alone \/ Rollout \/ RolloutUnread

Next == Daemon \/ Pass \/ Publish \/ ShutDown \/ \E c \in Containers : LeaveOrReturn(c) \/ Relabel(c)

Spec == Init /\ [][Next]_vars

\* The loop runs, time passes, and a visit is not put off for ever.
FairSpec == Spec /\ WF_vars(Daemon) /\ WF_vars(Pass)

-----------------------------------------------------------------------------
(* What the daemon promises.                                               *)

\* A digest that failed a container's health gate is not tried on it again while
\* upstream serves it and the container stays in the listing: not at its next
\* poll, and not through the rollout that another member of its project triggers.
RejectedOnce == \A c \in All : rejections[c] <= 1

\* A watched update is announced once per digest, however often it is polled.
AnnouncedOnce == \A c \in Containers : told[c] <= 1

\* No container is updated twice in a tick, whoever triggered the first time, unless
\* upstream has published in between.
OncePerTick == \A c \in All : updates[c] <= 1

\* Nothing is done twice: no failed digest tried again, no image announced again, no
\* container updated again, whichever of its project's members asks for it.
NothingTwice == RejectedOnce /\ AnnouncedOnce /\ OncePerTick

\* Once the shutdown is signalled at most the update in flight is carried out.
LastUpdate == tail <= 1

\* The bookkeeping is sound through ticks, deferrals and the shutdown.
LoopInv == TypeOK /\ RejectedOnce /\ LastUpdate

\* A cron window is used up only by probing its container, or lost with the
\* container's leaving the listing; neither a failed inspect nor another member's
\* rollout costs it.
WindowKept ==
  [][\A c \in Containers : window[c] /\ ~window'[c] =>
       (pc' = "probe" /\ cur' = c) \/ c \notin listed]_vars

\* Once upstream stays at a good digest every container in an updating mode gets
\* to run it, the one whose tag an earlier update of another has moved included.
EventuallyCurrent ==
  \A d \in Digests \ Bad :
    <>[](upstream = d /\ ~shutdown) => <>[](\A c \in Containers : c \notin Watch => image[c] = d)

\* A shutdown is followed by the end of the loop.
Stops == shutdown ~> pc = "stopped"
=============================================================================
