------------------------------- MODULE Rollout ------------------------------
(***************************************************************************)
(* One compose project rollout (rollout.rs): the project is listed and a   *)
(* plan made for the container that triggered it, the targets are updated  *)
(* one after the other up to the first that fails, and then the dependents *)
(* that asked for it are restarted.  How one target is updated is the      *)
(* subject of RecreateCycle; here it is one step with its outcomes.        *)
(*                                                                         *)
(* A container is <<service, replica>>; the replicas of a service carry    *)
(* the same depends_on label.                                              *)
(***************************************************************************)
EXTENDS Compose, Graphs

CONSTANTS
  Scaled,      \* the services with two containers
  Conditions, Restarts,   \* what the dependencies of the project may be
  Cycles,      \* may they form a cycle, which Compose refuses?
  Labels,      \* what the containers' labels may be
  Refs, Ids,   \* what their image references (an alias is a tag the trigger does not
               \*   have) and image ids may be
  CanFail,     \* may daemon calls fail?
  Disturbances,   \* how many containers someone else may stop or start meanwhile
  None

Containers == (Services \X {1}) \cup (Scaled \X {2})

ASSUME RolloutAssumption ==
  /\ Scaled \subseteq Services
  /\ Conditions \subseteq Condition /\ Restarts \subseteq BOOLEAN
  /\ Labels \subseteq {"enabled", "unlabelled", "watch", "barred", "leftover"}
  /\ Refs \subseteq {"tag", "alias", "digest"}
  /\ Ids \subseteq {"previous", "current"}
  /\ {Cycles, CanFail} \subseteq BOOLEAN
  /\ Disturbances \in Nat
  /\ None \notin Containers

VARIABLES
  depends,   \* service -> its dependencies
  label,     \* container -> "enabled", "unlabelled", "watch", "barred" (opted out,
             \*   unreadable labels, or freshdock itself) or "leftover" (an archive
             \*   or a `compose run` one-off)
  ref, id,   \* container -> its image reference, and the image it runs
  ran,       \* the containers the listing found running
  trigger,   \* the container whose update this is
  tagged,    \* tag_image_id: "current", or None for an update by hand
  running,   \* container -> does it run?
  serving,   \* container -> is it the previous one, or its replacement?
  pc,        \* "plan", "execute", "restart", "done" or "plain"
  plan,      \* the plan's targets,
  order,     \*   the topological order of their services,
  jobs,      \*   those that are one-shots,
  targets,   \*   and those still to update
  bumps,     \* the containers still to restart
  updated,   \* updated_services
  \* the report:
  landed, restarted,      \* its steps
  aborted,                \* its AbortReason, "none" without one
  notCompleted,
  \* history:
  tried,     \* the targets an update was begun of
  bumped,    \* the containers stopped for their restart
  stopped, started    \* containers stopped, and one-shots started, by someone else

project == <<depends, label, ref, id, ran, trigger, tagged>>
containers == <<running, serving>>
report == <<landed, restarted, aborted, notCompleted>>
history == <<tried, bumped, stopped, started>>
planned == <<plan, order, jobs>>
vars == <<project, containers, pc, planned, targets, bumps, updated, report, history>>

Aborts == {"none", "failed", "timedout", "rolledback", "deferred", "error"}

TypeOK ==
  /\ depends \in [Services -> SUBSET Dependency]
  /\ pc \in {"plan", "execute", "restart", "done", "plain"}
  /\ running \in [Containers -> BOOLEAN]
  /\ serving \in [Containers -> {"previous", "replacement"}]
  /\ updated \subseteq Services
  /\ jobs \subseteq plan
  /\ {plan, targets, bumps, landed, restarted, notCompleted, tried, bumped} \subseteq SUBSET Containers
  /\ aborted \in Aborts
  /\ targets # {} => pc = "execute" \/ aborted # "none"
  /\ bumps # {} => pc = "restart"

DeclarableOn(s) == [service : {s}, condition : Conditions, restart : Restarts]

Dependencies == [node |-> Services,
                 edge |-> {e \in Services \X Services : e[2] \in DependsOn(depends, e[1])}]

Composed == \A s \in Services : s \notin Descendants(Dependencies, s)

Init ==
  /\ depends \in [Services -> {D \in SUBSET (UNION {DeclarableOn(s) : s \in Services}) :
                                 \A d, e \in D : d.service = e.service => d = e}]
  /\ \A s \in Services : s \notin DependsOn(depends, s)
  /\ ~Cycles => Composed
  /\ label \in [Containers -> Labels]
  /\ ref \in [Containers -> Refs] /\ id \in [Containers -> Ids]
  \* Replicas are made from one definition; the second may be a leftover of the first.
  /\ \A s \in Services : label[<<s, 1>>] # "leftover"
  /\ \A s \in Scaled : /\ ref[<<s, 1>>] = ref[<<s, 2>>]
                        /\ label[<<s, 2>>] \in {label[<<s, 1>>], "leftover"}
  /\ trigger \in {c \in Containers : label[c] \in {"enabled", "watch"}}
  /\ ref[trigger] # "alias"
  /\ tagged \in {"current", None}
  /\ ran \in SUBSET Containers
  /\ running = [c \in Containers |-> c \in ran]
  /\ serving = [c \in Containers |-> "previous"]
  /\ pc = "plan"
  /\ plan = {} /\ order = <<>> /\ jobs = {} /\ targets = {} /\ bumps = {} /\ updated = {}
  /\ landed = {} /\ restarted = {} /\ aborted = "none" /\ notCompleted = {}
  /\ tried = {} /\ bumped = {} /\ stopped = {} /\ started = {}

-----------------------------------------------------------------------------
(* plan.                                                                   *)

Members == {c \in Containers : label[c] # "leftover"}
Graph == [s \in {c[1] : c \in Members} |-> depends[s]]
OneShot(c) == c[1] \in AwaitedForCompletion(Graph)

\* By reference, or by image id unless the reference is a digest.
SameImage(c) == ref[c] = ref[trigger] \/ (ref[c] # "digest" /\ id[c] = id[trigger])

\* Enabled, or unlabelled and awaited: the narrow bypass.
OptedIn(c) == label[c] = "enabled" \/ (label[c] = "unlabelled" /\ OneShot(c))

\* Mutant: a one-shot already on the current image is skipped, too.
CurrentAll(c) == tagged # None /\ id[c] = tagged

Current(c) == ~OneShot(c) /\ tagged # None /\ id[c] = tagged

Eligible(c) == c \in Members /\ SameImage(c) /\ OptedIn(c) /\ ~Current(c)
InFlight(c) == Eligible(c) /\ OneShot(c) /\ c \in ran

\* A one-shot must have exited, anything else must run.
Planned == {c \in Containers : Eligible(c) /\ (OneShot(c) <=> c \notin ran)}

\* restart_candidates: whatever the image, and also without a label.
Bumpable(c) == c \in Members /\ c \in ran /\ label[c] \in {"enabled", "unlabelled"}

\* Mutant: a bump goes by the dependency alone.
RestartsForAll(services) == {c \in Containers : c[1] \in RestartDependents(Graph, services)}

RestartsFor(services) ==
  {c \in Containers : Bumpable(c) /\ c[1] \in RestartDependents(Graph, services)}

\* The services in topological order, their replicas in name order.
Before(c, d) ==
  \/ order[c[1]] < order[d[1]]
  \/ order[c[1]] = order[d[1]] /\ (c[1] < d[1] \/ (c[1] = d[1] /\ c[2] < d[2]))

Foremost(c) == c \in targets /\ \A d \in targets \ {c} : Before(c, d)

-----------------------------------------------------------------------------
(* for_container.                                                          *)

\* The plain update instead: the plan does not cover the trigger (unless that is a
\* one-shot in flight), or nothing but it.
Plain ==
  \/ trigger \notin Planned /\ ~InFlight(trigger)
  \/ Planned = {trigger} /\ RestartsFor({trigger[1]}) = {}

Plan ==
  /\ pc = "plan"
  /\ \/ Plain /\ pc' = "plain" /\ UNCHANGED <<planned, targets, notCompleted>>
     \/ /\ InFlight(trigger)
        /\ pc' = "done" /\ notCompleted' = {trigger} /\ UNCHANGED <<planned, targets>>
     \/ /\ trigger \in Planned /\ ~Plain
        /\ pc' = "execute"
        /\ plan' = Planned /\ jobs' = {c \in Planned : OneShot(c)}
        /\ order' = TopologicalOrder({c[1] : c \in Planned}, Graph)
        /\ targets' = {c \in Planned : c[1] \in DOMAIN order'}
        /\ UNCHANGED notCompleted
  /\ UNCHANGED <<project, containers, bumps, updated, landed, restarted, aborted, history>>

\* An unreadable project aborts.
PlanFails ==
  /\ pc = "plan" /\ CanFail
  /\ pc' = "done"
  /\ aborted' = "error" /\ notCompleted' = {trigger}
  /\ UNCHANGED <<project, containers, planned, targets, bumps, updated, landed, restarted, history>>

-----------------------------------------------------------------------------
(* execute.                                                                *)

Step(c) ==
  /\ pc = "execute" /\ Foremost(c)
  /\ tried' = tried \cup {c}
  /\ UNCHANGED <<project, planned, bumps, restarted, bumped, stopped, started>>

\* The one-shot has exited with code 0; the service is healthy.
Complete(c) ==
  /\ Step(c)
  /\ running' = [running EXCEPT ![c] = (c \notin jobs)]
  /\ serving' = [serving EXCEPT ![c] = "replacement"]
  /\ landed' = landed \cup {c}
  /\ updated' = updated \cup {c[1]}
  /\ targets' = targets \ {c}
  /\ UNCHANGED <<pc, aborted, notCompleted>>

\* The first step that fails ends the rollout.
Abort(c, reason, run, serves) ==
  /\ Step(c)
  /\ running' = [running EXCEPT ![c] = run]
  /\ serving' = [serving EXCEPT ![c] = serves]
  /\ pc' = "done"
  /\ aborted' = reason
  /\ notCompleted' = plan \ landed
  /\ UNCHANGED <<targets, updated, landed>>

\* A failed one-shot is kept as it is; a service is rolled back, or deferred by its
\* hook; a failing daemon call leaves it untouched, or down, and a start whose answer
\* is lost leaves the replacement running.
Fail(c) ==
  \/ c \in jobs /\ Abort(c, "failed", FALSE, "replacement")
  \/ c \in jobs /\ Abort(c, "timedout", TRUE, "replacement")
  \/ c \notin jobs /\ Abort(c, "rolledback", TRUE, "previous")
  \/ c \notin jobs /\ Abort(c, "deferred", running[c], "previous")
  \/ CanFail /\ Abort(c, "error", running[c], "previous")
  \/ CanFail /\ \E serves \in {"previous", "replacement"} : Abort(c, "error", FALSE, serves)
  \/ CanFail /\ Abort(c, "error", TRUE, "replacement")

\* Mutant: dependents are restarted as soon as a target has landed.
AllLandedEarly ==
  /\ pc = "execute" /\ landed # {}
  /\ pc' = "restart"
  /\ bumps' = RestartsFor(updated)
  /\ UNCHANGED <<project, containers, planned, targets, updated, report, history>>

\* Only for services that actually changed.
AllLanded ==
  /\ pc = "execute" /\ targets = {}
  /\ pc' = "restart"
  /\ bumps' = RestartsFor(updated)
  /\ UNCHANGED <<project, containers, planned, targets, updated, report, history>>

\* One after the other, by name; the order is left open.  A failing stop leaves the
\* container as it is, a failing start, or a stop whose answer is lost, leaves it stopped,
\* a start whose answer is lost leaves it running, and all of them are only logged.
Restart(c) ==
  /\ pc = "restart" /\ c \in bumps
  /\ bumps' = bumps \ {c}
  /\ \/ /\ running' = [running EXCEPT ![c] = TRUE]
        /\ restarted' = restarted \cup {c} /\ bumped' = bumped \cup {c}
     \/ /\ CanFail
        /\ \E run \in BOOLEAN : running' = [running EXCEPT ![c] = run]
        /\ bumped' = bumped \cup {c} /\ UNCHANGED restarted
     \/ CanFail /\ UNCHANGED <<running, restarted, bumped>>
  /\ UNCHANGED <<project, serving, pc, planned, targets, updated, landed, aborted, notCompleted,
                 tried, stopped, started>>

Finish ==
  /\ pc = "restart" /\ bumps = {}
  /\ pc' = "done"
  /\ UNCHANGED <<project, containers, planned, targets, bumps, updated, report, history>>

-----------------------------------------------------------------------------
(* What the scheduler makes of the report.                                 *)

Touched == landed \cup restarted
ImageTargets == landed \cup notCompleted

\* Mutant: the targets never reached are left to the rest of the tick.
ClaimedTouched == Touched

\* Not to be processed again in this tick.
Claimed == Touched \cup notCompleted

\* The container of a StepFailed.
FailedAt ==
  IF aborted # "error" THEN None
  ELSE IF targets = {} THEN trigger ELSE CHOOSE c \in targets : Foremost(c)

\* rollout_verdicts: how each container counts in the tick's summary.
RolloutVerdicts ==
  [c \in ImageTargets |->
     IF c \in landed THEN "updated" ELSE IF c = FailedAt THEN "failed" ELSE "not updated"]

\* The UpdateOutcome for the image targets: of one that is rejected the digest is
\* remembered, by one that landed it is forgotten.
Remembered ==
  IF aborted \in {"rolledback", "failed", "timedout"} THEN "rejected"
  ELSE IF aborted # "none" \/ Touched = {} THEN "none" ELSE "landed"

-----------------------------------------------------------------------------
(* Someone else, at most once per container.                               *)

Disturb(c) ==
  /\ pc \in {"execute", "restart"}
  /\ c \notin stopped \cup started /\ Cardinality(stopped \cup started) < Disturbances
  /\ running' = [running EXCEPT ![c] = ~running[c]]
  /\ IF running[c]
       THEN stopped' = stopped \cup {c} /\ UNCHANGED started
       ELSE OneShot(c) /\ started' = started \cup {c} /\ UNCHANGED stopped
  /\ UNCHANGED <<project, serving, pc, planned, targets, bumps, updated, report, tried, bumped>>

Next ==
  \/ Plan \/ PlanFails \/ AllLanded \/ Finish
  \/ \E c \in Containers : Complete(c) \/ Fail(c) \/ Restart(c) \/ Disturb(c)

Spec == Init /\ [][Next]_vars
=============================================================================
