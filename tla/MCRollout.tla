------------------------------ MODULE MCRollout -----------------------------
(***************************************************************************)
(* What a rollout promises, in terms of the whole project.                 *)
(***************************************************************************)
EXTENDS Rollout

\* Neither on a cycle of the services planned, whose dependencies among themselves alone
\* order them, nor behind one: not of any that all wait for one another.
Acyclic(s) ==
  ~\E circle \in SUBSET {c[1] : c \in plan} :
     s \in circle /\ \A t \in circle : DependsOn(depends, t) \cap circle # {}

\* No update of a container is begun before every target it directly depends on has
\* landed, whatever its name and whichever of them have replicas; so a failing one
\* leaves those that depend on it untouched.
DependenciesFirst ==
  \A c \in tried, d \in plan :
    d[1] \in DependsOn(depends, c[1]) /\ d \notin landed => ~Acyclic(c[1])

\* The execution is sound and in order.
OrderInv == TypeOK /\ DependenciesFirst

\* New code never runs ahead of its migration: before a container is updated, every
\* one-shot it waits for that shares the moved image has been run anew, labelled or
\* not, current or not; exempt are those that said no or are in the middle of a run.
SchemaFirst ==
  \A c \in tried, m \in Members :
    /\ \E d \in Graph[c[1]] : d.service = m[1] /\ d.condition = "completed"
    /\ ref[m] = ref[trigger] \/ (id[m] = id[trigger] /\ ref[m] # "digest")
    /\ label[m] \in {"enabled", "unlabelled"} /\ m \notin ran \cup landed
    => ~Acyclic(c[1])

\* What opted out, only watches or is no member is neither updated nor restarted,
\* whichever dependency would ask for it, and a service found stopped is not started.
LeftAlone ==
  \A c \in tried \cup bumped :
    /\ label[c] \in {"enabled", "unlabelled"}
    /\ c \in ran \/ OneShot(c)

\* Restarted are those, and only those, that depend with restart on a service that
\* was updated and were not updated with it, and none before every target has landed.
BumpedExactly ==
  LET asked == {c \in ran : /\ label[c] \in {"enabled", "unlabelled"}
                            /\ c \notin landed
                            /\ \E d \in depends[c[1]], l \in landed :
                                 d.restart /\ d.service = l[1]}
      updatedWith == {c \in ran : \E l \in landed : c[1] = l[1]}
  IN /\ bumped # {} => plan \subseteq landed
     /\ bumped \subseteq asked \ updatedWith
     /\ pc = "done" /\ aborted = "none" /\ ~CanFail /\ tried # {}
          => bumped = asked \ updatedWith

\* The report accounts for the whole plan, cycles included, and for every container
\* that is not as it was: the caller learns of each one that it must not process again,
\* but for one whose restart failed.  What it makes of the report is so: a container
\* counts as updated only if it is, as not updated only if it serves as before, so that
\* none but the one that counts as failed may be down; and a failed digest is forgotten
\* only for containers that have left their image.
Accounted ==
  pc = "done" =>
    /\ landed \cap notCompleted = {}
    /\ tried # {} => ImageTargets = plan
    /\ \A c \in Containers \ (stopped \cup started) :
         /\ c \notin Claimed \cup (bumped \ restarted)
              => (running[c] <=> c \in ran) /\ serving[c] = "previous"
         /\ c \in ImageTargets \ jobs =>
              CASE RolloutVerdicts[c] = "updated" -> running[c] /\ serving[c] = "replacement"
                [] RolloutVerdicts[c] = "not updated" -> (running[c] <=> c \in ran) /\ serving[c] = "previous"
                [] OTHER -> c \notin landed
    /\ Remembered = "landed" =>
         ImageTargets # {} /\ \A c \in ImageTargets : serving[c] = "replacement"
=============================================================================
