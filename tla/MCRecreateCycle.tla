-------------------------- MODULE MCRecreateCycle ---------------------------
(***************************************************************************)
(* The recreate cycle for TLC, and what the documents of the repository    *)
(* say of it that the code does not do.                                    *)
(***************************************************************************)
EXTENDS RecreateCycle

\* README.md:32: "If the new image fails to come up, the previous container is
\* restored".  Here: an update that reports an error after its replacement was
\* created leaves the previous container serving.
FailedStartRestored ==
  \A r \in Runs :
    run[r].outcome = "error" /\ run[r].verdict = "none" /\ New(r) \in exists
      => run[r].before \in Serving(Owner)

(* The abstraction of a service's update.                                  *)

OwnersRunning == {c[1] : c \in {d \in exists : d[2] = Owner /\ up[d]}}
OwnersKept == {c[1] : c \in {d \in good \cap exists : d[2] = Owner}}

Stage(t) ==
  CASE t.pc = "idle" -> "waiting"
    [] t.pc = "done" -> IF t.outcome = "recreated" THEN "updated"
                        ELSE IF t.outcome = "rolledback" THEN "restored" ELSE "abandoned"
    [] t.pc \in {"inspect", "pull", "hook", "list"} -> "preparing"
    [] OTHER -> IF t.verdict = "none" THEN "replacing"
                ELSE IF t.verdict = "healthy" THEN "accepted" ELSE "rejected"

UpdateStages == [r \in Runs |-> Stage(run[r])]

Promise == INSTANCE SafeUpdate WITH
  Updates <- Runs, First <- Before,
  up <- OwnersRunning, kept <- OwnersKept, stage <- UpdateStages

\* The cycle of a service implements SafeUpdate, whatever call fails, loses its answer or
\* is the last: at most one version runs, the one before is given up only for one that was
\* accepted, nothing is touched before the swap, and what is reported is what runs.
ImplementsSafeUpdate == Promise!AbstractSpec
=============================================================================
