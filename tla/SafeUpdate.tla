----------------------------- MODULE SafeUpdate ------------------------------
(***************************************************************************)
(* What an update promises to whoever runs a service: the abstract of the  *)
(* recreate cycle.  It knows which version of the service runs, which      *)
(* versions known to work are kept, and how far each update is.  Names,    *)
(* archives, images and the calls to the container daemon are details.     *)
(***************************************************************************)

CONSTANTS
  Updates,  \* each of them makes a version
  First     \* the version there is before them

Versions == Updates \cup {First}

VARIABLES
  up,     \* the versions that run
  kept,   \* the versions known to work that are still there
  stage   \* update -> how far it is

abstract == <<up, kept, stage>>

Under == {"preparing", "replacing", "accepted", "rejected"}
Stages == Under \cup {"waiting", "updated", "restored", "abandoned"}

AbstractTypeOK ==
  up \subseteq Versions /\ kept \subseteq Versions /\ stage \in [Updates -> Stages]

AbstractInit ==
  up = {First} /\ kept = {First} /\ stage = [u \in Updates |-> "waiting"]

To(u, s) == stage' = [stage EXCEPT ![u] = s]

\* One update at a time.
Prepare(u) ==
  /\ stage[u] = "waiting" /\ \A v \in Updates : stage[v] \notin Under
  /\ To(u, "preparing")
  /\ UNCHANGED <<up, kept>>

\* Up to here nothing was touched.
Replace(u) ==
  /\ stage[u] = "preparing" /\ To(u, "replacing")
  /\ UNCHANGED <<up, kept>>

\* The version that runs is stopped; the update may end with that.
TakeDown(u) ==
  /\ stage[u] = "replacing" /\ u \notin up
  /\ up' = {}
  /\ To(u, "replacing") \/ To(u, "abandoned")
  /\ UNCHANGED kept

Launch(u) ==
  /\ stage[u] = "replacing" /\ up = {}
  /\ up' = {u}
  /\ To(u, "replacing") \/ To(u, "abandoned")
  /\ UNCHANGED kept

\* On trial the new version may crash.
Crash(u) ==
  /\ stage[u] = "replacing" /\ up = {u}
  /\ up' = {}
  /\ UNCHANGED <<kept, stage>>

Accept(u) ==
  /\ stage[u] = "replacing" /\ up = {u}
  /\ kept' = kept \cup {u} /\ To(u, "accepted")
  /\ UNCHANGED up

\* Only now may the version before be given up.
Retire(u, v) ==
  /\ stage[u] = "accepted" /\ v \in kept \ {u}
  /\ kept' = kept \ {v}
  /\ UNCHANGED <<up, stage>>

Reject(u) ==
  /\ stage[u] = "replacing" /\ To(u, "rejected")
  /\ UNCHANGED <<up, kept>>

Withdraw(u) ==
  /\ stage[u] = "rejected" /\ up = {u}
  /\ up' = {}
  /\ To(u, "rejected") \/ To(u, "abandoned")
  /\ UNCHANGED kept

Restore(u) ==
  /\ stage[u] = "rejected" /\ up = {}
  /\ \E v \in Versions \ {u} : up' = {v}
  /\ To(u, "rejected") \/ To(u, "abandoned")
  /\ UNCHANGED kept

\* What is reported is what runs.
Report(u) ==
  /\ \/ stage[u] = "accepted" /\ up = {u} /\ To(u, "updated")
     \/ stage[u] = "rejected" /\ up # {} /\ u \notin up /\ To(u, "restored")
  /\ UNCHANGED <<up, kept>>

\* Refused, failed, or killed.
Abandon(u) ==
  /\ stage[u] \in Under /\ To(u, "abandoned")
  /\ UNCHANGED <<up, kept>>

AbstractNext ==
  \E u \in Updates :
    \/ Prepare(u) \/ Replace(u) \/ TakeDown(u) \/ Launch(u) \/ Crash(u)
    \/ Accept(u) \/ Reject(u) \/ Withdraw(u) \/ Restore(u) \/ Report(u) \/ Abandon(u)
    \/ \E v \in Versions : Retire(u, v)

AbstractSpec == AbstractInit /\ [][AbstractNext]_abstract

-----------------------------------------------------------------------------

\* A version known to work is there at any time, and one version at most runs.
AlwaysRecoverable ==
  /\ kept # {}
  /\ \A v, w \in up : v = w
=============================================================================
