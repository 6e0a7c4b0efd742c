---------------------------- MODULE RecreateCycle ---------------------------
(***************************************************************************)
(* The recreate cycle of docker/recreate.rs: one update of the owner per   *)
(* member of Runs, each a sequence of daemon calls with an await between   *)
(* any two of them.  An action is one call (or one check between calls):   *)
(*                                                                         *)
(*   inspect, pull, hook, list, stop, probe, rename, create, start, gate   *)
(*     healthy: repair every dependent, rmold, posthook, clean, prune      *)
(*     else:    rbstop, rbremove, rbrename, rbstart, repair every dependent*)
(*                                                                         *)
(* and a dependent's repair is rinspect, rimage, then the same swap        *)
(* (stop .. start), then rmarchive, or the restore (undoname, undostart).  *)
(*                                                                         *)
(* Within one freshdock process updates are awaited one after the other;   *)
(* `freshdock recreate` next to the daemon overlaps them (Overlap).        *)
(***************************************************************************)
EXTENDS DockerDaemon

CONSTANTS
  OneShots,    \* the kinds of owner: TRUE for a compose one-shot, which has exited
  OptOut,      \* dependents never repaired: opted out, or freshdock itself
  MaxRetries,  \* pull retries on a rate limit (3 in the code)
  Overlap,     \* may two updates of the owner be in flight at once?
  CanFail,     \* may a daemon call fail, or its answer be lost?
  CanKill      \* may the process die in the middle (crash, forced exit)?

ASSUME CycleAssumption ==
  /\ OneShots \subseteq BOOLEAN
  /\ OptOut \subseteq Deps
  /\ MaxRetries \in Nat
  /\ {Overlap, CanFail, CanKill} \subseteq BOOLEAN

VARIABLES
  oneShot,\* is the owner a one-shot?
  run,    \* run -> the local state of that update
  good    \* the containers known to work: the first ones, and every
          \* replacement a gate accepted (history)

vars == <<docker, oneShot, run, good>>

SwapSteps == {"stop", "probe", "rename", "create", "start"}
RollbackSteps == {"rbstop", "rbremove", "rbrename", "rbstart"}
RepairSteps == {"repair", "rinspect", "rimage", "rmarchive", "undoname", "undostart"}
Steps == SwapSteps \cup RollbackSteps \cup RepairSteps \cup
         {"idle", "inspect", "pull", "hook", "list", "gate",
          "rmold", "posthook", "clean", "prune", "done"}

Verdicts == {"none", "healthy", "timeout", "crashed"}
Outcomes == {"none", "recreated", "rolledback", "skipped", "failed", "error", "killed"}

RunState == [
  pc      : Steps,
  subject : ServiceNames,               \* the service being swapped
  target  : Images,                     \* its image id, captured by the inspect
  how     : {"tag", "id"},              \* the image it is re-created from
  network : Ids \cup {None, ByName},    \* the reference it is re-created with
  tries   : 0 .. MaxRetries,            \* pull retries made
  cand    : 0 .. MaxAttempts,           \* archive names found taken
  archive : Names \cup {None},          \* the swap's archive name, once renamed
  old     : Names \cup {None},          \* CycleResult.old_name
  oldImage: Images,                     \* CycleResult.old_image_id
  todo    : SUBSET Deps,                \* CycleResult.dependents not yet repaired
  before  : Ids \cup {None},            \* the container first inspected (history)
  verdict : Verdicts,
  outcome : Outcomes,
  faulted : BOOLEAN]                    \* has one of its calls failed? (history)

TypeOK ==
  /\ DockerTypeOK
  /\ oneShot \in BOOLEAN
  /\ run \in [Runs -> RunState]
  /\ good \subseteq Ids

Fresh == [pc |-> "idle", subject |-> Owner, target |-> FirstImage, how |-> "tag",
          network |-> None, tries |-> 0, cand |-> 0, archive |-> None, old |-> None,
          oldImage |-> FirstImage, todo |-> {}, before |-> None,
          verdict |-> "none", outcome |-> "none", faulted |-> FALSE]

Init ==
  /\ oneShot \in OneShots
  /\ DockerInit(oneShot)
  /\ run = [r \in Runs |-> Fresh]
  /\ good = {<<Before, n>> : n \in ServiceNames}

Active(r) == run[r].pc \notin {"idle", "done"}
New(r) == <<r, Owner>>
Replacement(r) == <<r, run[r].subject>>

-----------------------------------------------------------------------------
(* Control.                                                                *)

To(r, step) == [run[r] EXCEPT !.pc = step]
Over(r, outcome) == [run[r] EXCEPT !.pc = "done", !.outcome = outcome]

Set(r, fields) == run' = [run EXCEPT ![r] = fields] /\ UNCHANGED oneShot
SetFaulted(r, fields) == Set(r, [fields EXCEPT !.faulted = TRUE])

(* A daemon call of r: accepted iff `can`, and then doing `effect`; it may  *)
(* also fail outright, or take effect and have its answer lost (a client    *)
(* timeout, a broken socket).  `ok` and `err` are r's next local states.    *)
Call(r, can, effect, ok, err) ==
  /\ \/ can /\ effect /\ Set(r, ok)
     \/ ~can /\ UNCHANGED docker /\ Set(r, err)
     \/ CanFail /\ UNCHANGED docker /\ SetFaulted(r, err)
     \/ CanFail /\ can /\ effect /\ SetFaulted(r, err)
  /\ UNCHANGED good

\* A best-effort call: whatever its answer, r goes on with `next`.
Attempt(r, can, effect, next) == Call(r, can, effect, next, next)

\* A call that only reads may fail too.
ReadFails(r, err) == CanFail /\ SetFaulted(r, err) /\ UNCHANGED <<docker, good>>

-----------------------------------------------------------------------------
(* recreate_one, up to the swap.                                           *)

Begin(r) ==
  /\ run[r].pc = "idle"
  /\ Overlap \/ \A s \in Runs : ~Active(s)
  /\ Set(r, To(r, "inspect"))
  /\ UNCHANGED <<docker, good>>

\* The owner's spec and image id; also the preflight, which may refuse.
Inspect(r) ==
  /\ run[r].pc = "inspect"
  /\ \/ /\ \E c \in Named(Live(Owner)) :
             Set(r, [To(r, "pull") EXCEPT
                       !.before = c, !.target = image[c], !.how = ref[c],
                       !.network = joins[c], !.oldImage = image[c]])
        /\ UNCHANGED <<docker, good>>
     \/ /\ Free(Live(Owner))
        /\ Set(r, Over(r, "error"))
        /\ UNCHANGED <<docker, good>>
     \/ ReadFails(r, Over(r, "error"))

\* Mutant: the count of a rate-limited pull's retries starts over.
PullForEver(r) ==
  /\ run[r].pc = "pull"
  /\ \/ \E i \in Images : Call(r, TRUE, PullImage(i), To(r, "hook"), Over(r, "error"))
     \/ /\ Set(r, [run[r] EXCEPT !.tries = IF @ < MaxRetries THEN @ + 1 ELSE 0])
        /\ UNCHANGED <<docker, good>>

\* The tag then resolves to whatever upstream published; a rate-limited pull
\* is retried, any other failure ends the update.
Pull(r) ==
  LET settled(fields) == [fields EXCEPT !.tries = 0] IN
  /\ run[r].pc = "pull"
  /\ \/ \E i \in Images : Call(r, TRUE, PullImage(i), settled(To(r, "hook")),
                             settled(Over(r, "error")))
     \/ /\ run[r].tries < MaxRetries
        /\ Set(r, [run[r] EXCEPT !.tries = @ + 1])
        /\ UNCHANGED <<docker, good>>
     \/ /\ run[r].tries = MaxRetries
        /\ Set(r, settled(Over(r, "error")))
        /\ UNCHANGED <<docker, good>>

\* The pre-update hook clears the update or, failing in any way, skips it.
Hook(r) ==
  /\ run[r].pc = "hook"
  /\ \/ Set(r, To(r, "list"))
     \/ ~oneShot /\ Set(r, Over(r, "skipped"))
  /\ UNCHANGED <<docker, good>>

\* The running containers whose network reference is the owner's id or name.
NetworkDependents(c) ==
  {n \in Deps \ OptOut : \E d \in Named(Live(n)) : up[d] /\ joins[d] \in {c, ByName}}

\* A failed listing means no dependents.
ListDependents(r) ==
  /\ run[r].pc = "list"
  /\ LET listed(ds) == [To(r, "stop") EXCEPT !.todo = ds]
     IN \/ /\ \E c \in Named(Live(Owner)) : Set(r, listed(NetworkDependents(c)))
           /\ UNCHANGED <<docker, good>>
        \/ /\ Free(Live(Owner))
           /\ Set(r, listed({}))
           /\ UNCHANGED <<docker, good>>
        \/ ReadFails(r, listed({}))

-----------------------------------------------------------------------------
(* swap_container: the same five steps for the owner and for a dependent.  *)
(* A failure of the owner's swap ends the update, with nothing restored; a *)
(* dependent's is restored if the rename had happened.                     *)

SwapFailed(r) ==
  IF run[r].subject = Owner THEN Over(r, "error")
  ELSE IF run[r].archive = None THEN To(r, "repair")
  ELSE To(r, "undoname")

\* Mutant: a failed stop is only logged.
StopIgnored(r) ==
  LET held == Named(Live(run[r].subject)) IN
  /\ run[r].pc = "stop"
  /\ Attempt(r, held # {}, \E c \in held : StopContainer(c), To(r, "probe"))

Stop(r) ==
  LET held == Named(Live(run[r].subject)) IN
  /\ run[r].pc = "stop"
  /\ Call(r, held # {}, \E c \in held : StopContainer(c), To(r, "probe"), SwapFailed(r))

Candidate(r) == <<run[r].subject, run[r].cand + 1>>

\* Mutant: candidates are tried without a bound.
ProbeUnbounded(r) ==
  /\ run[r].pc = "probe"
  /\ \/ Free(Candidate(r)) /\ Set(r, To(r, "rename"))
     \/ ~Free(Candidate(r)) /\ Set(r, [run[r] EXCEPT !.cand = @ + 1])
  /\ UNCHANGED <<docker, good>>

\* next_available_old_name: the first candidate whose inspect does not succeed
\* (an inspect that fails for any other reason reads as a free name, too); once
\* all are taken the last one is tried anyway.
Probe(r) ==
  /\ run[r].pc = "probe"
  /\ \/ /\ Free(Candidate(r)) \/ run[r].cand = MaxAttempts
        /\ Set(r, To(r, "rename"))
     \/ /\ ~Free(Candidate(r)) /\ run[r].cand < MaxAttempts
        /\ Set(r, [run[r] EXCEPT !.cand = @ + 1])
     \/ /\ CanFail
        /\ SetFaulted(r, To(r, "rename"))
  /\ UNCHANGED <<docker, good>>

\* A candidate taken since the probe makes the daemon refuse the rename.
Rename(r) ==
  LET held == Named(Live(run[r].subject)) IN
  /\ run[r].pc = "rename"
  /\ Call(r, held # {} /\ Free(Candidate(r)),
          \E c \in held : RenameContainer(c, Candidate(r)),
          [To(r, "create") EXCEPT !.archive = Candidate(r)], SwapFailed(r))

Create(r) ==
  LET nm == Live(run[r].subject) IN
  /\ run[r].pc = "create"
  /\ Call(r, CanCreate(Replacement(r), nm, run[r].how, run[r].target),
          CreateContainer(Replacement(r), nm, run[r].how, run[r].target, run[r].network),
          To(r, "start"), SwapFailed(r))

\* Mutant: the archive is removed once the replacement has started, ungated.
StartUngated(r) ==
  /\ run[r].pc = "start"
  /\ Call(r, CanStart(Replacement(r)), StartContainer(Replacement(r)),
          [To(r, "rmold") EXCEPT !.old = run[r].archive], SwapFailed(r))

\* By id: the replacement is started whatever name it holds by now.
Start(r) ==
  /\ run[r].pc = "start"
  /\ Call(r, CanStart(Replacement(r)), StartContainer(Replacement(r)),
          IF run[r].subject = Owner
            THEN [To(r, "gate") EXCEPT !.old = run[r].archive]
            ELSE To(r, "rmarchive"),
          SwapFailed(r))

-----------------------------------------------------------------------------
(* The verdict on the owner's replacement: HealthGate.tla models the polls *)
(* themselves, this is what they can conclude.                             *)

\* Mutant: the archive is removed while the dependents still hold on to it.
AcceptRemovingFirst(r) ==
  /\ Set(r, [To(r, "rmold") EXCEPT !.verdict = "healthy"])
  /\ good' = good \cup {New(r)}
  /\ UNCHANGED docker

Accept(r) ==
  /\ Set(r, [To(r, "repair") EXCEPT !.verdict = "healthy"])
  /\ good' = good \cup {New(r)}
  /\ UNCHANGED docker

Reject(r, verdict) ==
  /\ Set(r, [To(r, "rbstop") EXCEPT !.verdict = verdict])
  /\ UNCHANGED <<docker, good>>

\* A verdict rests on one answered probe; time may run out at any poll, also
\* because no probe is answered or the container is gone.
Gate(r) ==
  /\ run[r].pc = "gate"
  /\ ~oneShot
  /\ \/ New(r) \in exists /\ up[New(r)] /\ Accept(r)
     \/ New(r) \in exists /\ ~up[New(r)] /\ Reject(r, "crashed")
     \/ Reject(r, "timeout")

\* Mutant: a failed one-shot's container is removed.
OneShotGateTidying(r) ==
  /\ run[r].pc = "gate"
  /\ oneShot
  /\ \/ New(r) \in exists /\ ~up[New(r)] /\ Accept(r)
     \/ /\ New(r) \in exists
        /\ RemoveContainer(New(r)) /\ Set(r, Over(r, "failed")) /\ UNCHANGED good

\* recreate_one_shot: exit code 0 is success; anything else, or running out of
\* time, is a failure that is deliberately not rolled back.
OneShotGate(r) ==
  /\ run[r].pc = "gate"
  /\ oneShot
  /\ \/ New(r) \in exists /\ ~up[New(r)] /\ Accept(r)
     \/ Set(r, Over(r, "failed")) /\ UNCHANGED <<docker, good>>

-----------------------------------------------------------------------------
(* reattach_dependents: each listed dependent in turn, failures only logged *)

RepairNext(r) ==
  /\ run[r].pc = "repair"
  /\ \E n \in run[r].todo :
       Set(r, [To(r, "rinspect") EXCEPT
                 !.subject = n, !.todo = @ \ {n}, !.cand = 0, !.archive = None])
  /\ UNCHANGED <<docker, good>>

RepairsOver(r) ==
  /\ run[r].pc = "repair"
  /\ run[r].todo = {}
  /\ Set(r, IF run[r].verdict = "healthy" THEN To(r, "rmold") ELSE Over(r, "rolledback"))
  /\ UNCHANGED <<docker, good>>

\* Mutant: id references are left as they were.
NotRewritten(r, j) == j

\* rewrite_owner_reference: after a success an id reference is repointed at the
\* replacement; after a rollback the old id is back and the reference stands.
Rewritten(r, j) ==
  IF run[r].verdict = "healthy" /\ j \notin {None, ByName} THEN New(r) ELSE j

RepairInspect(r) ==
  LET held == Named(Live(run[r].subject)) IN
  /\ run[r].pc = "rinspect"
  /\ \/ /\ \E c \in held :
             Set(r, [To(r, "rimage") EXCEPT
                       !.target = image[c], !.how = ref[c],
                       !.network = Rewritten(r, joins[c])])
        /\ UNCHANGED <<docker, good>>
     \/ held = {} /\ Set(r, To(r, "repair")) /\ UNCHANGED <<docker, good>>
     \/ ReadFails(r, To(r, "repair"))

\* Mutants: always the tag, and always the image id (as before #102).
RepairByTag(r) ==
  /\ run[r].pc = "rimage"
  /\ Set(r, To(r, "stop"))
  /\ UNCHANGED <<docker, good>>

RepairById(r) ==
  /\ run[r].pc = "rimage"
  /\ Set(r, [To(r, "stop") EXCEPT !.how = "id"])
  /\ UNCHANGED <<docker, good>>

\* repair_image: the tag while it still resolves to the image the dependent
\* runs, its fixed image id otherwise.
RepairImage(r) ==
  LET pinned == [To(r, "stop") EXCEPT !.how = "id"] IN
  /\ run[r].pc = "rimage"
  /\ \/ /\ Set(r, IF run[r].how = "tag" /\ tag = run[r].target THEN To(r, "stop") ELSE pinned)
        /\ UNCHANGED <<docker, good>>
     \/ ReadFails(r, pinned)

\* By name, and not by force.
RemoveNamed(r, nm, step) ==
  LET removable == {c \in Named(nm) : CanRemove(c)} IN
  Attempt(r, removable # {}, \E c \in removable : RemoveContainer(c), To(r, step))

RemoveDependentArchive(r) ==
  /\ run[r].pc = "rmarchive"
  /\ RemoveNamed(r, run[r].archive, "repair")

\* restore_after_failed_reattach: the rename back is refused while the half-made
\* replacement holds the name, and then nothing is started.
UndoRename(r) ==
  LET nm == Live(run[r].subject) IN
  /\ run[r].pc = "undoname"
  /\ Call(r, ~Free(run[r].archive) /\ Free(nm),
          \E c \in Named(run[r].archive) : RenameContainer(c, nm),
          To(r, "undostart"), To(r, "repair"))

\* By name, so that it starts whichever container holds it by now.
StartNamed(r, nm, ok, err) ==
  LET startable == {c \in Named(nm) : CanStart(c)} IN
  Call(r, startable # {}, \E c \in startable : StartContainer(c), ok, err)

UndoStart(r) ==
  /\ run[r].pc = "undostart"
  /\ StartNamed(r, Live(run[r].subject), To(r, "repair"), To(r, "repair"))

-----------------------------------------------------------------------------
(* After a healthy update, every step best-effort.                         *)

RemoveOld(r) ==
  /\ run[r].pc = "rmold"
  /\ RemoveNamed(r, run[r].old, "posthook")

PostHook(r) ==
  /\ run[r].pc = "posthook"
  /\ Set(r, To(r, "clean"))
  /\ UNCHANGED <<docker, good>>

\* run_cleanup: skipped, or removing the replaced container's image.
CleanImage(r) ==
  /\ run[r].pc = "clean"
  /\ \/ Set(r, To(r, "prune")) /\ UNCHANGED <<docker, good>>
     \/ /\ CanRemoveImage(run[r].oldImage)
        /\ Attempt(r, TRUE, RemoveImage(run[r].oldImage), To(r, "prune"))

Prune(r) ==
  /\ run[r].pc = "prune"
  /\ \/ Set(r, Over(r, "recreated")) /\ UNCHANGED <<docker, good>>
     \/ Attempt(r, TRUE, PruneImages, Over(r, "recreated"))

-----------------------------------------------------------------------------
(* rollback: stop and force-remove the replacement, then rename the archive *)
(* back and start it.  Not atomic: a failing call ends the update there.    *)

RollbackStop(r) ==
  /\ run[r].pc = "rbstop"
  /\ Attempt(r, New(r) \in exists, StopContainer(New(r)), To(r, "rbremove"))

\* Mutant: the ids of the replacement and of the archive are mixed up.
RollbackRemovesArchive(r) ==
  LET held == Named(run[r].old) IN
  /\ run[r].pc = "rbremove"
  /\ Call(r, held # {}, \E c \in held : RemoveContainer(c),
          To(r, "rbrename"), Over(r, "error"))

RollbackRemove(r) ==
  /\ run[r].pc = "rbremove"
  /\ Call(r, New(r) \in exists, RemoveContainer(New(r)),
          To(r, "rbrename"), Over(r, "error"))

\* Mutant: a failed rename back is only logged.
RollbackRenameIgnored(r) ==
  /\ run[r].pc = "rbrename"
  /\ Attempt(r, ~Free(run[r].old) /\ Free(Live(Owner)),
             \E c \in Named(run[r].old) : RenameContainer(c, Live(Owner)), To(r, "repair"))

RollbackRename(r) ==
  /\ run[r].pc = "rbrename"
  /\ Call(r, ~Free(run[r].old) /\ Free(Live(Owner)),
          \E c \in Named(run[r].old) : RenameContainer(c, Live(Owner)),
          To(r, "rbstart"), Over(r, "error"))

\* Mutant: a failed start of the restored container is only logged.
RollbackStartIgnored(r) ==
  /\ run[r].pc = "rbstart"
  /\ StartNamed(r, Live(Owner), To(r, "repair"), To(r, "repair"))

RollbackStart(r) ==
  /\ run[r].pc = "rbstart"
  /\ StartNamed(r, Live(Owner), To(r, "repair"), Over(r, "error"))

-----------------------------------------------------------------------------
(* The environment.                                                        *)

\* The owner's container exits by itself: a one-shot because it is done, the new
\* service by crashing under its gate (no restart policy brings it back).
Exit(c) ==
  /\ c[2] = Owner /\ c \in exists /\ up[c]
  /\ oneShot \/ \E r \in Runs : c = New(r) /\ run[r].pc = "gate"
  /\ StopContainer(c)
  /\ UNCHANGED <<oneShot, run, good>>

\* The process dies at an await: a crash, or the forced exit of commands/run.rs
\* once the shutdown drain has exceeded --stop-timeout.
Kill(r) ==
  /\ CanKill
  /\ Active(r)
  /\ Set(r, Over(r, "killed"))
  /\ UNCHANGED <<docker, good>>

Step(r) ==
  \/ Begin(r) \/ Inspect(r) \/ Pull(r) \/ Hook(r) \/ ListDependents(r)
  \/ Stop(r) \/ Probe(r) \/ Rename(r) \/ Create(r) \/ Start(r)
  \/ Gate(r) \/ OneShotGate(r)
  \/ RepairNext(r) \/ RepairsOver(r) \/ RepairInspect(r) \/ RepairImage(r)
  \/ RemoveDependentArchive(r) \/ UndoRename(r) \/ UndoStart(r)
  \/ RemoveOld(r) \/ PostHook(r) \/ CleanImage(r) \/ Prune(r)
  \/ RollbackStop(r) \/ RollbackRemove(r) \/ RollbackRename(r) \/ RollbackStart(r)

Next ==
  \/ \E r \in Runs : Step(r) \/ Kill(r)
  \/ \E c \in Ids : Exit(c)

Spec == Init /\ [][Next]_vars

\* Every daemon call and hook is eventually answered: each has a timeout.
FairSpec == Spec /\ \A r \in Runs : WF_vars(Step(r))

-----------------------------------------------------------------------------
(* What the cycle promises.                                                *)

AllOver == \A r \in Runs : ~Active(r)
Undisturbed == \A r \in Runs : ~run[r].faulted /\ run[r].outcome # "killed"
Serving(n) == {c \in Named(Live(n)) : up[c]}

\* Whatever fails and wherever the process dies, a container of the owner that
\* is known to work is still there: the archive is removed only once its
\* replacement was accepted, and no accepted one is removed by a rollback.
KnownGoodKept == \E c \in good \cap exists : c[2] = Owner

\* Updates that do not overlap never have two containers of one service running
\* at once: the old one is stopped before its replacement starts, and a rollback
\* removes the replacement before it restarts the old one.
AtMostOneUp == \A c, d \in exists : c[2] = d[2] /\ up[c] /\ up[d] => c = d

\* A repaired dependent runs exactly the image it ran before, although the pull
\* may have moved the tag it is created from (repair_image).
RepairNeverUpgrades == \A c \in exists : c[2] \in Deps => image[c] = FirstImage

\* Every dependent that was to be repaired runs in the namespace of the owner's
\* container now serving, whether that is the replacement or the restored one.
Attached == \A n \in Deps \ OptOut : \E c \in Serving(n) : ns[c] \in Serving(Owner)

\* No container is left under an archive name.
NoArchiveLeft == \A c \in exists : name[c] = Live(c[2])

\* Once undisturbed updates are over the dependents are attached, and nothing is left
\* behind: they are moved off the old container before its removal, which the daemon
\* would refuse otherwise.  (A one-shot that is over serves nobody.)
DependentsRepaired ==
  AllOver /\ Undisturbed /\ ~oneShot => Attached /\ NoArchiveLeft

\* However two updates of the owner interleave, it ends up with no container
\* serving under its name only if one of them has reported an error (or died).
DownMeansReported ==
  AllOver /\ Serving(Owner) = {} =>
    \E r \in Runs : run[r].outcome \in {"error", "killed"}

(* What else holds of updates that do not overlap.                         *)

\* Names are unique, and every container is under a name of its own service.
NamesSound ==
  /\ \A c, d \in exists : name[c] = name[d] => c = d
  /\ \A c \in exists : name[c][1] = c[2]

OneAtATime == \A r, s \in Runs : Active(r) /\ Active(s) => r = s

\* Until the verdict the swap is the owner's, afterwards a dependent's; the archive
\* is removed after a good verdict only and a rollback follows a bad one only; and
\* the archives are archive names.
PhaseSound(t) ==
  /\ t.verdict = "none" => t.subject = Owner
  /\ t.pc \in RollbackSteps => t.verdict \in {"timeout", "crashed"}
  /\ t.pc \in RepairSteps => t.verdict # "none"
  /\ t.pc \in {"rmold", "posthook", "clean", "prune"} => t.verdict = "healthy"
  /\ t.pc \in {"idle", "inspect", "pull", "hook", "list", "gate"} => t.verdict = "none"
  /\ t.pc \in SwapSteps \cup (RepairSteps \ {"repair"}) /\ t.verdict # "none"
       => t.subject \in Deps
  /\ t.archive # None => t.archive[1] = t.subject /\ t.archive[2] # 0
  /\ t.old # None => t.old[1] = Owner /\ t.old[2] # 0

PhasesSound == \A r \in Runs : PhaseSound(run[r])

\* The replacement exists only once it was created, holds the live name while its
\* update is under way, and from an accepting verdict on it stays.
ReplacementSound == \A r \in Runs :
  /\ run[r].verdict = "none" /\ run[r].pc \notin {"start", "gate", "done"}
       => New(r) \notin exists
  /\ Active(r) /\ New(r) \in exists => name[New(r)] = Live(Owner)
  /\ New(r) \in good => run[r].verdict = "healthy"
  /\ Active(r) /\ run[r].verdict = "healthy" => New(r) \in exists \cap good

IInv ==
  /\ NamesSound
  /\ OneAtATime
  /\ PhasesSound
  /\ ReplacementSound

\* The outcome reported is what happened: a recreated owner is served by the new
\* container, a rolled back one by the container it had before, and after a skip
\* that container still holds the name.
OutcomeTruthful ==
  [][\A r \in Runs : run'[r].outcome # run[r].outcome =>
       /\ run'[r].outcome = "recreated" => (Serving(Owner))' = {New(r)}
       /\ run'[r].outcome = "rolledback" => (Serving(Owner))' = {run[r].before}
       /\ run'[r].outcome = "skipped" => Named(Live(Owner))' = {run[r].before}]_vars

\* A dependent that ran from its tag is pinned to its image id only if the tag has
\* moved on; otherwise it stays on the tag, and keeps being checked (#102).
PinnedOnlyBehindTag ==
  [][\A c \in exists' \ exists :
       (\E d \in exists : d[2] = c[2] /\ ref[d] = "tag") /\ ref'[c] = "id" /\ Undisturbed
         => tag # image'[c]]_vars

\* A failed one-shot is not rolled back: the container that failed and the archive
\* of its predecessor both stay, so its logs survive.
FailureEvidenceKept ==
  [][\A r \in Runs : run'[r].outcome = "failed" /\ run[r].outcome # "failed" =>
       {New(r), run[r].before} \subseteq exists']_vars

\* Every update started comes to an end.
Termination == \A r \in Runs : Active(r) ~> run[r].pc = "done"
=============================================================================
