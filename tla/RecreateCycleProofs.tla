------------------------- MODULE RecreateCycleProofs ------------------------
(***************************************************************************)
(* Type correctness of the recreate cycle, and that the last known good    *)
(* container of the owner is never given up: for any set of updates,       *)
(* overlapping or not, any dependents and images, any collision and retry  *)
(* bound, with every call allowed to fail or to lose its answer and the    *)
(* process allowed to die at every await.  At the end, what becomes of the *)
(* dependents when nothing overlaps and nothing fails.                     *)
(***************************************************************************)
EXTENDS RecreateCycle, FiniteSetTheorems, TLAPS

-----------------------------------------------------------------------------
(* Every daemon operation keeps the daemon's state well typed.             *)

LEMMA StopType ==
  ASSUME DockerTypeOK, NEW c \in Ids, StopContainer(c)
  PROVE  DockerTypeOK'
BY DEF DockerTypeOK, StopContainer, Detached

LEMMA RenameType ==
  ASSUME DockerTypeOK, NEW c \in Ids, NEW nm \in Names, RenameContainer(c, nm)
  PROVE  DockerTypeOK'
BY DEF DockerTypeOK, RenameContainer

LEMMA CreateType ==
  ASSUME DockerTypeOK, NEW c \in Ids, NEW nm \in Names, NEW how \in {"tag", "id"},
         NEW img \in Images, NEW target \in Ids \cup {None, ByName},
         CanCreate(c, nm, how, img), CreateContainer(c, nm, how, img, target)
  PROVE  DockerTypeOK'
BY DEF DockerTypeOK, CreateContainer, CanCreate, Resolved

LEMMA StartType ==
  ASSUME DockerTypeOK, NEW c \in Ids, StartContainer(c)
  PROVE  DockerTypeOK'
BY DEF DockerTypeOK, StartContainer, Referenced, Named

LEMMA RemoveType ==
  ASSUME DockerTypeOK, NEW c \in Ids, RemoveContainer(c)
  PROVE  DockerTypeOK'
BY DEF DockerTypeOK, RemoveContainer, Detached

LEMMA ImageType ==
  ASSUME DockerTypeOK,
         (\E i \in Images : PullImage(i) \/ RemoveImage(i)) \/ PruneImages
  PROVE  DockerTypeOK'
BY DEF DockerTypeOK, PullImage, RemoveImage, PruneImages

LEMMA UnchangedType ==
  ASSUME DockerTypeOK, UNCHANGED docker
  PROVE  DockerTypeOK'
BY DEF DockerTypeOK, docker

-----------------------------------------------------------------------------
(* Local states.                                                           *)

LEMMA LocalType ==
  ASSUME TypeOK, NEW r \in Runs, NEW step \in Steps, NEW outcome \in Outcomes
  PROVE  To(r, step) \in RunState /\ Over(r, outcome) \in RunState
<1>1. "done" \in Steps
  BY DEF Steps
<1>2. run[r] \in RunState
  BY DEF TypeOK
<1>3. To(r, step) \in RunState
  BY <1>2 DEF RunState, To
<1>4. Over(r, outcome) \in RunState
  BY <1>1, <1>2 DEF RunState, Over
<1>. QED
  BY <1>3, <1>4

LEMMA SetType ==
  ASSUME run \in [Runs -> RunState], NEW r \in Runs, NEW fields \in RunState,
         Set(r, fields) \/ SetFaulted(r, fields)
  PROVE  run' \in [Runs -> RunState]
<1>1. [fields EXCEPT !.faulted = TRUE] \in RunState
  BY DEF RunState
<1>. QED
  BY <1>1 DEF Set, SetFaulted

\* One field at a time; the actions that set several are chains of these.
LEMMA FieldType ==
  ASSUME NEW t \in RunState
  PROVE  /\ \A n \in ServiceNames : [t EXCEPT !.subject = n] \in RunState
         /\ \A i \in Images : [t EXCEPT !.target = i] \in RunState
         /\ \A i \in Images : [t EXCEPT !.oldImage = i] \in RunState
         /\ \A h \in {"tag", "id"} : [t EXCEPT !.how = h] \in RunState
         /\ \A j \in Ids \cup {None, ByName} : [t EXCEPT !.network = j] \in RunState
         /\ \A k \in 0 .. MaxAttempts : [t EXCEPT !.cand = k] \in RunState
         /\ \A a \in Names \cup {None} : [t EXCEPT !.archive = a] \in RunState
         /\ \A ds \in SUBSET Deps : [t EXCEPT !.todo = ds] \in RunState
         /\ \A k \in 0 .. MaxRetries : [t EXCEPT !.tries = k] \in RunState
         /\ \A c \in Ids \cup {None} : [t EXCEPT !.before = c] \in RunState
<1>1. \A n \in ServiceNames : [t EXCEPT !.subject = n] \in RunState
  BY DEF RunState
<1>2. \A i \in Images : [t EXCEPT !.target = i] \in RunState
  BY DEF RunState
<1>3. \A i \in Images : [t EXCEPT !.oldImage = i] \in RunState
  BY DEF RunState
<1>4. \A h \in {"tag", "id"} : [t EXCEPT !.how = h] \in RunState
  BY DEF RunState
<1>5. \A j \in Ids \cup {None, ByName} : [t EXCEPT !.network = j] \in RunState
  BY DEF RunState
<1>6. \A k \in 0 .. MaxAttempts : [t EXCEPT !.cand = k] \in RunState
  BY DEF RunState
<1>7. \A a \in Names \cup {None} : [t EXCEPT !.archive = a] \in RunState
  BY DEF RunState
<1>8. \A ds \in SUBSET Deps : [t EXCEPT !.todo = ds] \in RunState
  BY DEF RunState
<1>9. \A k \in 0 .. MaxRetries : [t EXCEPT !.tries = k] \in RunState
  BY DEF RunState
<1>10. \A c \in Ids \cup {None} : [t EXCEPT !.before = c] \in RunState
  BY DEF RunState
<1>. QED
  BY <1>1, <1>2, <1>3, <1>4, <1>5, <1>6, <1>7, <1>8, <1>9, <1>10

\* What the inspects of the owner and of a dependent and the turn to the next
\* dependent record.
LEMMA InspectedType ==
  ASSUME NEW t \in RunState, NEW c \in Ids, NEW i \in Images, NEW h \in {"tag", "id"},
         NEW j \in Ids \cup {None, ByName}
  PROVE  /\ [t EXCEPT !.target = i, !.how = h, !.network = j] \in RunState
         /\ [t EXCEPT !.before = c, !.target = i, !.how = h, !.network = j,
                      !.oldImage = i] \in RunState
<1>1. [[[t EXCEPT !.target = i] EXCEPT !.how = h] EXCEPT !.network = j] \in RunState
  BY FieldType
<1>2. [t EXCEPT !.before = c] \in RunState
  BY FieldType
<1>3. [[[[[t EXCEPT !.before = c] EXCEPT !.target = i] EXCEPT !.how = h]
         EXCEPT !.network = j] EXCEPT !.oldImage = i] \in RunState
  BY <1>2, FieldType
<1>. QED
  BY <1>1, <1>3

LEMMA TurnType ==
  ASSUME NEW t \in RunState, NEW n \in t.todo
  PROVE  [t EXCEPT !.subject = n, !.todo = @ \ {n}, !.cand = 0, !.archive = None] \in RunState
<1>1. n \in ServiceNames /\ t.todo \ {n} \in SUBSET Deps /\ 0 \in 0 .. MaxAttempts
  BY DaemonAssumption DEF RunState, ServiceNames
<1>2. [[[[t EXCEPT !.subject = n] EXCEPT !.todo = t.todo \ {n}] EXCEPT !.cand = 0]
        EXCEPT !.archive = None] \in RunState
  BY <1>1, FieldType
<1>. QED
  BY <1>2

\* No step of an update changes what kind of service the owner is.
LEMMA KindKept ==
  ASSUME NEW r \in Runs, Step(r) \/ Kill(r)
  PROVE  UNCHANGED oneShot
<1>1. \A t : Set(r, t) \/ SetFaulted(r, t) => UNCHANGED oneShot
  BY DEF Set, SetFaulted
<1>. USE <1>1 DEF ReadFails, Call, Attempt, RemoveNamed, StartNamed
<1>2. CASE Kill(r)
  BY <1>2 DEF Kill
<1>3. CASE Begin(r) \/ Inspect(r) \/ Pull(r) \/ Hook(r) \/ ListDependents(r)
  BY <1>3 DEF Begin, Inspect, Pull, Hook, ListDependents
<1>4. CASE Stop(r) \/ Probe(r) \/ Rename(r) \/ Create(r) \/ Start(r)
  BY <1>4 DEF Stop, Probe, Rename, Create, Start
<1>5. CASE Gate(r) \/ OneShotGate(r)
  BY <1>5 DEF Gate, OneShotGate, Accept, Reject
<1>6. CASE RepairNext(r) \/ RepairsOver(r) \/ RepairInspect(r) \/ RepairImage(r)
           \/ RemoveDependentArchive(r) \/ UndoRename(r) \/ UndoStart(r)
  BY <1>6 DEF RepairNext, RepairsOver, RepairInspect, RepairImage,
              RemoveDependentArchive, UndoRename, UndoStart
<1>7. CASE RemoveOld(r) \/ PostHook(r) \/ CleanImage(r) \/ Prune(r)
  BY <1>7 DEF RemoveOld, PostHook, CleanImage, Prune
<1>8. CASE RollbackStop(r) \/ RollbackRemove(r) \/ RollbackRename(r) \/ RollbackStart(r)
  BY <1>8 DEF RollbackStop, RollbackRemove, RollbackRename, RollbackStart
<1>. QED
  BY <1>2, <1>3, <1>4, <1>5, <1>6, <1>7, <1>8 DEF Step

-----------------------------------------------------------------------------
(* Type correctness.                                                       *)

LEMMA ActionType ==
  ASSUME TypeOK, NEW r \in Runs, Step(r)
  PROVE  TypeOK'
<1>. SUFFICES ASSUME oneShot' \in BOOLEAN PROVE TypeOK'
  BY KindKept DEF TypeOK
<1>. USE DEF TypeOK
<1>0. /\ DockerTypeOK
      /\ run[r] \in RunState
      /\ DockerTypeOK /\ UNCHANGED docker => DockerTypeOK'
      /\ {"inspect", "pull", "hook", "list", "stop", "probe", "rename", "create",
          "start", "gate", "repair", "rinspect", "rimage", "rmarchive", "undoname",
          "undostart", "rmold", "posthook", "clean", "prune", "rbstop", "rbremove",
          "rbrename", "rbstart"} \subseteq Steps
      /\ \A o \in Outcomes : Over(r, o) \in RunState
      /\ \A s \in Steps : To(r, s) \in RunState
  BY UnchangedType, LocalType DEF Steps, SwapSteps, RepairSteps, RollbackSteps, Outcomes
<1>1. CASE Begin(r)
  BY <1>0, <1>1, SetType DEF Begin
<1>2. CASE Inspect(r)
  <2>1. ASSUME NEW c \in Named(Live(Owner))
        PROVE  [To(r, "pull") EXCEPT
                  !.before = c, !.target = image[c], !.how = ref[c],
                  !.network = joins[c], !.oldImage = image[c]] \in RunState
    <3>1. /\ c \in Ids /\ image[c] \in Images /\ ref[c] \in {"tag", "id"}
          /\ joins[c] \in Ids \cup {None, ByName}
      BY <1>0 DEF Named, DockerTypeOK
    <3>. QED
      BY <1>0, <3>1, InspectedType
  <2>2. Over(r, "error") \in RunState
    BY <1>0 DEF Outcomes
  <2>3. run' \in [Runs -> RunState]
    BY <1>2, <2>1, <2>2, SetType DEF Inspect, ReadFails
  <2>. QED
    BY <1>0, <1>2, <2>3 DEF Inspect, ReadFails
<1>3. CASE Pull(r)
  <2>1. run[r].tries < MaxRetries => [run[r] EXCEPT !.tries = @ + 1] \in RunState
    BY <1>0, CycleAssumption DEF RunState
  <2>2. /\ [To(r, "hook") EXCEPT !.tries = 0] \in RunState
        /\ [Over(r, "error") EXCEPT !.tries = 0] \in RunState
    <3>1. 0 \in 0 .. MaxRetries
      BY CycleAssumption
    <3>. QED
      BY <1>0, <3>1, FieldType DEF Outcomes
  <2>3. run' \in [Runs -> RunState]
    BY <1>3, <2>1, <2>2, SetType DEF Pull, Call
  <2>4. DockerTypeOK'
    BY <1>0, <1>3, ImageType DEF Pull, Call
  <2>. QED
    BY <1>3, <2>3, <2>4 DEF Pull, Call
<1>4. CASE Hook(r)
  BY <1>0, <1>4, SetType DEF Hook, Outcomes
<1>5. CASE ListDependents(r)
  <2>1. ASSUME NEW ds \in SUBSET Deps
        PROVE  [To(r, "stop") EXCEPT !.todo = ds] \in RunState
    BY <1>0, FieldType
  <2>2. \A c : NetworkDependents(c) \in SUBSET Deps
    BY DEF NetworkDependents
  <2>3. run' \in [Runs -> RunState]
    BY <1>5, <2>1, <2>2, SetType DEF ListDependents, ReadFails
  <2>. QED
    BY <1>0, <1>5, <2>3 DEF ListDependents, ReadFails
<1>6. SwapFailed(r) \in RunState
  BY <1>0 DEF SwapFailed, Outcomes
<1>7. /\ run[r].subject \in ServiceNames
      /\ Live(run[r].subject) \in Names
      /\ Live(Owner) \in Names
      /\ New(r) \in Ids /\ Replacement(r) \in Ids
  BY <1>0, DaemonAssumption DEF RunState, Live, Names, New, Replacement, Ids, ServiceNames
<1>8. Candidate(r) \in Names
  <2>1. run[r].cand \in 0 .. MaxAttempts
    BY <1>0 DEF RunState
  <2>. QED
    BY <1>7, <2>1, DaemonAssumption DEF Candidate, Names
<1>9. \A nm : Named(nm) \subseteq Ids
  BY <1>0 DEF Named, DockerTypeOK
<1>10. CASE Stop(r)
  <2>1. run' \in [Runs -> RunState]
    BY <1>0, <1>6, <1>10, SetType DEF Stop, Call
  <2>2. DockerTypeOK'
    BY <1>0, <1>9, <1>10, StopType DEF Stop, Call
  <2>. QED
    BY <1>10, <2>1, <2>2 DEF Stop, Call
<1>11. CASE Probe(r)
  <2>1. ~Free(Candidate(r)) /\ run[r].cand < MaxAttempts
          => [run[r] EXCEPT !.cand = @ + 1] \in RunState
    BY <1>0, DaemonAssumption DEF RunState
  <2>2. run' \in [Runs -> RunState]
    BY <1>0, <1>11, <2>1, SetType DEF Probe
  <2>. QED
    BY <1>0, <1>11, <2>2 DEF Probe
<1>12. CASE Rename(r)
  <2>1. [To(r, "create") EXCEPT !.archive = Candidate(r)] \in RunState
    BY <1>0, <1>8 DEF RunState
  <2>2. run' \in [Runs -> RunState]
    BY <1>6, <1>12, <2>1, SetType DEF Rename, Call
  <2>3. DockerTypeOK'
    BY <1>0, <1>8, <1>9, <1>12, RenameType DEF Rename, Call
  <2>. QED
    BY <1>12, <2>2, <2>3 DEF Rename, Call
<1>13. CASE Create(r)
  <2>1. run' \in [Runs -> RunState]
    BY <1>0, <1>6, <1>13, SetType DEF Create, Call
  <2>2. /\ run[r].how \in {"tag", "id"} /\ run[r].target \in Images
        /\ run[r].network \in Ids \cup {None, ByName}
    BY <1>0 DEF RunState
  <2>3. DockerTypeOK'
    BY <1>0, <1>7, <1>13, <2>2, CreateType DEF Create, Call
  <2>. QED
    BY <1>13, <2>1, <2>3 DEF Create, Call
<1>14. CASE Start(r)
  <2>1. [To(r, "gate") EXCEPT !.old = run[r].archive] \in RunState
    BY <1>0 DEF RunState
  <2>2. run' \in [Runs -> RunState]
    BY <1>0, <1>6, <1>14, <2>1, SetType DEF Start, Call
  <2>3. DockerTypeOK'
    BY <1>0, <1>7, <1>14, StartType DEF Start, Call
  <2>. QED
    BY <1>14, <2>2, <2>3 DEF Start, Call
<1>15. \A step \in Steps, v \in Verdicts : [To(r, step) EXCEPT !.verdict = v] \in RunState
  BY <1>0 DEF RunState
<1>16. CASE Gate(r) \/ OneShotGate(r)
  <2>1. run' \in [Runs -> RunState]
    BY <1>0, <1>15, <1>16, SetType
    DEF Gate, OneShotGate, Accept, Reject, Verdicts, Outcomes
  <2>. QED
    BY <1>0, <1>7, <1>16, <2>1 DEF Gate, OneShotGate, Accept, Reject
<1>17. CASE RepairNext(r)
  <2>1. ASSUME NEW n \in run[r].todo
        PROVE  [To(r, "rinspect") EXCEPT
                  !.subject = n, !.todo = @ \ {n}, !.cand = 0, !.archive = None] \in RunState
    <3>1. n \in To(r, "rinspect").todo
      BY <1>0 DEF To, RunState
    <3>. QED
      BY <1>0, <3>1, TurnType
  <2>2. run' \in [Runs -> RunState]
    BY <1>17, <2>1, SetType DEF RepairNext
  <2>. QED
    BY <1>0, <1>17, <2>2 DEF RepairNext
<1>18. CASE RepairsOver(r)
  BY <1>0, <1>18, SetType DEF RepairsOver, Outcomes
<1>19. CASE RepairInspect(r)
  <2>1. ASSUME NEW c \in Named(Live(run[r].subject))
        PROVE  [To(r, "rimage") EXCEPT
                  !.target = image[c], !.how = ref[c],
                  !.network = Rewritten(r, joins[c])] \in RunState
    <3>1. /\ c \in Ids /\ image[c] \in Images /\ ref[c] \in {"tag", "id"}
          /\ Rewritten(r, joins[c]) \in Ids \cup {None, ByName}
      BY <1>0, <1>7, <1>9 DEF DockerTypeOK, Rewritten
    <3>. QED
      BY <1>0, <3>1, InspectedType
  <2>2. run' \in [Runs -> RunState]
    BY <1>0, <1>19, <2>1, SetType DEF RepairInspect, ReadFails
  <2>. QED
    BY <1>0, <1>19, <2>2 DEF RepairInspect, ReadFails
<1>20. CASE RepairImage(r)
  <2>1. [To(r, "stop") EXCEPT !.how = "id"] \in RunState
    BY <1>0 DEF RunState
  <2>2. run' \in [Runs -> RunState]
    BY <1>0, <1>20, <2>1, SetType DEF RepairImage, ReadFails
  <2>. QED
    BY <1>0, <1>20, <2>2 DEF RepairImage, ReadFails
<1>21. CASE RemoveDependentArchive(r) \/ RemoveOld(r)
  <2>1. run' \in [Runs -> RunState]
    BY <1>0, <1>21, SetType
    DEF RemoveDependentArchive, RemoveOld, RemoveNamed, Attempt, Call
  <2>2. DockerTypeOK'
    BY <1>0, <1>9, <1>21, RemoveType
    DEF RemoveDependentArchive, RemoveOld, RemoveNamed, Attempt, Call
  <2>. QED
    BY <1>21, <2>1, <2>2 DEF RemoveDependentArchive, RemoveOld, RemoveNamed, Attempt, Call
<1>22. CASE UndoRename(r) \/ RollbackRename(r)
  <2>1. run' \in [Runs -> RunState]
    BY <1>0, <1>22, SetType DEF UndoRename, RollbackRename, Call, Outcomes
  <2>2. DockerTypeOK'
    BY <1>0, <1>7, <1>9, <1>22, RenameType DEF UndoRename, RollbackRename, Call
  <2>. QED
    BY <1>22, <2>1, <2>2 DEF UndoRename, RollbackRename, Call
<1>23. CASE UndoStart(r) \/ RollbackStart(r)
  <2>1. run' \in [Runs -> RunState]
    BY <1>0, <1>23, SetType DEF UndoStart, RollbackStart, StartNamed, Call, Outcomes
  <2>2. DockerTypeOK'
    BY <1>0, <1>9, <1>23, StartType DEF UndoStart, RollbackStart, StartNamed, Call
  <2>. QED
    BY <1>23, <2>1, <2>2 DEF UndoStart, RollbackStart, StartNamed, Call
<1>24. CASE PostHook(r)
  BY <1>0, <1>24, SetType DEF PostHook
<1>25. CASE CleanImage(r) \/ Prune(r)
  <2>1. run' \in [Runs -> RunState]
    BY <1>0, <1>25, SetType DEF CleanImage, Prune, Attempt, Call, Outcomes
  <2>2. run[r].oldImage \in Images
    BY <1>0 DEF RunState
  <2>3. DockerTypeOK'
    BY <1>0, <1>25, <2>2, ImageType DEF CleanImage, Prune, Attempt, Call
  <2>. QED
    BY <1>25, <2>1, <2>3 DEF CleanImage, Prune, Attempt, Call
<1>26. CASE RollbackStop(r) \/ RollbackRemove(r)
  <2>1. run' \in [Runs -> RunState]
    BY <1>0, <1>26, SetType DEF RollbackStop, RollbackRemove, Attempt, Call, Outcomes
  <2>2. DockerTypeOK'
    BY <1>0, <1>7, <1>26, StopType, RemoveType DEF RollbackStop, RollbackRemove, Attempt, Call
  <2>. QED
    BY <1>26, <2>1, <2>2 DEF RollbackStop, RollbackRemove, Attempt, Call
<1>. QED
  BY <1>1, <1>2, <1>3, <1>4, <1>5, <1>10, <1>11, <1>12, <1>13, <1>14, <1>16, <1>17,
     <1>18, <1>19, <1>20, <1>21, <1>22, <1>23, <1>24, <1>25, <1>26 DEF Step

\* Every variable keeps its type, whatever fails and however updates overlap.
THEOREM TypeCorrect == Spec => []TypeOK
<1>1. Init => TypeOK
  <2>1. Fresh \in RunState
    BY DaemonAssumption, CycleAssumption
    DEF Fresh, RunState, Steps, ServiceNames, Verdicts, Outcomes
  <2>. QED
    BY <2>1, DaemonAssumption, ReferenceAssumption, CycleAssumption
    DEF Init, DockerInit, TypeOK, DockerTypeOK, Ids, Names, Live, ServiceNames
<1>2. TypeOK /\ [Next]_vars => TypeOK'
  <2>. SUFFICES ASSUME TypeOK, [Next]_vars PROVE TypeOK'
    OBVIOUS
  <2>1. ASSUME NEW r \in Runs, Step(r) PROVE TypeOK'
    BY <2>1, ActionType
  <2>2. ASSUME NEW r \in Runs, Kill(r) PROVE TypeOK'
    BY <2>2, UnchangedType, LocalType, SetType, KindKept DEF Kill, TypeOK, Steps, Outcomes
  <2>3. ASSUME NEW c \in Ids, Exit(c) PROVE TypeOK'
    BY <2>3, StopType DEF Exit, TypeOK
  <2>4. CASE UNCHANGED vars
    BY <2>4, UnchangedType DEF vars, TypeOK
  <2>. QED
    BY <2>1, <2>2, <2>3, <2>4 DEF Next
<1>. QED
  BY <1>1, <1>2, PTL DEF Spec

-----------------------------------------------------------------------------
(* Names, phases, replacements.                                            *)

\* A step of one update leaves the local state of every other one alone.
LEMMA OthersUntouched ==
  ASSUME TypeOK, NEW r \in Runs, Step(r) \/ Kill(r), NEW s \in Runs, s # r
  PROVE  run'[s] = run[s]
<1>1. \A t : Set(r, t) \/ SetFaulted(r, t) => run'[s] = run[s]
  BY DEF Set, SetFaulted, TypeOK
<1>. USE <1>1 DEF ReadFails, Call, Attempt, RemoveNamed, StartNamed
<1>2. CASE Kill(r)
  BY <1>2 DEF Kill
<1>3. CASE Begin(r) \/ Inspect(r) \/ Pull(r) \/ Hook(r) \/ ListDependents(r)
  BY <1>3 DEF Begin, Inspect, Pull, Hook, ListDependents
<1>4. CASE Stop(r) \/ Probe(r) \/ Rename(r) \/ Create(r) \/ Start(r)
  BY <1>4 DEF Stop, Probe, Rename, Create, Start
<1>5. CASE Gate(r) \/ OneShotGate(r)
  BY <1>5 DEF Gate, OneShotGate, Accept, Reject
<1>6. CASE RepairNext(r) \/ RepairsOver(r) \/ RepairInspect(r) \/ RepairImage(r)
           \/ RemoveDependentArchive(r) \/ UndoRename(r) \/ UndoStart(r)
  BY <1>6 DEF RepairNext, RepairsOver, RepairInspect, RepairImage,
              RemoveDependentArchive, UndoRename, UndoStart
<1>7. CASE RemoveOld(r) \/ PostHook(r) \/ CleanImage(r) \/ Prune(r)
  BY <1>7 DEF RemoveOld, PostHook, CleanImage, Prune
<1>8. CASE RollbackStop(r) \/ RollbackRemove(r) \/ RollbackRename(r) \/ RollbackStart(r)
  BY <1>8 DEF RollbackStop, RollbackRemove, RollbackRename, RollbackStart
<1>. QED
  BY <1>2, <1>3, <1>4, <1>5, <1>6, <1>7, <1>8 DEF Step

LEMMA PhaseOfSet ==
  ASSUME TypeOK, NEW r \in Runs, NEW t \in RunState, PhaseSound(t),
         Set(r, t) \/ SetFaulted(r, t)
  PROVE  PhaseSound(run'[r])
BY DEF Set, SetFaulted, TypeOK, RunState, PhaseSound

\* The fields that move a local state from phase to phase.
LEMMA ToFields ==
  ASSUME TypeOK, NEW r \in Runs, NEW step \in Steps
  PROVE  /\ To(r, step).pc = step
         /\ To(r, step).subject = run[r].subject
         /\ To(r, step).archive = run[r].archive
         /\ To(r, step).old = run[r].old
         /\ To(r, step).verdict = run[r].verdict
<1>1. run[r] \in RunState
  BY DEF TypeOK
<1>. QED
  BY <1>1 DEF RunState, To

LEMMA OverFields ==
  ASSUME TypeOK, NEW r \in Runs, NEW outcome \in Outcomes
  PROVE  /\ Over(r, outcome).pc = "done"
         /\ Over(r, outcome).subject = run[r].subject
         /\ Over(r, outcome).archive = run[r].archive
         /\ Over(r, outcome).old = run[r].old
         /\ Over(r, outcome).verdict = run[r].verdict
<1>1. run[r] \in RunState
  BY DEF TypeOK
<1>. QED
  BY <1>1 DEF RunState, Over

\* Those that do not.
LEMMA DataFields ==
  ASSUME NEW t \in RunState, PhaseSound(t), NEW a, NEW b, NEW c, NEW d
  PROVE  /\ PhaseSound([t EXCEPT !.before = a, !.target = b, !.how = c, !.network = d,
                                 !.oldImage = b])
         /\ PhaseSound([t EXCEPT !.target = a, !.how = b, !.network = c])
         /\ PhaseSound([t EXCEPT !.todo = a])
         /\ PhaseSound([t EXCEPT !.tries = a])
         /\ PhaseSound([t EXCEPT !.cand = a])
         /\ PhaseSound([t EXCEPT !.how = a])
         /\ PhaseSound([t EXCEPT !.faulted = a])
<1>1. PhaseSound([t EXCEPT !.before = a, !.target = b, !.how = c, !.network = d,
                           !.oldImage = b])
  BY DEF RunState, PhaseSound
<1>2. PhaseSound([t EXCEPT !.target = a, !.how = b, !.network = c])
  BY DEF RunState, PhaseSound
<1>3. PhaseSound([t EXCEPT !.todo = a])
  BY DEF RunState, PhaseSound
<1>4. /\ PhaseSound([t EXCEPT !.tries = a]) /\ PhaseSound([t EXCEPT !.cand = a])
      /\ PhaseSound([t EXCEPT !.how = a]) /\ PhaseSound([t EXCEPT !.faulted = a])
  BY DEF RunState, PhaseSound
<1>. QED
  BY <1>1, <1>2, <1>3, <1>4

LEMMA PhasesStep ==
  ASSUME TypeOK, PhasesSound, NEW r \in Runs, Step(r) \/ Kill(r)
  PROVE  PhasesSound'
<1>. DEFINE t == run[r]
            Go(s) == To(r, s) \in RunState /\ PhaseSound(To(r, s))
            End(o) == Over(r, o) \in RunState /\ PhaseSound(Over(r, o))
            Swap == t.verdict = "none" \/ t.subject \in Deps
<1>1. t \in RunState /\ PhaseSound(t)
  BY DEF TypeOK, PhasesSound
<1>2. /\ End("error") /\ End("killed") /\ End("skipped") /\ End("failed")
      /\ End("rolledback") /\ End("recreated")
  <2>1. ASSUME NEW o \in Outcomes PROVE End(o)
    BY <1>1, LocalType, OverFields
    DEF PhaseSound, Steps, SwapSteps, RepairSteps, RollbackSteps
  <2>. QED
    BY <2>1 DEF Outcomes
<1>3. ASSUME NEW s \in Steps,
             s \in RollbackSteps => t.verdict \in {"timeout", "crashed"},
             s \in RepairSteps => t.verdict # "none",
             s \in {"rmold", "posthook", "clean", "prune"} => t.verdict = "healthy",
             s \in {"idle", "inspect", "pull", "hook", "list", "gate"} => t.verdict = "none",
             s \in SwapSteps \cup (RepairSteps \ {"repair"}) => Swap
      PROVE  Go(s)
  <2>1. To(r, s) \in RunState
    BY LocalType DEF Outcomes
  <2>2. PhaseSound(To(r, s))
    BY <1>1, <1>3, ToFields DEF PhaseSound
  <2>. QED
    BY <2>1, <2>2
<1>4. /\ t.verdict = "none" =>
           /\ Go("inspect") /\ Go("pull") /\ Go("hook") /\ Go("list") /\ Go("gate")
      /\ Swap =>
           Go("stop") /\ Go("probe") /\ Go("rename") /\ Go("create") /\ Go("start")
      /\ t.verdict # "none" => Go("repair")
      /\ t.verdict = "healthy" => Go("rmold") /\ Go("posthook") /\ Go("clean") /\ Go("prune")
      /\ t.verdict # "none" /\ Swap =>
           /\ Go("rinspect") /\ Go("rimage") /\ Go("rmarchive")
           /\ Go("undoname") /\ Go("undostart")
      /\ t.verdict \in {"timeout", "crashed"} =>
           Go("rbstop") /\ Go("rbremove") /\ Go("rbrename") /\ Go("rbstart")
  <2>. HIDE DEF Go, Swap, t
  <2>. QED
    BY <1>3 DEF Steps, SwapSteps, RepairSteps, RollbackSteps
<1>5. \A s \in Runs \ {r} : PhaseSound(run'[s])
  BY OthersUntouched DEF PhasesSound
<1>6. ASSUME NEW f \in RunState, PhaseSound(f), Set(r, f) \/ SetFaulted(r, f)
      PROVE  PhaseSound(run'[r])
  BY <1>6, PhaseOfSet
<1>7. SUFFICES PhaseSound(run'[r])
  BY <1>5 DEF PhasesSound, PhaseSound
\* What the phases say at r's own step.
<1>8. /\ t.pc \in {"inspect", "pull", "hook", "list", "gate", "idle"} => t.verdict = "none"
      /\ t.pc \in SwapSteps => Swap
      /\ t.pc \in RepairSteps \ {"repair"} => Swap /\ t.verdict # "none"
      /\ t.pc = "repair" => t.verdict # "none"
      /\ t.pc \in RollbackSteps => t.verdict \in {"timeout", "crashed"}
      /\ t.pc \in {"rmold", "posthook", "clean", "prune"} => t.verdict = "healthy"
  BY <1>1 DEF PhaseSound, SwapSteps, RepairSteps, RollbackSteps
<1>9. t.pc \in SwapSteps => SwapFailed(r) \in RunState /\ PhaseSound(SwapFailed(r))
  <2>1. t.subject # Owner => t.verdict # "none"
    BY <1>1 DEF PhaseSound
  <2>. QED
    BY <1>2, <1>4, <1>8, <2>1 DEF SwapFailed
<1>. HIDE DEF t, Go, End, Swap
<1>10. /\ \A s : Go(s) => To(r, s) \in RunState /\ PhaseSound(To(r, s))
       /\ \A o : End(o) => Over(r, o) \in RunState /\ PhaseSound(Over(r, o))
  BY DEF Go, End
<1>. USE DEF t
<1>11. CASE Kill(r)
  BY <1>2, <1>6, <1>10, <1>11 DEF Kill
<1>12. CASE Begin(r)
  BY <1>4, <1>6, <1>8, <1>10, <1>12 DEF Begin
<1>13. CASE Inspect(r)
  <2>1. Go("pull") /\ End("error")
    BY <1>2, <1>4, <1>8, <1>13 DEF Inspect
  <2>2. ASSUME NEW c \in Named(Live(Owner))
        PROVE  LET f == [To(r, "pull") EXCEPT
                           !.before = c, !.target = image[c], !.how = ref[c],
                           !.network = joins[c], !.oldImage = image[c]]
               IN  f \in RunState /\ PhaseSound(f)
    <3>1. /\ c \in Ids /\ image[c] \in Images /\ ref[c] \in {"tag", "id"}
          /\ joins[c] \in Ids \cup {None, ByName}
      BY DEF Named, TypeOK, DockerTypeOK
    <3>. QED
      BY <1>10, <2>1, <3>1, InspectedType, DataFields
  <2>. QED
    BY <1>6, <1>10, <1>13, <2>1, <2>2 DEF Inspect, ReadFails
<1>14. CASE Pull(r)
  <2>1. run[r].tries < MaxRetries => [run[r] EXCEPT !.tries = @ + 1] \in RunState
    BY <1>1, CycleAssumption DEF RunState
  <2>2. PhaseSound([run[r] EXCEPT !.tries = @ + 1])
    BY <1>1, DataFields
  <2>3. ASSUME NEW f \in {To(r, "hook"), Over(r, "error")}
        PROVE  [f EXCEPT !.tries = 0] \in RunState /\ PhaseSound([f EXCEPT !.tries = 0])
    <3>1. f \in RunState /\ PhaseSound(f)
      BY <1>2, <1>4, <1>8, <1>10, <1>14 DEF Pull
    <3>2. 0 \in 0 .. MaxRetries
      BY CycleAssumption
    <3>. QED
      BY <3>1, <3>2, FieldType, DataFields
  <2>. QED
    BY <1>6, <1>14, <2>1, <2>2, <2>3 DEF Pull, Call
<1>15. CASE Hook(r)
  BY <1>2, <1>4, <1>6, <1>8, <1>10, <1>15 DEF Hook
<1>16. CASE ListDependents(r)
  <2>1. Go("stop")
    BY <1>4, <1>8, <1>16 DEF ListDependents, Swap
  <2>2. ASSUME NEW ds \in SUBSET Deps
        PROVE  LET f == [To(r, "stop") EXCEPT !.todo = ds]
               IN  f \in RunState /\ PhaseSound(f)
    BY <1>10, <2>1, FieldType, DataFields
  <2>3. \A c : NetworkDependents(c) \in SUBSET Deps
    BY DEF NetworkDependents
  <2>. QED
    BY <1>6, <1>16, <2>2, <2>3 DEF ListDependents, ReadFails
<1>17. CASE Stop(r)
  BY <1>4, <1>6, <1>8, <1>9, <1>10, <1>17 DEF Stop, Call, SwapSteps
<1>18. CASE Probe(r)
  <2>1. ~Free(Candidate(r)) /\ run[r].cand < MaxAttempts
          => [run[r] EXCEPT !.cand = @ + 1] \in RunState
    BY <1>1, DaemonAssumption DEF RunState
  <2>2. PhaseSound([run[r] EXCEPT !.cand = @ + 1])
    BY <1>1, DataFields
  <2>. QED
    BY <1>4, <1>6, <1>8, <1>10, <1>18, <2>1, <2>2 DEF Probe, SwapSteps
<1>19. CASE Rename(r)
  <2>1. Go("create")
    BY <1>4, <1>8, <1>19 DEF Rename, SwapSteps
  <2>2. PhaseSound([To(r, "create") EXCEPT !.archive = Candidate(r)])
    <3>1. To(r, "create").subject = run[r].subject
      BY ToFields DEF Steps, SwapSteps
    <3>2. Candidate(r)[1] = run[r].subject /\ Candidate(r)[2] # 0
      BY <1>1 DEF Candidate, RunState
    <3>. QED
      BY <1>10, <2>1, <3>1, <3>2 DEF PhaseSound, RunState
  <2>3. [To(r, "create") EXCEPT !.archive = Candidate(r)] \in RunState
    <3>1. Candidate(r) \in Names
      BY <1>1, DaemonAssumption DEF Candidate, Names, RunState
    <3>. QED
      BY <1>10, <2>1, <3>1, FieldType
  <2>. QED
    BY <1>6, <1>9, <1>19, <2>2, <2>3 DEF Rename, Call, SwapSteps
<1>20. CASE Create(r)
  BY <1>4, <1>6, <1>8, <1>9, <1>10, <1>20 DEF Create, Call, SwapSteps
<1>21. CASE Start(r)
  <2>1. t.subject = Owner \/ (Swap /\ t.verdict # "none")
    BY <1>1, <1>8, <1>21 DEF Start, SwapSteps, PhaseSound
  <2>2. t.subject # Owner => Go("rmarchive")
    BY <1>4, <2>1
  <2>3. t.subject = Owner => t.verdict = "none"
    BY <1>1, <1>8, <1>21, DaemonAssumption DEF Start, SwapSteps, Swap
  <2>4. ASSUME t.subject = Owner
        PROVE  LET f == [To(r, "gate") EXCEPT !.old = run[r].archive]
               IN  f \in RunState /\ PhaseSound(f)
    <3>1. Go("gate")
      BY <1>4, <2>3, <2>4
    <3>2. run[r].archive \in Names \cup {None}
      BY <1>1 DEF RunState
    <3>3. run[r].archive # None => run[r].archive[1] = Owner /\ run[r].archive[2] # 0
      BY <1>1, <2>4 DEF PhaseSound
    <3>4. To(r, "gate") \in RunState /\ PhaseSound(To(r, "gate"))
      BY <1>10, <3>1
    <3>. QED
      BY <3>2, <3>3, <3>4 DEF PhaseSound, RunState
  <2>. QED
    BY <1>6, <1>9, <1>10, <1>21, <2>2, <2>4 DEF Start, Call, SwapSteps
<1>22. CASE Gate(r) \/ OneShotGate(r)
  <2>1. t.verdict = "none" /\ t.subject = Owner
    BY <1>1, <1>8, <1>22 DEF Gate, OneShotGate, PhaseSound
  <2>2. ASSUME NEW s \in Steps, NEW v \in Verdicts
        PROVE  /\ [To(r, s) EXCEPT !.verdict = v] \in RunState
               /\ [To(r, s) EXCEPT !.verdict = v].pc = s
               /\ [To(r, s) EXCEPT !.verdict = v].verdict = v
               /\ [To(r, s) EXCEPT !.verdict = v].subject = t.subject
               /\ [To(r, s) EXCEPT !.verdict = v].archive = t.archive
               /\ [To(r, s) EXCEPT !.verdict = v].old = t.old
    <3>1. To(r, s) \in RunState
      BY LocalType DEF Outcomes
    <3>. QED
      BY <3>1, ToFields DEF RunState
  <2>3. LET f == [To(r, "repair") EXCEPT !.verdict = "healthy"]
        IN  f \in RunState /\ PhaseSound(f)
    <3>. DEFINE f == [To(r, "repair") EXCEPT !.verdict = "healthy"]
    <3>1. "repair" \in Steps /\ "healthy" \in Verdicts
      BY DEF Steps, RepairSteps, Verdicts
    <3>2. /\ f \in RunState /\ f.pc = "repair" /\ f.verdict = "healthy"
          /\ f.subject = t.subject /\ f.archive = t.archive /\ f.old = t.old
      BY <2>2, <3>1
    <3>. HIDE DEF f
    <3>3. PhaseSound(f)
      BY <1>1, <2>1, <3>2 DEF PhaseSound, SwapSteps, RepairSteps, RollbackSteps
    <3>. QED
      BY <3>2, <3>3 DEF f
  <2>4. ASSUME NEW v \in {"crashed", "timeout"}
        PROVE  LET f == [To(r, "rbstop") EXCEPT !.verdict = v]
               IN  f \in RunState /\ PhaseSound(f)
    <3>1. "rbstop" \in Steps /\ v \in Verdicts /\ v # "none"
      BY DEF Steps, RollbackSteps, Verdicts
    <3>2. /\ "rbstop" \notin RepairSteps /\ "rbstop" # "rmold"
          /\ "rbstop" \notin {"idle", "inspect", "pull", "hook", "list", "gate"}
          /\ "rbstop" \notin SwapSteps \cup (RepairSteps \ {"repair"})
      BY DEF RepairSteps, SwapSteps
    <3>. QED
      BY <1>1, <2>1, <2>2, <3>1, <3>2 DEF PhaseSound
  <2>. QED
    BY <1>2, <1>6, <1>10, <1>22, <2>3, <2>4 DEF Gate, OneShotGate, Accept, Reject
<1>23. CASE RepairNext(r)
  <2>1. Go("repair") /\ t.verdict # "none"
    BY <1>4, <1>8, <1>23 DEF RepairNext
  <2>2. /\ To(r, "rinspect") \in RunState
        /\ To(r, "rinspect").pc = "rinspect" /\ To(r, "rinspect").verdict = t.verdict
        /\ To(r, "rinspect").old = t.old
    <3>1. "rinspect" \in Steps
      BY DEF Steps, RepairSteps
    <3>. QED
      BY <3>1, LocalType, ToFields DEF Outcomes
  <2>3. ASSUME NEW n \in run[r].todo
        PROVE  LET f == [To(r, "rinspect") EXCEPT
                           !.subject = n, !.todo = @ \ {n}, !.cand = 0, !.archive = None]
               IN  f \in RunState /\ PhaseSound(f)
    <3>1. n \in To(r, "rinspect").todo /\ n \in Deps
      BY <1>1 DEF To, RunState
    <3>. DEFINE f == [To(r, "rinspect") EXCEPT
                        !.subject = n, !.todo = @ \ {n}, !.cand = 0, !.archive = None]
    <3>2. f \in RunState
      BY <2>2, <3>1, TurnType
    <3>3. /\ f.pc = "rinspect" /\ f.verdict = t.verdict /\ f.old = t.old
          /\ f.subject = n /\ f.archive = None
      BY <2>2 DEF RunState
    <3>4. PhaseSound(f)
      <4>. HIDE DEF f
      <4>. QED
        BY <1>1, <2>1, <3>1, <3>3 DEF PhaseSound, SwapSteps, RepairSteps, RollbackSteps
    <3>. QED
      BY <3>2, <3>4
  <2>. QED
    BY <1>6, <1>23, <2>3 DEF RepairNext
<1>24. CASE RepairsOver(r)
  BY <1>2, <1>4, <1>6, <1>8, <1>10, <1>24 DEF RepairsOver
<1>25. CASE RepairInspect(r)
  <2>1. Go("rimage") /\ Go("repair")
    BY <1>4, <1>8, <1>25 DEF RepairInspect, RepairSteps
  <2>2. ASSUME NEW c \in Named(Live(run[r].subject))
        PROVE  LET f == [To(r, "rimage") EXCEPT
                           !.target = image[c], !.how = ref[c],
                           !.network = Rewritten(r, joins[c])]
               IN  f \in RunState /\ PhaseSound(f)
    <3>1. /\ c \in Ids /\ image[c] \in Images /\ ref[c] \in {"tag", "id"}
          /\ joins[c] \in Ids \cup {None, ByName}
      BY DEF Named, TypeOK, DockerTypeOK
    <3>2. Rewritten(r, joins[c]) \in Ids \cup {None, ByName}
      BY <3>1 DEF Rewritten, New, Ids, ServiceNames
    <3>. QED
      BY <1>10, <2>1, <3>1, <3>2, InspectedType, DataFields, ZenonT(60)
  <2>. QED
    BY <1>6, <1>10, <1>25, <2>1, <2>2 DEF RepairInspect, ReadFails
<1>26. CASE RepairImage(r)
  <2>1. Go("stop")
    BY <1>4, <1>8, <1>26 DEF RepairImage, RepairSteps
  <2>2. LET f == [To(r, "stop") EXCEPT !.how = "id"] IN f \in RunState /\ PhaseSound(f)
    BY <1>10, <2>1, FieldType, DataFields
  <2>. QED
    BY <1>6, <1>10, <1>26, <2>1, <2>2 DEF RepairImage, ReadFails
<1>27. CASE RemoveDependentArchive(r)
  BY <1>4, <1>6, <1>8, <1>10, <1>27
  DEF RemoveDependentArchive, RemoveNamed, Attempt, Call, RepairSteps
<1>28. CASE UndoRename(r) \/ UndoStart(r)
  BY <1>4, <1>6, <1>8, <1>10, <1>28 DEF UndoRename, UndoStart, StartNamed, Call, RepairSteps
<1>29. CASE RemoveOld(r) \/ PostHook(r)
  BY <1>4, <1>6, <1>8, <1>10, <1>29 DEF RemoveOld, RemoveNamed, PostHook, Attempt, Call
<1>30. CASE CleanImage(r) \/ Prune(r)
  BY <1>2, <1>4, <1>6, <1>8, <1>10, <1>30 DEF CleanImage, Prune, Attempt, Call
<1>31. CASE RollbackStop(r) \/ RollbackRemove(r)
  BY <1>2, <1>4, <1>6, <1>8, <1>10, <1>31
  DEF RollbackStop, RollbackRemove, Attempt, Call, RollbackSteps
<1>32. CASE RollbackRename(r) \/ RollbackStart(r)
  <2>1. t.verdict \in {"timeout", "crashed"}
    BY <1>8, <1>32 DEF RollbackRename, RollbackStart, RollbackSteps
  <2>. QED
    BY <1>2, <1>4, <1>6, <1>10, <1>32, <2>1
    DEF RollbackRename, RollbackStart, StartNamed, Call
<1>. QED
  BY <1>11, <1>12, <1>13, <1>14, <1>15, <1>16, <1>17, <1>18, <1>19, <1>20, <1>21, <1>22,
     <1>23, <1>24, <1>25, <1>26, <1>27, <1>28, <1>29, <1>30, <1>31, <1>32 DEF Step

\* What a step does to the containers there are and to their names.
Renamed(c, nm) == exists' = exists /\ name' = [name EXCEPT ![c] = nm]
Removed(c) == exists' = exists \ {c} /\ name' = name
Created(c, nm) == exists' = exists \cup {c} /\ name' = [name EXCEPT ![c] = nm]

LEMMA NameEffects ==
  ASSUME TypeOK, NEW r \in Runs, Step(r) \/ Kill(r)
  PROVE  \/ UNCHANGED <<exists, name>>
         \/ /\ run[r].pc = "rename" /\ Free(Candidate(r))
            /\ \E c \in Named(Live(run[r].subject)) : Renamed(c, Candidate(r))
         \/ /\ run[r].pc = "create" /\ Free(Live(run[r].subject))
            /\ Created(Replacement(r), Live(run[r].subject))
         \/ /\ run[r].pc = "undoname" /\ Free(Live(run[r].subject))
            /\ \E c \in Named(run[r].archive) : Renamed(c, Live(run[r].subject))
         \/ /\ run[r].pc = "rbrename" /\ Free(Live(Owner))
            /\ \E c \in Named(run[r].old) : Renamed(c, Live(Owner))
         \/ run[r].pc = "rmarchive" /\ \E c \in Named(run[r].archive) : Removed(c)
         \/ run[r].pc = "rmold" /\ \E c \in Named(run[r].old) : Removed(c)
         \/ run[r].pc = "rbremove" /\ Removed(New(r))
<1>. USE DEF docker, Call, Attempt, ReadFails, Renamed, Removed, Created
<1>1. CASE Kill(r)
  BY <1>1 DEF Kill
<1>2. CASE Begin(r) \/ Inspect(r) \/ Pull(r) \/ Hook(r) \/ ListDependents(r)
  BY <1>2 DEF Begin, Inspect, Pull, Hook, ListDependents, PullImage
<1>3. CASE Stop(r) \/ Probe(r)
  BY <1>3 DEF Stop, Probe, StopContainer
<1>4. CASE Rename(r)
  BY <1>4 DEF Rename, RenameContainer
<1>5. CASE Create(r)
  BY <1>5 DEF Create, CreateContainer, CanCreate
<1>6. CASE Start(r) \/ UndoStart(r) \/ RollbackStart(r)
  BY <1>6 DEF Start, UndoStart, RollbackStart, StartNamed, StartContainer
<1>7. CASE Gate(r) \/ OneShotGate(r)
  BY <1>7 DEF Gate, OneShotGate, Accept, Reject
<1>8. CASE RepairNext(r) \/ RepairsOver(r) \/ RepairInspect(r) \/ RepairImage(r)
  BY <1>8 DEF RepairNext, RepairsOver, RepairInspect, RepairImage
<1>9. CASE RemoveDependentArchive(r) \/ RemoveOld(r)
  BY <1>9 DEF RemoveDependentArchive, RemoveOld, RemoveNamed, RemoveContainer
<1>10. CASE UndoRename(r) \/ RollbackRename(r)
  BY <1>10 DEF UndoRename, RollbackRename, RenameContainer
<1>11. CASE PostHook(r) \/ CleanImage(r) \/ Prune(r)
  BY <1>11 DEF PostHook, CleanImage, Prune, RemoveImage, PruneImages
<1>12. CASE RollbackStop(r) \/ RollbackRemove(r)
  BY <1>12 DEF RollbackStop, RollbackRemove, StopContainer, RemoveContainer
<1>. QED
  BY <1>1, <1>2, <1>3, <1>4, <1>5, <1>6, <1>7, <1>8, <1>9, <1>10, <1>11, <1>12 DEF Step

LEMMA NamesStep ==
  ASSUME TypeOK, NamesSound, PhasesSound, NEW r \in Runs, Step(r) \/ Kill(r)
  PROVE  NamesSound'
<1>1. /\ exists \subseteq Ids /\ name \in [Ids -> Names]
      /\ PhaseSound(run[r])
      /\ Replacement(r) \in Ids /\ Replacement(r)[2] = run[r].subject
      /\ run[r].archive \in Names \cup {None} /\ run[r].old \in Names \cup {None}
  BY DEF TypeOK, DockerTypeOK, PhasesSound, RunState, Replacement, Ids
<1>2. /\ Live(run[r].subject)[1] = run[r].subject /\ Live(Owner)[1] = Owner
      /\ Candidate(r)[1] = run[r].subject
  BY DEF Live, Candidate
<1>3. ASSUME NEW c \in exists, NEW nm, Free(nm), nm[1] = c[2], Renamed(c, nm)
      PROVE  NamesSound'
  BY <1>1, <1>3 DEF NamesSound, Renamed, Free, Named
<1>4. ASSUME NEW c, Removed(c) PROVE NamesSound'
  BY <1>4 DEF NamesSound, Removed
<1>5. ASSUME NEW c \in Ids, NEW nm, Free(nm), nm[1] = c[2], Created(c, nm)
      PROVE  NamesSound'
  BY <1>1, <1>5 DEF NamesSound, Created, Free, Named
<1>6. \A c, nm : c \in Named(nm) => c \in exists /\ nm[1] = c[2]
  BY DEF Named, NamesSound
<1>7. None \notin Names
  BY ReferenceAssumption
<1>8. CASE UNCHANGED <<exists, name>>
  BY <1>8 DEF NamesSound
<1>9. CASE /\ run[r].pc = "rename" /\ Free(Candidate(r))
           /\ \E c \in Named(Live(run[r].subject)) : Renamed(c, Candidate(r))
  BY <1>2, <1>3, <1>6, <1>9
<1>10. CASE /\ run[r].pc = "create" /\ Free(Live(run[r].subject))
            /\ Created(Replacement(r), Live(run[r].subject))
  BY <1>1, <1>2, <1>5, <1>10
<1>11. CASE /\ run[r].pc = "undoname" /\ Free(Live(run[r].subject))
            /\ \E c \in Named(run[r].archive) : Renamed(c, Live(run[r].subject))
  <2>1. \A c \in Named(run[r].archive) : run[r].archive # None
    BY <1>1, <1>7 DEF Named
  <2>. QED
    BY <1>1, <1>2, <1>3, <1>6, <1>11, <2>1 DEF PhaseSound
<1>12. CASE /\ run[r].pc = "rbrename" /\ Free(Live(Owner))
            /\ \E c \in Named(run[r].old) : Renamed(c, Live(Owner))
  <2>1. \A c \in Named(run[r].old) : run[r].old # None
    BY <1>1, <1>7 DEF Named
  <2>. QED
    BY <1>1, <1>2, <1>3, <1>6, <1>12, <2>1 DEF PhaseSound
<1>. QED
  BY <1>4, <1>8, <1>9, <1>10, <1>11, <1>12, NameEffects

-----------------------------------------------------------------------------
(* The replacement and the verdict on it.                                  *)

LEMMA StepFields ==
  ASSUME TypeOK, PhasesSound, NEW r \in Runs, Step(r) \/ Kill(r)
  PROVE  /\ \/ Active(r)
            \/ run[r].pc = "idle" /\ run'[r].pc = "inspect" /\ Begin(r)
         /\ \/ run'[r].verdict = run[r].verdict /\ good' = good
            \/ /\ run[r].pc = "gate" /\ UNCHANGED <<exists, name>>
               /\ \/ /\ run'[r].verdict = "healthy" /\ New(r) \in exists
                     /\ good' = good \cup {New(r)}
                  \/ /\ run'[r].verdict \in {"crashed", "timeout"}
                     /\ good' = good
         /\ run'[r].verdict = "none" /\ run'[r].pc \notin {"start", "gate", "done"}
              => run[r].pc \notin {"create", "start", "gate", "done"}
<1>1. /\ {"pc", "verdict", "outcome", "faulted"} \subseteq DOMAIN run[r]
      /\ r \in DOMAIN run
  BY DEF TypeOK, RunState
<1>3. CASE Kill(r)
  BY <1>1, <1>3 DEF Kill, Set, Over, Active
<1>4. CASE Begin(r)
  BY <1>1, <1>4 DEF Begin, Set, To, Active
<1>. USE <1>1 DEF Set, SetFaulted, To, Over, Active, Call, Attempt, ReadFails,
                  RemoveNamed, StartNamed
<1>5. CASE Inspect(r) 
  BY <1>5 DEF Inspect
<1>6. CASE Pull(r) \/ Hook(r) \/ ListDependents(r)
  BY <1>6 DEF Pull, Hook, ListDependents
<1>7. CASE Stop(r) \/ Probe(r) \/ Rename(r)
  BY <1>7, ZenonT(60) DEF Stop, Probe, Rename, SwapFailed
<1>8. CASE RepairNext(r) \/ RepairsOver(r) \/ RepairInspect(r) \/ RepairImage(r)
  BY <1>8, ZenonT(60) DEF RepairNext, RepairsOver, RepairInspect, RepairImage
<1>9. CASE RemoveDependentArchive(r) \/ RemoveOld(r) \/ UndoRename(r) \/ UndoStart(r)
  BY <1>9 DEF RemoveDependentArchive, RemoveOld, UndoRename, UndoStart
<1>10. CASE PostHook(r) \/ CleanImage(r) \/ Prune(r)
  BY <1>10 DEF PostHook, CleanImage, Prune
<1>11. CASE RollbackStop(r) \/ RollbackRemove(r) \/ RollbackRename(r) \/ RollbackStart(r)
  BY <1>11 DEF RollbackStop, RollbackRemove, RollbackRename, RollbackStart
<1>12. CASE Create(r) \/ Start(r)
  <2>1. run[r].subject # Owner => run[r].verdict # "none"
    BY DEF PhasesSound, PhaseSound
  <2>. QED
    BY <1>12, <2>1, ZenonT(60) DEF Create, Start, SwapFailed
<1>13. CASE Gate(r) \/ OneShotGate(r)
  BY <1>13 DEF Gate, OneShotGate, Accept, Reject, docker
<1>. QED
  BY <1>3, <1>4, <1>5, <1>6, <1>7, <1>8, <1>9, <1>10, <1>11, <1>12, <1>13 DEF Step

\* Of updates that do not overlap, only the one under way can take a step.
LEMMA OnlyActive ==
  ASSUME ~Overlap, TypeOK, PhasesSound, OneAtATime, NEW r \in Runs, Step(r) \/ Kill(r)
  PROVE  /\ \A s \in Runs \ {r} : ~Active(s) /\ run'[s] = run[s]
         /\ OneAtATime'
<1>1. \A s \in Runs \ {r} : ~Active(s)
  BY StepFields DEF OneAtATime, Begin
<1>2. \A s \in Runs \ {r} : run'[s] = run[s]
  BY OthersUntouched
<1>3. OneAtATime'
  BY <1>1, <1>2 DEF OneAtATime, Active
<1>. QED
  BY <1>1, <1>2, <1>3

LEMMA ReplacementStep ==
  ASSUME ~Overlap, TypeOK, NamesSound, PhasesSound, OneAtATime, ReplacementSound,
         NEW r \in Runs, Step(r) \/ Kill(r)
  PROVE  ReplacementSound'
<1>1. /\ run[r] \in RunState /\ PhaseSound(run[r])
      /\ exists \subseteq Ids /\ name \in [Ids -> Names]
  BY DEF TypeOK, DockerTypeOK, PhasesSound
<1>2. \A s \in Runs \ {r} : ~Active(s) /\ ~Active(s)' /\ run'[s] = run[s]
  BY OnlyActive DEF Active
<1>3. New(r) \in Ids /\ \A s \in Runs \ {r} : New(s) # New(r) /\ Replacement(r) # New(s)
  BY DEF New, Ids, ServiceNames, Replacement
<1>4. \A c, nm : c \in Named(nm) => c \in exists /\ name[c] = nm /\ c[2] = nm[1]
  BY DEF Named, NamesSound
<1>5. New(r)[2] = Owner /\ Owner \notin Deps /\ None \notin Names
  BY DaemonAssumption, ReferenceAssumption DEF New
\* A container of the owner is swapped before the verdict only.
<1>6. run[r].pc \in {"rename", "create"} /\ run[r].subject = Owner => New(r) \notin exists
  BY <1>1, <1>5 DEF PhaseSound, SwapSteps, ReplacementSound
<1>7. run[r].pc \in {"undoname", "rmarchive"} => New(r) \notin Named(run[r].archive)
  BY <1>1, <1>4, <1>5 DEF PhaseSound, RepairSteps, RunState, Named
<1>8. run[r].pc = "rmold" => New(r) \notin Named(run[r].old)
  <2>1. run[r].pc = "rmold" => Active(r) /\ New(r) \in exists /\ name[New(r)] = Live(Owner)
    BY <1>1 DEF ReplacementSound, PhaseSound, Active
  <2>. QED
    BY <1>1, <1>5, <2>1 DEF Named, PhaseSound, Live
\* So a step of r takes its replacement away in a rollback only.
<1>9. New(r) \in exists => New(r) \in exists' \/ run[r].pc = "rbremove"
  BY <1>7, <1>8, NameEffects DEF Renamed, Removed, Created
<1>10. New(r) \in exists' => New(r) \in exists \/ run[r].pc = "create"
  BY NameEffects DEF Renamed, Removed, Created
<1>11. New(r) \in exists /\ name[New(r)] = Live(Owner) => name'[New(r)] = Live(Owner)
  <2>1. run[r].pc = "rename" => New(r) \notin Named(Live(run[r].subject))
    BY <1>4, <1>5, <1>6 DEF Live
  <2>2. run[r].pc = "create" /\ New(r) \in exists => Replacement(r) # New(r)
    BY <1>6 DEF Replacement, New
  <2>. QED
    BY <1>1, <1>3, <1>7, <2>1, <2>2, NameEffects DEF Renamed, Removed, Created
<1>12. run[r].pc = "create" /\ New(r) \in exists' /\ New(r) \notin exists
         => name'[New(r)] = Live(Owner)
  BY <1>1, <1>3, NameEffects DEF Renamed, Removed, Created, New, Replacement
<1>14. ASSUME NEW s \in Runs \ {r}
       PROVE  /\ run'[s].verdict = "none" /\ run'[s].pc \notin {"start", "gate", "done"}
                   => New(s) \notin exists'
              /\ Active(s)' /\ New(s) \in exists' => name'[New(s)] = Live(Owner)
              /\ New(s) \in good' => run'[s].verdict = "healthy"
              /\ Active(s)' /\ run'[s].verdict = "healthy" => New(s) \in exists' \cap good'
  <2>1. New(s) \in exists' => New(s) \in exists
    BY <1>3, NameEffects DEF Renamed, Removed, Created
  <2>2. New(s) \in good' => New(s) \in good
    BY <1>3, StepFields
  <2>. QED
    BY <1>2, <2>1, <2>2 DEF ReplacementSound
<1>15. run'[r].verdict = "none" /\ run'[r].pc \notin {"start", "gate", "done"}
         => New(r) \notin exists'
  BY <1>10, StepFields DEF ReplacementSound
<1>16. Active(r)' /\ New(r) \in exists' => name'[New(r)] = Live(Owner)
  <2>1. CASE Active(r)
    BY <1>10, <1>11, <1>12, <2>1 DEF ReplacementSound
  <2>2. CASE run[r].pc = "idle"
    BY <1>1, <1>10, <2>2 DEF ReplacementSound, PhaseSound
  <2>. QED
    BY <2>1, <2>2, StepFields
<1>17. New(r) \in good' => run'[r].verdict = "healthy"
  <2>1. run[r].pc = "gate" => New(r) \notin good
    BY <1>1 DEF PhaseSound, ReplacementSound
  <2>. QED
    BY <2>1, StepFields DEF ReplacementSound
<1>18. Active(r)' /\ run'[r].verdict = "healthy" => New(r) \in exists' \cap good'
  <2>1. run[r].verdict = "healthy" => run[r].pc \notin {"rbremove", "idle"}
    BY <1>1 DEF PhaseSound, RollbackSteps
  <2>. QED
    BY <1>9, <2>1, StepFields DEF ReplacementSound, Active
<1>. QED
  BY <1>14, <1>15, <1>16, <1>17, <1>18 DEF ReplacementSound

LEMMA ShapesInitially == Init => NamesSound /\ PhasesSound
<1>. SUFFICES ASSUME Init PROVE NamesSound /\ PhasesSound
  OBVIOUS
<1>1. \A r \in Runs :
        /\ run[r].pc = "idle" /\ run[r].verdict = "none" /\ run[r].subject = Owner
        /\ run[r].archive = None /\ run[r].old = None
  BY DEF Init, Fresh
<1>2. \A c \in exists : c \in Ids /\ c = <<Before, c[2]>> /\ name[c] = <<c[2], 0>>
  <2>1. exists = {<<Before, n>> : n \in ServiceNames} /\ name = [c \in Ids |-> <<c[2], 0>>]
    BY DEF Init, DockerInit, Live
  <2>2. ASSUME NEW n \in ServiceNames
        PROVE  <<Before, n>> \in Ids /\ <<Before, n>>[2] = n
    BY DEF Ids
  <2>. QED
    BY <2>1, <2>2
<1>3. NamesSound
  BY <1>2 DEF NamesSound
<1>4. PhasesSound
  BY <1>1 DEF PhasesSound, PhaseSound, SwapSteps, RepairSteps, RollbackSteps
<1>. QED
  BY <1>3, <1>4

LEMMA SerialInvariant == ASSUME ~Overlap PROVE Spec => []IInv
<1>1. Init => IInv
  <2>. SUFFICES ASSUME Init PROVE IInv
    OBVIOUS
  <2>1. \A r \in Runs : run[r].pc = "idle" /\ run[r].verdict = "none"
    BY DEF Init, Fresh
  <2>2. NamesSound /\ PhasesSound
    BY ShapesInitially
  <2>3. OneAtATime
    BY <2>1 DEF OneAtATime, Active
  <2>4. \A r \in Runs : New(r) \notin exists /\ New(r) \notin good
    BY DaemonAssumption DEF Init, DockerInit, New
  <2>5. ReplacementSound
    BY <2>1, <2>4 DEF ReplacementSound, Active
  <2>. QED
    BY <2>2, <2>3, <2>5 DEF IInv
<1>2. TypeOK /\ IInv /\ [Next]_vars => IInv'
  <2>. SUFFICES ASSUME TypeOK, IInv, [Next]_vars PROVE IInv'
    OBVIOUS
  <2>. USE DEF IInv
  <2>1. ASSUME NEW r \in Runs, Step(r) \/ Kill(r) PROVE IInv'
    BY <2>1, NamesStep, PhasesStep, OnlyActive, ReplacementStep
  <2>2. ASSUME UNCHANGED <<exists, name, run, good>> PROVE IInv'
    BY <2>2 DEF NamesSound, OneAtATime, PhasesSound, ReplacementSound, Active, PhaseSound
  <2>3. ASSUME NEW c \in Ids, Exit(c) PROVE IInv'
    BY <2>2, <2>3 DEF Exit, StopContainer
  <2>4. CASE UNCHANGED vars
    BY <2>2, <2>4 DEF vars, docker
  <2>. QED
    BY <2>1, <2>3, <2>4 DEF Next
<1>. QED
  BY <1>1, <1>2, TypeCorrect, PTL DEF Spec

-----------------------------------------------------------------------------
(* Counting: whatever overlaps, an update removes one container by an      *)
(* archive's name, after its own replacement was accepted.                 *)

Last == {"posthook", "clean", "prune", "done"}

\* The updates whose replacement was accepted, and those of them that have made their one
\* attempt to remove an archive.
Accepted == {r \in Runs : run[r].verdict = "healthy"}
Spent == {r \in Accepted : run[r].pc \in Last}

\* The owner's containers known to work, and those that are gone.
Known == {c \in good : c[2] = Owner}
Lost == Known \ exists

\* There is one container more that is known to work than there are updates accepted, and
\* no more are gone than updates have made that attempt.
CountInv ==
  /\ \A r \in Runs : New(r) \in good => r \in Accepted
  /\ IsFiniteSet(Accepted) /\ IsFiniteSet(Known)
  /\ Cardinality(Known) = Cardinality(Accepted) + 1
  /\ Cardinality(Lost) <= Cardinality(Spent)

LEMMA CountKeepsOne == CountInv => KnownGoodKept
<1>. SUFFICES ASSUME CountInv, ~KnownGoodKept PROVE FALSE
  OBVIOUS
<1>1. Lost = Known
  BY DEF KnownGoodKept, Lost, Known
<1>2. Cardinality(Spent) <= Cardinality(Accepted) /\ Cardinality(Spent) \in Nat
  BY FS_Subset, FS_CardinalityType DEF CountInv, Spent
<1>3. Cardinality(Accepted) \in Nat
  BY FS_CardinalityType DEF CountInv
<1>. QED
  BY <1>1, <1>2, <1>3 DEF CountInv

LEMMA LastStays ==
  ASSUME TypeOK, NEW r \in Runs, Step(r) \/ Kill(r), run[r].pc \in Last \cup {"rmold"}
  PROVE  run'[r].pc \in Last
<1>1. \A step : To(r, step).pc = step
  BY DEF TypeOK, RunState, To
<1>2. \A outcome : Over(r, outcome).pc = "done"
  BY DEF TypeOK, RunState, Over
<1>3. \A t : t \in RunState /\ (Set(r, t) \/ SetFaulted(r, t)) => run'[r].pc = t.pc
  BY DEF Set, SetFaulted, TypeOK, RunState
<1>4. /\ \A o \in {"killed", "recreated"} : Over(r, o) \in RunState
      /\ \A s \in Last : To(r, s) \in RunState
  BY LocalType DEF Last, Steps, Outcomes
<1>5. CASE Kill(r)
  BY <1>2, <1>3, <1>4, <1>5 DEF Kill, Last
<1>6. CASE Step(r)
  <2>1. RemoveOld(r) \/ PostHook(r) \/ CleanImage(r) \/ Prune(r)
    BY <1>6 DEF Step, Last, Begin, Inspect, Pull, Hook, ListDependents, Stop, Probe, Rename, Create, Start,
                Gate, OneShotGate, RepairNext, RepairsOver, RepairInspect, RepairImage,
                RemoveDependentArchive, UndoRename, UndoStart,
                RollbackStop, RollbackRemove, RollbackRename, RollbackStart
  <2>. QED
    BY <1>1, <1>2, <1>3, <1>4, <2>1
    DEF RemoveOld, PostHook, CleanImage, Prune, RemoveNamed, Attempt, Call, Last
<1>. QED
  BY <1>5, <1>6

LEMMA CountStep ==
  ASSUME TypeOK, NamesSound, PhasesSound, CountInv, NEW r \in Runs, Step(r) \/ Kill(r)
  PROVE  CountInv'
<1>1. PhaseSound(run[r]) /\ run[r].archive \in Names \cup {None} /\ run[r].old \in Names \cup {None}
  BY DEF TypeOK, PhasesSound, RunState
<1>2. \A s \in Runs \ {r} : run'[s] = run[s]
  BY OthersUntouched
<1>3. /\ New(r)[2] = Owner /\ \A s \in Runs : New(s) = New(r) => s = r
      /\ Owner \notin Deps /\ None \notin Names /\ exists \subseteq Ids /\ name \in [Ids -> Names]
  BY DaemonAssumption, ReferenceAssumption DEF New, TypeOK, DockerTypeOK
<1>4. \A c, nm : c \in Named(nm) => c \in exists /\ name[c] = nm /\ c[2] = nm[1]
  BY DEF Named, NamesSound
<1>5. /\ IsFiniteSet(Accepted) /\ IsFiniteSet(Known) /\ IsFiniteSet(Lost) /\ IsFiniteSet(Spent)
      /\ Cardinality(Accepted) \in Nat /\ Cardinality(Known) \in Nat
      /\ Cardinality(Lost) \in Nat /\ Cardinality(Spent) \in Nat
      /\ Cardinality(Known) = Cardinality(Accepted) + 1 /\ Cardinality(Lost) <= Cardinality(Spent)
  BY FS_CardinalityType, FS_Subset DEF CountInv, Lost, Spent
\* An accepted replacement is one more that is known to work, and it is there.
<1>6. CASE /\ run[r].pc = "gate" /\ UNCHANGED <<exists, name>> /\ run'[r].verdict = "healthy"
           /\ New(r) \in exists /\ good' = good \cup {New(r)}
  <2>1. run[r].verdict = "none" /\ r \notin Accepted /\ New(r) \notin good
    BY <1>1, <1>6 DEF PhaseSound, Accepted, CountInv
  <2>2. Accepted' = Accepted \cup {r} /\ Known' = Known \cup {New(r)} /\ Lost' = Lost /\ Spent \subseteq Spent'
    <3>1. Accepted' = Accepted \cup {r}
      BY <1>2, <1>6 DEF Accepted
    <3>2. Known' = Known \cup {New(r)}
      BY <1>3, <1>6 DEF Known
    <3>3. Lost' = Lost
      BY <1>6, <3>2 DEF Lost
    <3>4. Spent \subseteq Spent'
      BY <1>2, <2>1, <3>1 DEF Spent, Accepted
    <3>. QED
      BY <3>1, <3>2, <3>3, <3>4
  <2>3. /\ IsFiniteSet(Accepted') /\ Cardinality(Accepted') = Cardinality(Accepted) + 1
        /\ IsFiniteSet(Known') /\ Cardinality(Known') = Cardinality(Known) + 1
    <3>1. New(r) \notin Known
      BY <2>1 DEF Known
    <3>2. IsFiniteSet(Accepted \cup {r}) /\ Cardinality(Accepted \cup {r}) = Cardinality(Accepted) + 1
      BY <1>5, <2>1, FS_AddElement
    <3>3. IsFiniteSet(Known \cup {New(r)}) /\ Cardinality(Known \cup {New(r)}) = Cardinality(Known) + 1
      BY <1>5, <3>1, FS_AddElement
    <3>. QED
      BY <2>2, <3>2, <3>3
  <2>4. IsFiniteSet(Spent') /\ Cardinality(Spent') \in Nat /\ Cardinality(Spent) <= Cardinality(Spent')
    <3>1. IsFiniteSet(Spent')
      BY <2>3, FS_Subset DEF Spent
    <3>. QED
      BY <2>2, <3>1, FS_Subset, FS_CardinalityType
  <2>5. \A s \in Runs : New(s) \in good' => s \in Accepted'
    BY <1>3, <1>6, <2>2 DEF CountInv
  <2>. QED
    BY <1>5, <2>2, <2>3, <2>4, <2>5 DEF CountInv
\* Any other step leaves the verdicts and what is known to work alone.
<1>7. CASE Accepted' = Accepted /\ good' = good
  <2>1. Known' = Known
    BY <1>7 DEF Known
  <2>2. Spent \subseteq Spent'
    <3>1. \A s \in Runs : run[s].pc \in Last => run'[s].pc \in Last
      BY <1>2, LastStays
    <3>. QED
      BY <1>7, <3>1 DEF Spent, Accepted
  <2>3. IsFiniteSet(Spent') /\ Cardinality(Spent') \in Nat /\ Cardinality(Spent) <= Cardinality(Spent')
    <3>1. IsFiniteSet(Spent')
      BY <1>5, <1>7, FS_Subset DEF Spent
    <3>. QED
      BY <2>2, <3>1, FS_Subset, FS_CardinalityType
  <2>4. CASE Lost' \subseteq Lost
    <3>1. Cardinality(Lost') \in Nat /\ Cardinality(Lost') <= Cardinality(Lost)
      BY <1>5, <2>4, FS_Subset, FS_CardinalityType
    <3>. QED
      BY <1>5, <1>7, <2>1, <2>3, <3>1 DEF CountInv
  <2>5. CASE run[r].pc = "rmold" /\ \E c \in Named(run[r].old) : Removed(c)
    <3>1. PICK c : Removed(c)
      BY <2>5
    <3>2. Lost' \subseteq Lost \cup {c}
      BY <2>1, <3>1 DEF Lost, Removed
    <3>3. r \notin Spent /\ r \in Spent'
      BY <1>1, <1>7, <2>5, LastStays DEF Spent, Accepted, PhaseSound, Last
    <3>4. /\ IsFiniteSet(Lost \cup {c}) /\ Cardinality(Lost \cup {c}) \in Nat
          /\ Cardinality(Lost \cup {c}) <= Cardinality(Lost) + 1
      <4>1. /\ IsFiniteSet(Lost \cup {c})
            /\ \/ Cardinality(Lost \cup {c}) = Cardinality(Lost)
               \/ Cardinality(Lost \cup {c}) = Cardinality(Lost) + 1
        BY <1>5, FS_AddElement
      <4>. QED
        BY <1>5, <4>1
    <3>5. Cardinality(Lost') \in Nat /\ Cardinality(Lost') <= Cardinality(Lost \cup {c})
      BY <3>2, <3>4, FS_Subset, FS_CardinalityType
    <3>6. Cardinality(Spent') >= Cardinality(Spent) + 1
      <4>1. Spent \cup {r} \subseteq Spent' /\ Cardinality(Spent \cup {r}) = Cardinality(Spent) + 1
        BY <1>5, <2>2, <3>3, FS_AddElement
      <4>. QED
        BY <1>5, <2>3, <4>1, FS_Subset
    <3>. QED
      BY <1>5, <1>7, <2>1, <2>3, <3>4, <3>5, <3>6 DEF CountInv
\* The archive of a dependent is no container of the owner, and a rejected replacement
\* was never known to be good.
  <2>6. run[r].pc = "rmarchive" => \A c \in Named(run[r].archive) : c[2] # Owner
    BY <1>1, <1>3, <1>4 DEF PhaseSound, RepairSteps
  <2>7. run[r].pc = "rbremove" => New(r) \notin good
    BY <1>1 DEF PhaseSound, RollbackSteps, CountInv, Accepted
  <2>. QED
    BY <2>1, <2>4, <2>5, <2>6, <2>7, NameEffects DEF Lost, Known, Renamed, Removed, Created
<1>8. run'[r].verdict = run[r].verdict /\ good' = good => Accepted' = Accepted
  BY <1>2 DEF Accepted
<1>9. run[r].pc = "gate" /\ run'[r].verdict \in {"crashed", "timeout"} => Accepted' = Accepted
  BY <1>1, <1>2 DEF Accepted, PhaseSound
<1>. QED
  BY <1>6, <1>7, <1>8, <1>9, StepFields

LEMMA CountInvariant == Spec => []CountInv
<1>1. Init => CountInv /\ NamesSound /\ PhasesSound
  <2>. SUFFICES ASSUME Init PROVE CountInv
    BY ShapesInitially
  <2>1. Accepted = {}
    BY DEF Init, Fresh, Accepted
  <2>2. Known = {<<Before, Owner>>} /\ <<Before, Owner>> \in exists
    BY DEF Init, DockerInit, ServiceNames, Known
  <2>3. Lost = {} /\ Spent = {}
    BY <2>1, <2>2 DEF Lost, Spent
  <2>4. \A r \in Runs : New(r) \notin good
    BY DaemonAssumption DEF Init, New
  <2>5. /\ IsFiniteSet({}) /\ Cardinality({}) = 0 /\ 0 <= 0
        /\ IsFiniteSet(Known) /\ Cardinality(Known) = 0 + 1
    <3>. HIDE DEF Known
    <3>1. IsFiniteSet({}) /\ Cardinality({}) = 0
      BY FS_EmptySet
    <3>2. IsFiniteSet(Known) /\ Cardinality(Known) = 1
      BY <2>2, FS_Singleton
    <3>. QED
      BY <3>1, <3>2
  <2>. QED
    BY <2>1, <2>3, <2>4, <2>5 DEF CountInv
<1>2. /\ TypeOK /\ NamesSound /\ PhasesSound /\ CountInv /\ [Next]_vars
      => NamesSound' /\ PhasesSound' /\ CountInv'
  <2>. SUFFICES ASSUME TypeOK, NamesSound, PhasesSound, CountInv, [Next]_vars
                PROVE  NamesSound' /\ PhasesSound' /\ CountInv'
    OBVIOUS
  <2>1. ASSUME NEW r \in Runs, Step(r) \/ Kill(r) PROVE NamesSound' /\ PhasesSound' /\ CountInv'
    BY <2>1, NamesStep, PhasesStep, CountStep
  <2>2. ASSUME UNCHANGED <<exists, name, run, good>> PROVE NamesSound' /\ PhasesSound' /\ CountInv'
    BY <2>2 DEF NamesSound, PhasesSound, PhaseSound, CountInv, Accepted, Spent, Known, Lost
  <2>3. ASSUME NEW c \in Ids, Exit(c) PROVE NamesSound' /\ PhasesSound' /\ CountInv'
    BY <2>2, <2>3 DEF Exit, StopContainer
  <2>4. CASE UNCHANGED vars
    BY <2>2, <2>4 DEF vars, docker
  <2>. QED
    BY <2>1, <2>3, <2>4 DEF Next
<1>. QED
  BY <1>1, <1>2, TypeCorrect, PTL DEF Spec

\* However many updates of one service overlap, whichever of their calls fail and wherever a
\* process dies, they never lose the last container known to work (recreate_with_health,
\* rollback and the best-effort removal of the archive).
THEOREM KnownGoodSafe == Spec => []KnownGoodKept
BY CountInvariant, CountKeepsOne, PTL

-----------------------------------------------------------------------------
(* The dependents: once undisturbed updates are over each of them runs in  *)
(* the namespace of the owner's container then serving, and nothing is     *)
(* left behind, for any number of updates and dependents, however they     *)
(* reference the owner.                                                    *)

Others == Deps \ OptOut

-----------------------------------------------------------------------------
(* The three situations a service's swap takes it through.                 *)

Sole(c) == c \in exists /\ \A d \in exists : d[2] = c[2] => d = c

\* It serves from its only container, the container waits, stopped, under `nm`,
\* and it does so next to its replacement x.
Steady(c) == Sole(c) /\ name[c] = Live(c[2]) /\ up[c]
Down(c, nm) == Sole(c) /\ name[c] = nm /\ ~up[c]
Split(c, nm, x) ==
  /\ {c, x} \subseteq exists /\ c # x /\ c[2] = x[2]
  /\ \A d \in exists : d[2] = c[2] => d \in {c, x}
  /\ name[c] = nm /\ ~up[c] /\ name[x] = Live(x[2])

\* The dependent n serves from a reference to the owner's container o; it also
\* runs in its namespace.
Joined(n, o) == \E d \in Ids : d[2] = n /\ Steady(d) /\ joins[d] \in {o, ByName}
InSpace(n, o) == \E d \in Ids : d[2] = n /\ Steady(d) /\ joins[d] \in {o, ByName} /\ ns[d] = o

\* Everything is as it should be around the owner's container o.
Settled(o) == o[2] = Owner /\ Steady(o) /\ \A n \in Others : InSpace(n, o)

\* A call on the container c leaves the other ones alone, but for the namespace
\* that some of them may lose with it.
Frame(c) == \A d \in Ids \ {c} :
  /\ d \in exists' <=> d \in exists
  /\ name'[d] = name[d] /\ up'[d] = up[d] /\ joins'[d] = joins[d]
  /\ image'[d] = image[d] /\ ref'[d] = ref[d]
  /\ ns[d] # c => ns'[d] = ns[d]

LEMMA Framed ==
  ASSUME DockerTypeOK, NEW c \in Ids, NEW nm, NEW how, NEW i, NEW j,
         \/ StopContainer(c) \/ RenameContainer(c, nm) \/ CreateContainer(c, nm, how, i, j)
         \/ StartContainer(c) \/ RemoveContainer(c)
  PROVE  Frame(c) /\ tag' = tag /\ store' = store
<1>1. /\ name \in [Ids -> Names] /\ up \in [Ids -> BOOLEAN]
      /\ joins \in [Ids -> Ids \cup {None, ByName}] /\ ns \in [Ids -> Ids \cup {None}]
      /\ image \in [Ids -> Images] /\ ref \in [Ids -> {"tag", "id"}]
  BY DEF DockerTypeOK
<1>2. CASE StopContainer(c)
  BY <1>1, <1>2 DEF StopContainer, Detached, Frame
<1>3. CASE RenameContainer(c, nm)
  BY <1>1, <1>3 DEF RenameContainer, Frame
<1>4. CASE CreateContainer(c, nm, how, i, j)
  BY <1>1, <1>4 DEF CreateContainer, Frame
<1>5. CASE StartContainer(c)
  BY <1>1, <1>5 DEF StartContainer, Frame
<1>6. CASE RemoveContainer(c)
  BY <1>1, <1>6 DEF RemoveContainer, Detached, Frame
<1>. QED
  BY <1>2, <1>3, <1>4, <1>5, <1>6

\* So the other services stay in their situation.
LEMMA Elsewhere ==
  ASSUME DockerTypeOK, exists' \subseteq Ids, NEW c \in Ids, Frame(c)
  PROVE  /\ \A d \in Ids : d[2] # c[2] /\ Sole(d) => Sole(d)'
         /\ \A d \in Ids : d[2] # c[2] /\ Steady(d) => Steady(d)'
         /\ \A d, x \in Ids : \A nm : d[2] # c[2] /\ Split(d, nm, x)
              => Split(d, nm, x)' /\ up'[x] = up[x]
         /\ \A n, o : n # c[2] /\ Joined(n, o) => Joined(n, o)'
         /\ \A n, o : n # c[2] /\ o # c /\ InSpace(n, o) => InSpace(n, o)'
<1>1. exists \subseteq Ids
  BY DEF DockerTypeOK
<1>2. ASSUME NEW d \in Ids, d[2] # c[2], Sole(d) PROVE Sole(d)'
  BY <1>1, <1>2 DEF Sole, Frame
<1>3. ASSUME NEW d \in Ids, d[2] # c[2], Steady(d) PROVE Steady(d)'
  BY <1>2, <1>3 DEF Steady, Frame
<1>4. ASSUME NEW d \in Ids, NEW x \in Ids, NEW nm, d[2] # c[2], Split(d, nm, x)
      PROVE  Split(d, nm, x)' /\ up'[x] = up[x]
  BY <1>1, <1>4 DEF Split, Frame
<1>5. ASSUME NEW n, NEW o, n # c[2], Joined(n, o) PROVE Joined(n, o)'
  BY <1>3, <1>5 DEF Joined, Frame
<1>6. ASSUME NEW n, NEW o, n # c[2], o # c, InSpace(n, o) PROVE InSpace(n, o)'
  BY <1>3, <1>6 DEF InSpace, Frame
<1>. QED
  BY <1>2, <1>3, <1>4, <1>5, <1>6

\* An action that changes no container changes no situation.
LEMMA NothingMoved ==
  ASSUME UNCHANGED <<exists, name, up, joins, ns>>
  PROVE  /\ \A d \in Ids : Sole(d)' = Sole(d) /\ Steady(d)' = Steady(d)
         /\ \A d, nm : Down(d, nm)' = Down(d, nm)
         /\ \A d, x, nm : Split(d, nm, x)' = Split(d, nm, x)
         /\ \A n, o : Joined(n, o)' = Joined(n, o) /\ InSpace(n, o)' = InSpace(n, o)
         /\ \A o \in Ids : Settled(o)' = Settled(o)
  BY DEF Sole, Steady, Down, Split, Joined, InSpace, Settled

-----------------------------------------------------------------------------
(* Who holds which name.                                                   *)

LEMMA Holders ==
  ASSUME NamesSound, NEW d \in exists
  PROVE  /\ Sole(d) => Named(name[d]) = {d} /\ \A nm : nm[1] = d[2] /\ nm # name[d] => Free(nm)
         /\ Steady(d) => Named(Live(d[2])) = {d}
         /\ \A nm, x : Split(d, nm, x) /\ nm # Live(d[2])
              => Named(nm) = {d} /\ Named(Live(d[2])) = {x}
<1>1. Sole(d) => Named(name[d]) = {d} /\ \A nm : nm[1] = d[2] /\ nm # name[d] => Free(nm)
  BY DEF NamesSound, Sole, Named, Free
<1>2. Steady(d) => Named(Live(d[2])) = {d}
  BY <1>1 DEF Steady
<1>3. ASSUME NEW nm, NEW x, Split(d, nm, x), nm # Live(d[2])
      PROVE  Named(nm) = {d} /\ Named(Live(d[2])) = {x}
  BY <1>3 DEF NamesSound, Split, Named
<1>. QED
  BY <1>1, <1>2, <1>3

-----------------------------------------------------------------------------
(* What the calls of a swap and of a rollback do to their service.         *)

LEMMA Stopping ==
  ASSUME DockerTypeOK, NEW c \in Ids, StopContainer(c)
  PROVE  /\ Steady(c) => Down(c, Live(c[2]))'
         /\ \A d, nm : Split(d, nm, c) => Split(d, nm, c)'
  BY DEF DockerTypeOK, StopContainer, Steady, Sole, Down, Split

LEMMA Renaming ==
  ASSUME DockerTypeOK, NEW c \in Ids, NEW nm, NEW to, Down(c, nm), RenameContainer(c, to)
  PROVE  Down(c, to)'
  BY DEF DockerTypeOK, RenameContainer, Sole, Down

LEMMA Starting ==
  ASSUME DockerTypeOK, NEW x \in Ids, StartContainer(x)
  PROVE  /\ \A d, nm : Split(d, nm, x) => Split(d, nm, x)'
         /\ Down(x, Live(x[2])) => Steady(x)'
         /\ up'[x] /\ joins'[x] = joins[x]
         /\ joins[x] # None /\ ~up[x] => \E t \in Referenced(joins[x]) : ns'[x] = t
<1>1. \A d, nm : Split(d, nm, x) => Split(d, nm, x)'
  BY DEF DockerTypeOK, StartContainer, Split
<1>2. Down(x, Live(x[2])) => Steady(x)'
  BY DEF DockerTypeOK, StartContainer, Down, Sole, Steady
<1>3. up'[x] /\ joins'[x] = joins[x]
  BY DEF DockerTypeOK, StartContainer
<1>4. ASSUME joins[x] # None, ~up[x] PROVE \E t \in Referenced(joins[x]) : ns'[x] = t
  BY <1>4 DEF DockerTypeOK, StartContainer
<1>. QED
  BY <1>1, <1>2, <1>3, <1>4

LEMMA Removing ==
  ASSUME DockerTypeOK, NEW c \in Ids, NEW x \in Ids, NEW nm, Split(c, nm, x)
  PROVE  /\ RemoveContainer(c) /\ up[x] => Steady(x)'
         /\ RemoveContainer(x) => Down(c, nm)'
<1>1. RemoveContainer(c) /\ up[x] => Steady(x)'
  BY DEF DockerTypeOK, RemoveContainer, Split, Sole, Steady
<1>2. RemoveContainer(x) => Down(c, nm)'
  BY DEF DockerTypeOK, RemoveContainer, Split, Sole, Down
<1>. QED
  BY <1>1, <1>2

-----------------------------------------------------------------------------
(* Steps of an update that nothing disturbs.                               *)

\* A fault is remembered, and an update whose process was killed is over.
LEMMA FaultsStay ==
  ASSUME TypeOK, PhasesSound, NEW r \in Runs, Step(r) \/ Kill(r)
  PROVE  /\ run[r].faulted => run'[r].faulted
         /\ run'[r].outcome = run[r].outcome \/ run'[r].pc = "done"
<1>1. /\ {"pc", "verdict", "outcome", "faulted", "todo", "how", "archive", "old", "subject",
          "target", "network", "cand", "tries", "before", "oldImage"} \subseteq DOMAIN run[r]
      /\ r \in DOMAIN run
  BY DEF TypeOK, RunState
<1>. DEFINE Puts(t) == Set(r, t) \/ SetFaulted(r, t)
            Fine == /\ run[r].faulted => run'[r].faulted
                    /\ run'[r].outcome = run[r].outcome \/ run'[r].pc = "done"
            Kept(t) == /\ t.faulted = run[r].faulted /\ {"faulted", "outcome", "pc"} \subseteq DOMAIN t
                       /\ t.outcome = run[r].outcome \/ t.pc = "done"
<1>2. ASSUME NEW t, Kept(t), Puts(t) PROVE Fine
  <2>1. CASE Set(r, t)
    BY <1>1, <1>2, <2>1 DEF Set
  <2>2. CASE SetFaulted(r, t)
    BY <1>1, <1>2, <2>2 DEF Set, SetFaulted
  <2>. QED
    BY <1>2, <2>1, <2>2
<1>3. ASSUME NEW step, NEW v PROVE /\ Kept(To(r, step)) /\ Kept([To(r, step) EXCEPT !.todo = v])
         /\ Kept([To(r, step) EXCEPT !.how = v]) /\ Kept([To(r, step) EXCEPT !.archive = v])
         /\ Kept([To(r, step) EXCEPT !.old = v]) /\ Kept([To(r, step) EXCEPT !.verdict = v])
         /\ Kept([To(r, step) EXCEPT !.tries = v])
  BY <1>1 DEF To
<1>4. ASSUME NEW outcome, NEW v PROVE /\ Kept(Over(r, outcome)) /\ Kept([Over(r, outcome) EXCEPT !.tries = v])
  BY <1>1 DEF Over
<1>5. ASSUME NEW v PROVE /\ Kept([run[r] EXCEPT !.tries = v]) /\ Kept([run[r] EXCEPT !.cand = v])
  BY <1>1
<1>6. ASSUME NEW a, NEW b, NEW c, NEW d
      PROVE  /\ Kept([To(r, "pull") EXCEPT !.before = a, !.target = b, !.how = c, !.network = d,
                                           !.oldImage = b])
             /\ Kept([To(r, "rimage") EXCEPT !.target = a, !.how = b, !.network = c])
             /\ Kept([To(r, "rinspect") EXCEPT !.subject = a, !.todo = @ \ {a}, !.cand = 0,
                                               !.archive = None])
  BY <1>1 DEF To
<1>7. Kept(SwapFailed(r))
  BY <1>3, <1>4 DEF SwapFailed
<1>. SUFFICES Fine
  OBVIOUS
<1>. HIDE DEF Kept, Fine
<1>. USE <1>2, <1>3, <1>4 DEF Call, Attempt, ReadFails, RemoveNamed, StartNamed
<1>10. CASE Kill(r)
  BY <1>10 DEF Kill
<1>11. CASE Begin(r) \/ Hook(r) \/ ListDependents(r)
  BY <1>11, ZenonT(60) DEF Begin, Hook, ListDependents
<1>12. CASE Inspect(r)
  BY <1>6, <1>12, ZenonT(60) DEF Inspect
<1>13. CASE Pull(r)
  BY <1>5, <1>13, ZenonT(60) DEF Pull
<1>14. CASE Stop(r) \/ Probe(r) \/ Rename(r) \/ Create(r) \/ Start(r)
  BY <1>5, <1>7, <1>14, ZenonT(60) DEF Stop, Probe, Rename, Create, Start
<1>15. CASE Gate(r) \/ OneShotGate(r)
  BY <1>15, ZenonT(60) DEF Gate, OneShotGate, Accept, Reject
<1>16. CASE RepairNext(r) \/ RepairInspect(r)
  BY <1>6, <1>16, ZenonT(60) DEF RepairNext, RepairInspect
<1>17. CASE RepairsOver(r) \/ RepairImage(r) \/ RemoveDependentArchive(r) \/ UndoRename(r)
            \/ UndoStart(r)
  BY <1>17, ZenonT(60) DEF RepairsOver, RepairImage, RemoveDependentArchive, UndoRename, UndoStart
<1>18. CASE RemoveOld(r) \/ PostHook(r) \/ CleanImage(r) \/ Prune(r)
  BY <1>18, ZenonT(60) DEF RemoveOld, PostHook, CleanImage, Prune
<1>19. CASE RollbackStop(r) \/ RollbackRemove(r) \/ RollbackRename(r) \/ RollbackStart(r)
  BY <1>19, ZenonT(60) DEF RollbackStop, RollbackRemove, RollbackRename, RollbackStart
<1>. QED
  BY <1>10, <1>11, <1>12, <1>13, <1>14, <1>15, <1>16, <1>17, <1>18, <1>19 DEF Step

\* What each call does when it is answered: refused or done.
LEMMA Answered ==
  ASSUME TypeOK, NEW r \in Runs, ~run'[r].faulted
  PROVE  /\ Inspect(r) => UNCHANGED docker /\
              \/ Free(Live(Owner))
              \/ \E c \in Named(Live(Owner)) : run'[r] =
                   [To(r, "pull") EXCEPT !.before = c, !.target = image[c], !.how = ref[c],
                                         !.network = joins[c], !.oldImage = image[c]]
         /\ Pull(r) =>
              \/ \E i \in Images : PullImage(i) /\ run'[r] = [To(r, "hook") EXCEPT !.tries = 0]
              \/ /\ UNCHANGED docker
                 /\ \/ run'[r] = [run[r] EXCEPT !.tries = @ + 1]
                    \/ run'[r] = [Over(r, "error") EXCEPT !.tries = 0]
         /\ ListDependents(r) => UNCHANGED docker /\
              \/ Free(Live(Owner))
              \/ \E c \in Named(Live(Owner)) :
                   run'[r] = [To(r, "stop") EXCEPT !.todo = NetworkDependents(c)]
         /\ Stop(r) =>
              \/ Named(Live(run[r].subject)) = {}
              \/ \E c \in Named(Live(run[r].subject)) :
                   StopContainer(c) /\ run'[r] = To(r, "probe")
         /\ Probe(r) => UNCHANGED docker /\
              (run'[r] = To(r, "rename") \/ run'[r] = [run[r] EXCEPT !.cand = @ + 1])
         /\ Rename(r) =>
              \/ Named(Live(run[r].subject)) = {} \/ ~Free(Candidate(r))
              \/ \E c \in Named(Live(run[r].subject)) :
                   /\ RenameContainer(c, Candidate(r))
                   /\ run'[r] = [To(r, "create") EXCEPT !.archive = Candidate(r)]
         /\ Create(r) =>
              \/ ~CanCreate(Replacement(r), Live(run[r].subject), run[r].how, run[r].target)
              \/ /\ CreateContainer(Replacement(r), Live(run[r].subject), run[r].how,
                                    run[r].target, run[r].network)
                 /\ run'[r] = To(r, "start")
         /\ Start(r) =>
              \/ ~CanStart(Replacement(r))
              \/ /\ StartContainer(Replacement(r))
                 /\ IF run[r].subject = Owner
                      THEN run'[r] = [To(r, "gate") EXCEPT !.old = run[r].archive]
                      ELSE run'[r] = To(r, "rmarchive")
<1>1. /\ {"pc", "faulted", "todo", "how", "archive", "old", "subject",
          "target", "network", "cand", "tries", "before", "oldImage"} \subseteq DOMAIN run[r]
      /\ r \in DOMAIN run
  BY DEF TypeOK, RunState
<1>2. ASSUME NEW t, Set(r, t) PROVE run'[r] = t
  BY <1>1, <1>2 DEF Set
<1>3. ASSUME NEW t, "faulted" \in DOMAIN t PROVE ~SetFaulted(r, t)
  BY <1>1, <1>3 DEF SetFaulted, Set
<1>4. ASSUME NEW step, NEW v
      PROVE  /\ "faulted" \in DOMAIN To(r, step)
             /\ "faulted" \in DOMAIN [To(r, step) EXCEPT !.todo = v]
             /\ "faulted" \in DOMAIN [To(r, step) EXCEPT !.how = v]
             /\ "faulted" \in DOMAIN [To(r, step) EXCEPT !.archive = v]
             /\ "faulted" \in DOMAIN [To(r, step) EXCEPT !.old = v]
             /\ "faulted" \in DOMAIN [To(r, step) EXCEPT !.tries = v]
             /\ "faulted" \in DOMAIN Over(r, step)
             /\ "faulted" \in DOMAIN [Over(r, step) EXCEPT !.tries = v]
  BY <1>1 DEF To, Over
<1>5. "faulted" \in DOMAIN SwapFailed(r)
  BY <1>4 DEF SwapFailed
<1>. USE DEF Call, Attempt, ReadFails
<1>6. ASSUME Inspect(r)
      PROVE  UNCHANGED docker /\
              \/ Free(Live(Owner))
              \/ \E c \in Named(Live(Owner)) : run'[r] =
                   [To(r, "pull") EXCEPT !.before = c, !.target = image[c], !.how = ref[c],
                                         !.network = joins[c], !.oldImage = image[c]]
  BY <1>2, <1>3, <1>4, <1>6, ZenonT(60) DEF Inspect
<1>7. ASSUME Pull(r)
      PROVE  \/ \E i \in Images : PullImage(i) /\ run'[r] = [To(r, "hook") EXCEPT !.tries = 0]
             \/ /\ UNCHANGED docker
                /\ \/ run'[r] = [run[r] EXCEPT !.tries = @ + 1]
                   \/ run'[r] = [Over(r, "error") EXCEPT !.tries = 0]
  BY <1>2, <1>3, <1>4, <1>7, ZenonT(60) DEF Pull
<1>8. ASSUME ListDependents(r)
      PROVE  UNCHANGED docker /\
              \/ Free(Live(Owner))
              \/ \E c \in Named(Live(Owner)) :
                   run'[r] = [To(r, "stop") EXCEPT !.todo = NetworkDependents(c)]
  BY <1>2, <1>3, <1>4, <1>8, ZenonT(60) DEF ListDependents
<1>9. ASSUME Stop(r)
      PROVE  \/ Named(Live(run[r].subject)) = {}
             \/ \E c \in Named(Live(run[r].subject)) :
                  StopContainer(c) /\ run'[r] = To(r, "probe")
  BY <1>2, <1>3, <1>4, <1>5, <1>9, ZenonT(60) DEF Stop
<1>10. ASSUME Probe(r)
       PROVE  UNCHANGED docker /\
              (run'[r] = To(r, "rename") \/ run'[r] = [run[r] EXCEPT !.cand = @ + 1])
  BY <1>2, <1>3, <1>4, <1>10, ZenonT(60) DEF Probe
<1>11. ASSUME Rename(r)
       PROVE  \/ Named(Live(run[r].subject)) = {} \/ ~Free(Candidate(r))
              \/ \E c \in Named(Live(run[r].subject)) :
                   /\ RenameContainer(c, Candidate(r))
                   /\ run'[r] = [To(r, "create") EXCEPT !.archive = Candidate(r)]
  BY <1>2, <1>3, <1>4, <1>5, <1>11, ZenonT(60) DEF Rename
<1>12. ASSUME Create(r)
       PROVE  \/ ~CanCreate(Replacement(r), Live(run[r].subject), run[r].how, run[r].target)
              \/ /\ CreateContainer(Replacement(r), Live(run[r].subject), run[r].how,
                                    run[r].target, run[r].network)
                 /\ run'[r] = To(r, "start")
  BY <1>2, <1>3, <1>4, <1>5, <1>12, ZenonT(60) DEF Create
<1>13. ASSUME Start(r)
       PROVE  \/ ~CanStart(Replacement(r))
              \/ /\ StartContainer(Replacement(r))
                 /\ IF run[r].subject = Owner
                      THEN run'[r] = [To(r, "gate") EXCEPT !.old = run[r].archive]
                      ELSE run'[r] = To(r, "rmarchive")
  <2>1. CASE run[r].subject = Owner
    BY <1>2, <1>3, <1>4, <1>5, <1>13, <2>1, ZenonT(60) DEF Start
  <2>2. CASE run[r].subject # Owner
    BY <1>2, <1>3, <1>4, <1>5, <1>13, <2>2, ZenonT(60) DEF Start
  <2>. QED
    BY <2>1, <2>2
<1>. QED
  BY <1>6, <1>7, <1>8, <1>9, <1>10, <1>11, <1>12, <1>13, ZenonT(60)

LEMMA RepairAnswered ==
  ASSUME TypeOK, NEW r \in Runs, ~run'[r].faulted
  PROVE  /\ RepairNext(r) => UNCHANGED docker /\ \E n \in run[r].todo : run'[r] =
              [To(r, "rinspect") EXCEPT !.subject = n, !.todo = @ \ {n}, !.cand = 0, !.archive = None]
         /\ RepairInspect(r) => UNCHANGED docker /\
              \/ Free(Live(run[r].subject))
              \/ \E c \in Named(Live(run[r].subject)) : run'[r] =
                   [To(r, "rimage") EXCEPT !.target = image[c], !.how = ref[c],
                                           !.network = Rewritten(r, joins[c])]
         /\ RepairImage(r) => UNCHANGED docker /\
              \/ run[r].how = "tag" /\ tag = run[r].target /\ run'[r] = To(r, "stop")
              \/ /\ run[r].how # "tag" \/ tag # run[r].target
                 /\ run'[r] = [To(r, "stop") EXCEPT !.how = "id"]
         /\ RemoveDependentArchive(r) => run'[r] = To(r, "repair") /\
              \/ \A c \in Named(run[r].archive) : ~CanRemove(c)
              \/ \E c \in Named(run[r].archive) : RemoveContainer(c)
         /\ RemoveOld(r) => run'[r] = To(r, "posthook") /\
              \/ \A c \in Named(run[r].old) : ~CanRemove(c)
              \/ \E c \in Named(run[r].old) : RemoveContainer(c)
         /\ CleanImage(r) => run'[r] = To(r, "prune") /\
              (UNCHANGED docker \/ \E i : CanRemoveImage(i) /\ RemoveImage(i))
         /\ Prune(r) => run'[r] = Over(r, "recreated") /\ (UNCHANGED docker \/ PruneImages)
         /\ RollbackStop(r) => run'[r] = To(r, "rbremove") /\ (New(r) \notin exists \/ StopContainer(New(r)))
         /\ RollbackRemove(r) => New(r) \notin exists \/ (RemoveContainer(New(r)) /\ run'[r] = To(r, "rbrename"))
         /\ RollbackRename(r) => 
              \/ Free(run[r].old) \/ ~Free(Live(Owner))
              \/ \E c \in Named(run[r].old) :
                   RenameContainer(c, Live(Owner)) /\ run'[r] = To(r, "rbstart")
         /\ RollbackStart(r) => 
              \/ \A c \in Named(Live(Owner)) : ~CanStart(c)
              \/ \E c \in Named(Live(Owner)) : StartContainer(c) /\ run'[r] = To(r, "repair")
<1>1. /\ {"pc", "faulted", "todo", "how", "archive", "subject", "target", "network", "cand",
          "outcome"} \subseteq DOMAIN run[r]
      /\ r \in DOMAIN run
  BY DEF TypeOK, RunState
<1>2. ASSUME NEW t, Set(r, t) PROVE run'[r] = t
  BY <1>1, <1>2 DEF Set
<1>3. ASSUME NEW t, "faulted" \in DOMAIN t PROVE ~SetFaulted(r, t)
  BY <1>1, <1>3 DEF SetFaulted, Set
<1>4. ASSUME NEW step
      PROVE  /\ "faulted" \in DOMAIN To(r, step) /\ "faulted" \in DOMAIN Over(r, step)
             /\ "faulted" \in DOMAIN [To(r, step) EXCEPT !.how = "id"]
  BY <1>1 DEF To, Over
<1>. USE DEF Call, Attempt, ReadFails, Free
<1>5. ASSUME RepairNext(r)
      PROVE  UNCHANGED docker /\ \E n \in run[r].todo : run'[r] =
              [To(r, "rinspect") EXCEPT !.subject = n, !.todo = @ \ {n}, !.cand = 0, !.archive = None]
  BY <1>2, <1>3, <1>4, <1>5, ZenonT(60) DEF RepairNext
<1>6. ASSUME RepairInspect(r)
      PROVE  UNCHANGED docker /\
              \/ Free(Live(run[r].subject))
              \/ \E c \in Named(Live(run[r].subject)) : run'[r] =
                   [To(r, "rimage") EXCEPT !.target = image[c], !.how = ref[c],
                                           !.network = Rewritten(r, joins[c])]
  BY <1>2, <1>3, <1>4, <1>6, ZenonT(60) DEF RepairInspect
<1>7. ASSUME RepairImage(r)
      PROVE  UNCHANGED docker /\
              \/ run[r].how = "tag" /\ tag = run[r].target /\ run'[r] = To(r, "stop")
              \/ /\ run[r].how # "tag" \/ tag # run[r].target
                 /\ run'[r] = [To(r, "stop") EXCEPT !.how = "id"]
  BY <1>2, <1>3, <1>4, <1>7, ZenonT(60) DEF RepairImage
<1>8. ASSUME RemoveDependentArchive(r)
      PROVE  run'[r] = To(r, "repair") /\
              \/ \A c \in Named(run[r].archive) : ~CanRemove(c)
              \/ \E c \in Named(run[r].archive) : RemoveContainer(c)
  BY <1>2, <1>3, <1>4, <1>8, ZenonT(60) DEF RemoveDependentArchive, RemoveNamed
<1>9. ASSUME RemoveOld(r)
      PROVE  run'[r] = To(r, "posthook") /\
              \/ \A c \in Named(run[r].old) : ~CanRemove(c)
              \/ \E c \in Named(run[r].old) : RemoveContainer(c)
  BY <1>2, <1>3, <1>4, <1>9, ZenonT(60) DEF RemoveOld, RemoveNamed
<1>10. ASSUME CleanImage(r)
      PROVE  run'[r] = To(r, "prune") /\
              (UNCHANGED docker \/ \E i : CanRemoveImage(i) /\ RemoveImage(i))
  BY <1>2, <1>3, <1>4, <1>10, ZenonT(60) DEF CleanImage
<1>11. ASSUME Prune(r)
      PROVE  run'[r] = Over(r, "recreated") /\ (UNCHANGED docker \/ PruneImages)
  BY <1>2, <1>3, <1>4, <1>11, ZenonT(60) DEF Prune
<1>12. ASSUME RollbackStop(r)
      PROVE  run'[r] = To(r, "rbremove") /\ (New(r) \notin exists \/ StopContainer(New(r)))
  BY <1>2, <1>3, <1>4, <1>12, ZenonT(60) DEF RollbackStop
<1>13. ASSUME RollbackRemove(r)
      PROVE  New(r) \notin exists \/ (RemoveContainer(New(r)) /\ run'[r] = To(r, "rbrename"))
  BY <1>2, <1>3, <1>4, <1>13, ZenonT(60) DEF RollbackRemove
<1>14. ASSUME RollbackRename(r)
      PROVE  \/ Free(run[r].old) \/ ~Free(Live(Owner))
             \/ \E c \in Named(run[r].old) :
                   RenameContainer(c, Live(Owner)) /\ run'[r] = To(r, "rbstart")
  BY <1>2, <1>3, <1>4, <1>14, ZenonT(60) DEF RollbackRename
<1>15. ASSUME RollbackStart(r)
      PROVE  \/ \A c \in Named(Live(Owner)) : ~CanStart(c)
             \/ \E c \in Named(Live(Owner)) : StartContainer(c) /\ run'[r] = To(r, "repair")
  BY <1>2, <1>3, <1>4, <1>15, ZenonT(60) DEF RollbackStart, StartNamed
<1>. QED
  BY <1>5, <1>6, <1>7, <1>8, <1>9, <1>10, <1>11, <1>12, <1>13, <1>14, <1>15, ZenonT(60)

\* Where an update goes on, and what it keeps: the cycle's fields and the swap's.
At(r, pc) == run'[r].pc = pc /\ run'[r].verdict = run[r].verdict
KeepsSubject(r) ==
  /\ run'[r].subject = run[r].subject
  /\ run'[r].target = run[r].target /\ run'[r].network = run[r].network
KeepsSwap(r) == KeepsSubject(r) /\ run'[r].how = run[r].how /\ run'[r].archive = run[r].archive
KeepsCycle(r) == run'[r].old = run[r].old /\ run'[r].todo = run[r].todo

LEMMA Fields ==
  ASSUME TypeOK, NEW r \in Runs
  PROVE  /\ {"pc", "todo", "how", "archive", "old", "subject", "verdict", "outcome", "faulted",
             "target", "network", "cand", "tries", "before", "oldImage"} \subseteq DOMAIN run[r]
         /\ r \in DOMAIN run
  BY DEF TypeOK, RunState

\* What each next local state says of the fields.
LEMMA NextTo ==
  ASSUME TypeOK, NEW r \in Runs, NEW step,
         run'[r] = To(r, step)
  PROVE  At(r, step) /\ KeepsSwap(r) /\ KeepsCycle(r)
<1>. QED
  BY Fields DEF At, KeepsSubject, KeepsSwap, KeepsCycle, To, Over

LEMMA NextOver ==
  ASSUME TypeOK, NEW r \in Runs, NEW step,
         run'[r] = Over(r, step)
  PROVE  At(r, "done")
<1>. QED
  BY Fields DEF At, KeepsSubject, KeepsSwap, KeepsCycle, To, Over

LEMMA NextOverTries ==
  ASSUME TypeOK, NEW r \in Runs, NEW step, NEW a,
         run'[r] = [Over(r, step) EXCEPT !.tries = a]
  PROVE  At(r, "done")
<1>. QED
  BY Fields DEF At, KeepsSubject, KeepsSwap, KeepsCycle, To, Over

LEMMA NextSame ==
  ASSUME TypeOK, NEW r \in Runs, NEW a,
         run'[r] = [run[r] EXCEPT !.tries = a] \/ run'[r] = [run[r] EXCEPT !.cand = a]
  PROVE  At(r, run[r].pc) /\ KeepsSwap(r) /\ KeepsCycle(r)
<1>. QED
  BY Fields DEF At, KeepsSubject, KeepsSwap, KeepsCycle, To, Over

LEMMA NextTries ==
  ASSUME TypeOK, NEW r \in Runs, NEW step, NEW a,
         run'[r] = [To(r, step) EXCEPT !.tries = a]
  PROVE  At(r, step) /\ KeepsSwap(r) /\ KeepsCycle(r)
<1>. QED
  BY Fields DEF At, KeepsSubject, KeepsSwap, KeepsCycle, To, Over

LEMMA NextTodo ==
  ASSUME TypeOK, NEW r \in Runs, NEW step, NEW a,
         run'[r] = [To(r, step) EXCEPT !.todo = a]
  PROVE  At(r, step) /\ KeepsSwap(r) /\ run'[r].old = run[r].old /\ run'[r].todo = a
<1>. QED
  BY Fields DEF At, KeepsSubject, KeepsSwap, KeepsCycle, To, Over

-----------------------------------------------------------------------------
(* The invariant: what there is in every phase of an undisturbed update r  *)
(* that found the owner's container o.                                     *)

Preparing == {"inspect", "pull", "hook", "list"}
Cleaning == {"posthook", "clean", "prune"}
Rejected == {"timeout", "crashed"}

\* The swap of r's subject, whose container is d.
SwapAt(r, d) ==
  /\ run[r].pc = "stop" => Steady(d)
  /\ run[r].pc \in {"probe", "rename"} => Down(d, Live(d[2]))
  /\ run[r].pc = "create" => Down(d, run[r].archive)
  /\ run[r].pc \in SwapSteps \ {"start"} => Replacement(r) \notin exists
  /\ run[r].pc = "start" => Split(d, run[r].archive, Replacement(r)) /\ ~up[Replacement(r)]

OwnerAt(r, o) ==
  /\ o[2] = Owner /\ o # New(r)
  /\ run[r].pc \in Preparing => Steady(o)
  /\ run[r].pc \in SwapSteps /\ run[r].verdict = "none" => SwapAt(r, o)
  /\ run[r].pc \in {"gate", "rbstop", "rbremove"} => Split(o, run[r].old, New(r))
  /\ run[r].pc = "rbrename" => Down(o, run[r].old)
  /\ run[r].pc = "rbstart" => Down(o, Live(Owner))
  /\ run[r].pc \in SwapSteps \cup RepairSteps \cup {"rmold"} /\ run[r].verdict = "healthy"
       => Split(o, run[r].old, New(r)) /\ up[New(r)]
  /\ run[r].pc \in Cleaning => Steady(New(r))
  /\ run[r].pc \in SwapSteps \cup RepairSteps /\ run[r].verdict \in Rejected => Steady(o)

\* The owner's container that the dependents are to be attached to.
Home(r, o) == IF run[r].verdict = "healthy" THEN New(r) ELSE o

\* The repair of r's subject, whose container is d: until it is re-created d waits
\* with the reference and the image it had.
SubjectAt(r, o, d) ==
  /\ d[2] = run[r].subject
  /\ run[r].pc \in {"rinspect", "rimage"} => Steady(d) /\ Replacement(r) \notin exists
  /\ run[r].pc \in SwapSteps => SwapAt(r, d)
  /\ run[r].pc = "rmarchive" => /\ Split(d, run[r].archive, Replacement(r))
                                /\ up[Replacement(r)] /\ ns[Replacement(r)] = Home(r, o)
  /\ run[r].pc = "rinspect" => joins[d] \in {o, ByName}
  /\ run[r].pc \in SwapSteps \cup {"rimage"} => run[r].network \in {Home(r, o), ByName}
  /\ run[r].pc \in {"start", "rmarchive"} => joins[Replacement(r)] \in {Home(r, o), ByName}
  /\ run[r].pc \in (SwapSteps \cup {"rimage"}) \ {"start"} => run[r].target = image[d]
  /\ run[r].pc = "rimage" => run[r].how = ref[d]
  /\ run[r].pc \in SwapSteps \ {"start"} =>
       IF run[r].how = "tag" THEN tag = run[r].target
       ELSE ref[d] = "id" \/ tag # run[r].target
  /\ run[r].pc \notin {"undoname", "undostart"}

\* Before the verdict, and in a rollback, no dependent has been touched.
Untouched(r, o) ==
  /\ \A n \in Others : Joined(n, o)
  /\ \A n \in Deps : <<r, n>> \notin exists
  /\ run[r].pc \in Preparing \cup {"stop"} => \A n \in Others : InSpace(n, o)
  /\ run[r].pc \notin Preparing => run[r].todo = Others

\* Afterwards they are repaired one by one.
Repairing(r, o) ==
  /\ run[r].todo \subseteq Others
  /\ \A n \in run[r].todo : Joined(n, o) /\ <<r, n>> \notin exists
  /\ \A n \in Others \ run[r].todo :
       (run[r].pc # "repair" /\ n = run[r].subject) \/ InSpace(n, Home(r, o))
  /\ run[r].pc # "repair" =>
       /\ run[r].subject \in Others \ run[r].todo
       /\ \E d \in Ids : SubjectAt(r, o, d)

DepsAt(r, o) ==
  /\ run[r].verdict = "none" \/ run[r].pc \in RollbackSteps => Untouched(r, o)
  /\ run[r].verdict # "none" /\ run[r].pc \in SwapSteps \cup RepairSteps => Repairing(r, o)
  /\ run[r].pc \in Cleaning \cup {"rmold"} => \A n \in Others : InSpace(n, New(r))

\* The images there are and the references the containers were created with.
Stock ==
  /\ \A c \in exists : image[c] \in store
  /\ tag \in store \cup {None}
  /\ \A c \in exists : c[2] = Owner => joins[c] = None /\ ref[c] = "tag"
  /\ \A c \in exists : c[2] \in Deps =>
       joins[c] = ByName \/ (joins[c] \in Ids /\ joins[c][2] = Owner)
  /\ \A c \in exists : c[2] \in OptOut => joins[c] = ByName /\ name[c] = Live(c[2])

\* What the update of r has at hand to re-create the owner with.
Supplied(r) ==
  /\ run[r].pc = "idle" => \A n \in ServiceNames : <<r, n>> \notin exists
  /\ run[r].verdict = "none" /\ run[r].pc \in {"pull", "hook", "list"} \cup SwapSteps
       => run[r].network = None /\ run[r].how = "tag"
  /\ run[r].verdict = "none" /\ run[r].pc \in {"hook", "list"} \cup SwapSteps => tag \in store

Calm(r, o) == Supplied(r) /\ OwnerAt(r, o) /\ DepsAt(r, o)

CalmInv ==
  ~oneShot /\ Undisturbed =>
    /\ Stock
    /\ \A r \in Runs : Supplied(r)
    /\ AllOver => \E o \in Ids : Settled(o)
    /\ \A r \in Runs : Active(r) => \E o \in Ids : Calm(r, o)

KilledOver == \A r \in Runs : run[r].outcome = "killed" => run[r].pc = "done"

\* A step either keeps the update in such a phase, or ends it with everything settled.
Proceeds(r, o) ==
  /\ Stock' /\ run'[r].pc # "idle"
  /\ \/ run'[r].pc # "done" /\ Calm(r, o)'
     \/ run'[r].pc = "done" /\ \E q \in Ids : Settled(q)'

-----------------------------------------------------------------------------
(* The steps that change no container.                                     *)

\* Preparing, the update does what it looked up on the owner's container o.
LEMMA PrepareStep ==
  ASSUME TypeOK, NamesSound, PhasesSound, ReplacementSound, Stock, ~oneShot, NEW r \in Runs, NEW o \in Ids, Calm(r, o),
         ~run'[r].faulted, Inspect(r) \/ Pull(r) \/ Hook(r) \/ ListDependents(r)
  PROVE  Proceeds(r, o)
<1>1. /\ run[r].pc \in Preparing /\ run[r].verdict = "none"
      /\ run[r].subject = Owner /\ o[2] = Owner /\ o # New(r)
  BY DEF Inspect, Pull, Hook, ListDependents, Preparing, PhasesSound, PhaseSound, Calm, OwnerAt
<1>2. /\ Steady(o) /\ Untouched(r, o) /\ \A n \in Others : InSpace(n, o)
      /\ Supplied(r) /\ o \in exists /\ Settled(o)
  BY <1>1 DEF Calm, OwnerAt, DepsAt, Untouched, Steady, Sole, Settled
<1>3. Named(Live(Owner)) = {o} /\ ~Free(Live(Owner))
  BY <1>1, <1>2, Holders DEF Free
\* It goes on in Preparing, or is over.
<1>4. ASSUME UNCHANGED <<exists, name, up, joins, ns>>, Stock', run'[r].pc = "done"
      PROVE  Proceeds(r, o)
  BY <1>2, <1>4, NothingMoved DEF Proceeds
<1>5. ASSUME UNCHANGED <<exists, name, up, joins, ns>>, Stock', Supplied(r)',
             run'[r].verdict = "none", run'[r].pc \in Preparing
      PROVE  Proceeds(r, o)
  <2>1. run'[r].pc \notin {"idle", "done", "gate", "rbstop", "rbremove", "rbrename", "rbstart"}
           \cup SwapSteps \cup RepairSteps \cup {"rmold"} \cup Cleaning \cup RollbackSteps
    BY <1>5 DEF Preparing, SwapSteps, RepairSteps, Cleaning, RollbackSteps
  <2>2. OwnerAt(r, o)'
    BY <1>1, <1>2, <1>5, <2>1, NothingMoved DEF OwnerAt, New
  <2>3. DepsAt(r, o)'
    BY <1>1, <1>2, <1>5, <2>1, NothingMoved DEF DepsAt, Untouched
  <2>. QED
    BY <1>5, <2>1, <2>2, <2>3 DEF Proceeds, Calm
<1>6. ASSUME UNCHANGED docker PROVE UNCHANGED <<exists, name, up, joins, ns>> /\ Stock'
  BY <1>6, <1>1 DEF docker, Stock
<1>7. CASE Inspect(r)
  <2>1. /\ UNCHANGED docker
        /\ run'[r] = [To(r, "pull") EXCEPT !.before = o, !.target = image[o], !.how = ref[o],
                                           !.network = joins[o], !.oldImage = image[o]]
    BY <1>3, <1>7, Answered
  <2>2. At(r, "pull") /\ run'[r].how = ref[o] /\ run'[r].network = joins[o]
    BY <2>1, Fields DEF At, To
  <2>3. Supplied(r)'
    BY <1>1, <1>2, <2>2 DEF Supplied, Stock, At, SwapSteps
  <2>. QED
    BY <1>1, <1>5, <1>6, <2>1, <2>2, <2>3 DEF At, Preparing
<1>8. CASE Pull(r)
  <2>1. ASSUME NEW i \in Images, PullImage(i), run'[r] = [To(r, "hook") EXCEPT !.tries = 0]
        PROVE  Proceeds(r, o)
    <3>1. UNCHANGED <<exists, name, up, joins, ns>> /\ tag' \in store'
      BY <2>1 DEF PullImage
    <3>2. Stock'
      BY <2>1 DEF PullImage, Stock
    <3>3. At(r, "hook") /\ KeepsSwap(r)
      BY <2>1, NextTries
    <3>4. Supplied(r)'
      BY <1>2, <1>8, <3>1, <3>3, <1>1 DEF Pull, Supplied, At, KeepsSwap, KeepsSubject
    <3>. QED
      BY <1>1, <1>5, <3>1, <3>2, <3>3, <3>4 DEF At, Preparing
  <2>2. CASE UNCHANGED docker /\ run'[r] = [run[r] EXCEPT !.tries = @ + 1]
    <3>1. At(r, run[r].pc) /\ KeepsSwap(r)
      BY <2>2, NextSame
    <3>2. Supplied(r)'
      BY <1>2, <2>2, <3>1 DEF docker, Supplied, At, KeepsSwap, KeepsSubject
    <3>. QED
      BY <1>1, <1>5, <1>6, <2>2, <3>1, <3>2 DEF At
  <2>3. CASE UNCHANGED docker /\ run'[r] = [Over(r, "error") EXCEPT !.tries = 0]
    BY <1>4, <1>6, <2>3, NextOverTries DEF At
  <2>. QED
    BY <1>8, <2>1, <2>2, <2>3, Answered
<1>9. CASE Hook(r)
  <2>1. UNCHANGED docker /\ (run'[r] = To(r, "list") \/ run'[r] = Over(r, "skipped"))
    BY <1>9 DEF Hook, Set, TypeOK
  <2>2. CASE run'[r] = To(r, "list")
    <3>1. At(r, "list") /\ KeepsSwap(r)
      BY <2>2, NextTo
    <3>2. Supplied(r)'
      BY <1>1, <1>2, <1>9, <2>1, <3>1 DEF Hook, docker, Supplied, At, KeepsSwap, KeepsSubject
    <3>. QED
      BY <1>1, <1>5, <1>6, <2>1, <3>1, <3>2 DEF At, Preparing
  <2>3. CASE run'[r] = Over(r, "skipped")
    BY <1>4, <1>6, <2>1, <2>3, NextOver DEF At
  <2>. QED
    BY <2>1, <2>2, <2>3
<1>10. CASE ListDependents(r)
  <2>1. UNCHANGED docker /\ run'[r] = [To(r, "stop") EXCEPT !.todo = NetworkDependents(o)]
    BY <1>3, <1>10, Answered
  \* All of them run, with a reference to o.
  <2>2. NetworkDependents(o) = Others
    BY <1>2 DEF NetworkDependents, Others, InSpace, Steady, Sole, Named
  <2>3. At(r, "stop") /\ KeepsSwap(r) /\ run'[r].todo = Others
    BY <2>1, <2>2, NextTodo
  <2>4. Supplied(r)'
    BY <1>1, <1>2, <1>10, <2>1, <2>3
    DEF ListDependents, docker, Supplied, At, KeepsSwap, KeepsSubject, SwapSteps
  <2>5. New(r) \notin exists
    BY <1>1, <1>10 DEF ListDependents, ReplacementSound
  <2>6. SwapAt(r, o)'
    BY <1>1, <1>2, <1>6, <2>1, <2>3, <2>5, NothingMoved
    DEF SwapAt, At, KeepsSwap, KeepsSubject, Replacement, New, docker
  <2>7. OwnerAt(r, o)'
    BY <1>1, <2>3, <2>6
    DEF OwnerAt, At, New, Preparing, SwapSteps, RepairSteps, Cleaning, Rejected
  <2>8. DepsAt(r, o)'
    BY <1>1, <1>2, <1>6, <2>1, <2>3, NothingMoved
    DEF DepsAt, Untouched, docker, At, Preparing, SwapSteps, RepairSteps, Cleaning, RollbackSteps
  <2>. QED
    BY <1>6, <2>1, <2>3, <2>4, <2>7, <2>8 DEF Proceeds, Calm, At
<1>. QED
  BY <1>7, <1>8, <1>9, <1>10

-----------------------------------------------------------------------------
(* The swap of r's subject, the owner or a dependent, with container d.    *)

\* Its first calls keep the container but for its name: it is stopped and archived.
LEMMA ArchiveStep ==
  ASSUME TypeOK, NamesSound, NEW r \in Runs, NEW d \in Ids, d[2] = run[r].subject, SwapAt(r, d),
         ~run'[r].faulted, Stop(r) \/ Probe(r) \/ Rename(r)
  PROVE  /\ SwapAt(r, d)' /\ Frame(d)
         /\ run'[r].pc \in {"probe", "rename", "create"} /\ run'[r].verdict = run[r].verdict
         /\ KeepsSubject(r) /\ KeepsCycle(r) /\ run'[r].how = run[r].how
         /\ UNCHANGED <<exists, image, ref, joins, tag, store>>
<1>1. /\ DockerTypeOK /\ run[r] \in RunState
      /\ SwapSteps = {"stop", "probe", "rename", "create", "start"}
  BY DEF TypeOK, SwapSteps
<1>2. UNCHANGED docker => Frame(d) /\ UNCHANGED <<exists, image, ref, joins, tag, store>>
  BY DEF docker, Frame
<1>3. CASE Stop(r)
  <2>1. Steady(d) /\ d \in exists /\ Replacement(r) \notin exists
    BY <1>1, <1>3 DEF Stop, SwapAt, Steady, Sole
  <2>2. StopContainer(d) /\ run'[r] = To(r, "probe")
    <3>1. Named(Live(run[r].subject)) = {d}
      BY <2>1, Holders
    <3>. QED
      BY <1>3, <3>1, Answered
  <2>3. At(r, "probe") /\ KeepsSwap(r) /\ KeepsCycle(r)
    BY <2>2, NextTo
  <2>4. Down(d, Live(d[2]))' /\ Frame(d)
    BY <1>1, <2>1, <2>2, Stopping, Framed
  <2>5. UNCHANGED <<exists, image, ref, joins, tag, store>>
    BY <2>2 DEF StopContainer
  <2>6. SwapAt(r, d)'
    BY <2>1, <2>3, <2>4, <2>5 DEF SwapAt, At, KeepsSwap, KeepsSubject, Replacement, SwapSteps
  <2>. QED
    BY <2>3, <2>4, <2>5, <2>6 DEF At, KeepsSwap
<1>4. CASE Probe(r)
  <2>1. Down(d, Live(d[2])) /\ Replacement(r) \notin exists
    BY <1>1, <1>4 DEF Probe, SwapAt
  <2>2. /\ UNCHANGED docker
        /\ run'[r] = To(r, "rename") \/ run'[r] = [run[r] EXCEPT !.cand = @ + 1]
    BY <1>4, Answered
  <2>3. /\ run'[r].pc \in {"probe", "rename"} /\ run'[r].verdict = run[r].verdict
        /\ KeepsSwap(r) /\ KeepsCycle(r)
    <3>1. CASE run'[r] = To(r, "rename")
      BY <3>1, NextTo DEF At
    <3>2. CASE run'[r] = [run[r] EXCEPT !.cand = @ + 1]
      BY <1>4, <3>2, NextSame DEF At, Probe
    <3>. QED
      BY <2>2, <3>1, <3>2
  <2>4. SwapAt(r, d)'
    BY <2>1, <2>2, <2>3, NothingMoved
    DEF SwapAt, KeepsSwap, KeepsSubject, Replacement, SwapSteps, docker
  <2>. QED
    BY <1>2, <2>2, <2>3, <2>4 DEF KeepsSwap
<1>5. CASE Rename(r)
  <2>1. Down(d, Live(d[2])) /\ d \in exists /\ Replacement(r) \notin exists
    BY <1>1, <1>5 DEF Rename, SwapAt, Down, Sole
  \* No archive of the service is there that the candidate could clash with.
  <2>2. Named(Live(d[2])) = {d} /\ Free(Candidate(r))
    <3>1. Candidate(r)[1] = d[2] /\ Candidate(r) # Live(d[2])
      BY <1>1 DEF Candidate, Live, RunState
    <3>. QED
      BY <2>1, <3>1, Holders DEF Down
  <2>3. /\ RenameContainer(d, Candidate(r))
        /\ run'[r] = [To(r, "create") EXCEPT !.archive = Candidate(r)]
    <3>1. Named(Live(run[r].subject)) = {d}
      BY <2>2
    <3>. QED
      BY <1>5, <2>2, <3>1, Answered
  <2>4. /\ At(r, "create") /\ KeepsSubject(r) /\ KeepsCycle(r)
        /\ run'[r].how = run[r].how /\ run'[r].archive = Candidate(r)
    BY <2>3, Fields DEF At, KeepsSubject, KeepsCycle, To
  <2>5. ASSUME NEW nm, RenameContainer(d, nm) PROVE Down(d, nm)' /\ Frame(d)
    BY <1>1, <2>1, <2>5, Renaming, Framed
  <2>6. UNCHANGED <<exists, image, ref, joins, tag, store>>
    BY <2>3 DEF RenameContainer
  <2>7. \A nm : RenameContainer(d, nm) /\ run'[r].archive = nm => Down(d, run[r].archive)'
    BY <2>5 DEF Down
  <2>8. SwapAt(r, d)'
    BY <2>1, <2>3, <2>4, <2>6, <2>7 DEF SwapAt, At, KeepsSubject, Replacement, SwapSteps
  <2>. QED
    BY <2>3, <2>4, <2>5, <2>6, <2>8 DEF At
<1>. QED
  BY <1>3, <1>4, <1>5

\* The replacement x is created next to the archive, from what was looked up.
LEMMA CreateStep ==
  ASSUME TypeOK, NamesSound, PhasesSound, NEW r \in Runs, NEW d \in Ids, d[2] = run[r].subject,
         NEW x \in Ids, x = Replacement(r),
         SwapAt(r, d), ~run'[r].faulted, Create(r), Resolved(run[r].how, run[r].target) \in store
  PROVE  /\ SwapAt(r, d)' /\ Frame(x) /\ At(r, "start") /\ KeepsSwap(r) /\ KeepsCycle(r)
         /\ exists' = exists \cup {x} /\ UNCHANGED <<tag, store>>
         /\ joins'[x] = run[r].network /\ ref'[x] = run[r].how
         /\ image'[x] = Resolved(run[r].how, run[r].target)
         /\ name'[x] = Live(d[2])
<1>1. /\ DockerTypeOK /\ run[r] \in RunState /\ x[2] = d[2] /\ d[2] = x[2]
      /\ Down(d, run[r].archive) /\ d \in exists /\ x \notin exists
  BY DEF TypeOK, RunState, Replacement, Ids, SwapAt, SwapSteps, Create, Down, Sole
\* The live name is free: the one container of the service is archived.
<1>2. Free(Live(d[2]))
  <2>1. name[d] # Live(d[2])
    <3>1. run[r].archive \in Names \cup {None} /\ None \notin Names /\ name[d] \in Names
      BY <1>1, ReferenceAssumption DEF RunState, DockerTypeOK
    <3>2. run[r].archive # None /\ run[r].archive = name[d]
      BY <1>1, <3>1 DEF Down
    <3>3. run[r].archive[2] # 0
      BY <3>2 DEF PhasesSound, PhaseSound
    <3>. QED
      BY <3>2, <3>3 DEF Live
  <2>. QED
    BY <1>1, <2>1, Holders DEF Down, Live
<1>3. CanCreate(x, Live(d[2]), run[r].how, run[r].target)
  BY <1>1, <1>2 DEF CanCreate
<1>4. /\ CreateContainer(x, Live(x[2]), run[r].how, run[r].target, run[r].network)
      /\ run'[r] = To(r, "start")
  BY <1>1, <1>3, Answered
<1>5. At(r, "start") /\ KeepsSwap(r) /\ KeepsCycle(r)
  BY <1>4, NextTo
<1>6. Frame(x) /\ tag' = tag /\ store' = store
  BY <1>1, <1>4, Framed
<1>7. ASSUME NEW nm, nm = run[r].archive
      PROVE  /\ Split(d, nm, x)' /\ ~up'[x]
             /\ joins'[x] = run[r].network /\ ref'[x] = run[r].how
             /\ image'[x] = Resolved(run[r].how, run[r].target)
  <2>1. Down(d, nm)
    BY <1>1, <1>7
  <2>2. d # x
    BY <1>1
  <2>3. Split(d, nm, x)' /\ ~up'[x]
    BY <1>1, <1>4, <2>1, <2>2 DEF DockerTypeOK, CreateContainer, Sole, Down, Split
  <2>4. /\ joins'[x] = run[r].network /\ ref'[x] = run[r].how
        /\ image'[x] = Resolved(run[r].how, run[r].target)
    BY <1>1, <1>4 DEF DockerTypeOK, CreateContainer
  <2>. QED
    BY <2>3, <2>4
<1>8. exists' = exists \cup {x} /\ name'[x] = Live(d[2])
  BY <1>1, <1>4 DEF CreateContainer, DockerTypeOK
<1>9. Replacement(r)' = x /\ run'[r].archive = run[r].archive
  BY <1>5 DEF KeepsSwap, KeepsSubject, Replacement
<1>10. SwapAt(r, d)'
  <2>1. \A nm : nm = run'[r].archive => Split(d, nm, x)' /\ ~up'[x]
    BY <1>7, <1>9
  <2>2. Split(d, run[r].archive, Replacement(r))' /\ ~up'[x]
    BY <1>9, <2>1 DEF Split
  <2>. QED
    BY <1>5, <1>9, <2>2 DEF SwapAt, At, SwapSteps
<1>. QED
  BY <1>4, <1>5, <1>6, <1>7, <1>8, <1>10

\* It is started, if it can be.
LEMMA StartStep ==
  ASSUME TypeOK, NEW r \in Runs, NEW d \in Ids, d[2] = run[r].subject,
         NEW x \in Ids, x = Replacement(r),
         SwapAt(r, d), ~run'[r].faulted, Start(r), CanStart(x)
  PROVE  /\ Split(d, run[r].archive, x) /\ ~up[x]
         /\ Split(d, run[r].archive, x)' /\ Frame(x)
         /\ UNCHANGED <<exists, name, image, ref, joins, tag, store>> /\ up'[x]
         /\ joins[x] # None => \E t \in Referenced(joins[x]) : ns'[x] = t
         /\ run'[r].verdict = run[r].verdict /\ KeepsSwap(r) /\ run'[r].todo = run[r].todo
         /\ IF run[r].subject = Owner
              THEN run'[r].pc = "gate" /\ run'[r].old = run[r].archive
              ELSE run'[r].pc = "rmarchive" /\ run'[r].old = run[r].old
<1>1. /\ DockerTypeOK /\ Split(d, run[r].archive, x) /\ ~up[x]
  BY DEF TypeOK, SwapAt, Start
<1>2. StartContainer(x) /\ IF run[r].subject = Owner
                             THEN run'[r] = [To(r, "gate") EXCEPT !.old = run[r].archive]
                             ELSE run'[r] = To(r, "rmarchive")
  BY Answered
<1>3. /\ run'[r].verdict = run[r].verdict /\ KeepsSwap(r) /\ run'[r].todo = run[r].todo
      /\ IF run[r].subject = Owner
           THEN run'[r].pc = "gate" /\ run'[r].old = run[r].archive
           ELSE run'[r].pc = "rmarchive" /\ run'[r].old = run[r].old
  <2>1. CASE run[r].subject = Owner
    BY <1>2, <2>1, Fields DEF To, KeepsSwap, KeepsSubject
  <2>2. CASE run[r].subject # Owner
    BY <1>2, <2>2, NextTo DEF At, KeepsCycle
  <2>. QED
    BY <2>1, <2>2
<1>4. /\ Frame(x) /\ up'[x]
      /\ joins[x] # None => \E t \in Referenced(joins[x]) : ns'[x] = t
  BY <1>1, <1>2, Framed, Starting
<1>5. ASSUME NEW nm, nm = run[r].archive PROVE Split(d, nm, x)'
  BY <1>1, <1>2, <1>5, Starting
<1>6. Split(d, run[r].archive, x)'
  BY <1>3, <1>5 DEF KeepsSwap, Split
<1>7. UNCHANGED <<exists, name, image, ref, joins, tag, store>>
  BY <1>2 DEF StartContainer
<1>. QED
  BY <1>1, <1>3, <1>4, <1>6, <1>7

\* The owner's swap: the dependents lose its namespace, and are otherwise left alone.
LEMMA OwnerSwapStep ==
  ASSUME TypeOK, TypeOK', NamesSound, PhasesSound, Stock, ~oneShot, NEW r \in Runs, NEW o \in Ids,
         Calm(r, o), ~run'[r].faulted, run[r].verdict = "none",
         Stop(r) \/ Probe(r) \/ Rename(r) \/ Create(r) \/ Start(r)
  PROVE  Proceeds(r, o)
<1>. DEFINE x == New(r)
<1>1. /\ run[r].pc \in SwapSteps /\ run[r].subject = Owner /\ o[2] = run[r].subject
      /\ o[2] = Owner /\ o # x
      /\ Owner \notin Deps /\ Owner \notin Others /\ Owner \notin OptOut
      /\ x \in Ids /\ x[2] = Owner /\ x = Replacement(r)
      /\ DockerTypeOK /\ exists \subseteq Ids /\ exists' \subseteq Ids
  BY DaemonAssumption, CycleAssumption
  DEF Stop, Probe, Rename, Create, Start, SwapSteps, PhasesSound, PhaseSound, Calm, OwnerAt,
      Others, New, Replacement, Ids, ServiceNames, TypeOK, DockerTypeOK
<1>2. SwapAt(r, o) /\ Untouched(r, o) /\ Supplied(r) /\ run[r].pc \notin Preparing
  BY <1>1 DEF Calm, OwnerAt, DepsAt, SwapSteps, Preparing
<1>3. run[r].network = None /\ run[r].how = "tag" /\ tag \in store
  BY <1>1, <1>2 DEF Supplied
\* What is left to show of a call on a container c of the owner.
<1>4. ASSUME NEW c \in {o, x}, Frame(c), exists' \subseteq exists \cup {x},
             run'[r].verdict = "none", run'[r].todo = run[r].todo,
             run'[r].pc \in {"probe", "rename", "create", "start", "gate"}
      PROVE  DepsAt(r, o)'
  <2>1. \A n \in Others : Joined(n, o)'
    BY <1>1, <1>2, <1>4, Elsewhere DEF Untouched
  <2>2. \A n \in Deps : <<r, n>> \notin exists'
    BY <1>1, <1>2, <1>4 DEF Untouched, New
  <2>. QED
    BY <1>2, <1>4, <2>1, <2>2
    DEF DepsAt, Untouched, Preparing, SwapSteps, RepairSteps, Cleaning, RollbackSteps
<1>5. ASSUME SwapAt(r, o)', run'[r].verdict = "none",
             run'[r].pc \in {"probe", "rename", "create", "start"}
      PROVE  OwnerAt(r, o)'
  BY <1>1, <1>5 DEF OwnerAt, New, Preparing, SwapSteps, RepairSteps, Cleaning, Rejected
<1>6. ASSUME KeepsSubject(r), run'[r].how = run[r].how, tag' = tag, store' = store,
             run'[r].pc \in {"probe", "rename", "create", "start", "gate"}
      PROVE  Supplied(r)'
  BY <1>3, <1>6 DEF Supplied, KeepsSubject
<1>7. CASE Stop(r) \/ Probe(r) \/ Rename(r)
  <2>1. /\ SwapAt(r, o)' /\ Frame(o)
        /\ run'[r].pc \in {"probe", "rename", "create"} /\ run'[r].verdict = "none"
        /\ KeepsSubject(r) /\ run'[r].todo = run[r].todo /\ run'[r].how = run[r].how
        /\ UNCHANGED <<exists, image, ref, joins, tag, store>>
    BY <1>1, <1>2, <1>7, ArchiveStep DEF KeepsCycle
  <2>2. Stock'
    BY <1>1, <2>1 DEF Stock, Frame
  <2>. QED
    BY <1>4, <1>5, <1>6, <2>1, <2>2 DEF Proceeds, Calm
<1>8. CASE Create(r)
  <2>1. Resolved(run[r].how, run[r].target) = tag
    BY <1>3 DEF Resolved
  <2>2. /\ SwapAt(r, o)' /\ Frame(x) /\ At(r, "start") /\ KeepsSwap(r) /\ KeepsCycle(r)
        /\ exists' = exists \cup {x} /\ UNCHANGED <<tag, store>>
        /\ joins'[x] = None /\ ref'[x] = "tag" /\ image'[x] = tag
    BY <1>1, <1>2, <1>3, <1>8, <2>1, CreateStep
  <2>3. Stock'
    <3>1. \A c \in exists' : c = x \/ (c \in exists /\ c \in Ids \ {x})
      BY <1>1, <2>2
    <3>. QED
      BY <1>1, <1>3, <2>2, <3>1 DEF Stock, Frame
  <2>. QED
    BY <1>4, <1>5, <1>6, <2>2, <2>3 DEF Proceeds, Calm, At, KeepsSwap, KeepsCycle
<1>9. CASE Start(r)
  <2>1. Split(o, run[r].archive, x) /\ CanStart(x)
    <3>1. Split(o, run[r].archive, x)
      BY <1>1, <1>2, <1>9 DEF Start, SwapAt
    <3>. QED
      BY <1>1, <3>1 DEF Split, CanStart, Stock
  <2>2. /\ Split(o, run[r].archive, x)' /\ Frame(x) /\ up'[x]
        /\ UNCHANGED <<exists, name, image, ref, joins, tag, store>>
        /\ run'[r].verdict = "none" /\ KeepsSwap(r) /\ run'[r].todo = run[r].todo
        /\ run'[r].pc = "gate" /\ run'[r].old = run[r].archive
    BY <1>1, <1>2, <1>9, <2>1, StartStep
  <2>3. Stock'
    BY <2>2 DEF Stock
  <2>4. OwnerAt(r, o)'
    <3>1. Split(o, run[r].old, New(r))'
      BY <2>2 DEF Split, New, KeepsSwap
    <3>. QED
      BY <1>1, <2>2, <3>1 DEF OwnerAt, New, Preparing, SwapSteps, RepairSteps, Cleaning
  <2>. QED
    BY <1>4, <1>6, <2>2, <2>3, <2>4 DEF Proceeds, Calm, KeepsSwap
<1>. QED
  BY <1>7, <1>8, <1>9

-----------------------------------------------------------------------------
(* The verdict, and the rollback after a bad one.                          *)

LEMMA VerdictStep ==
  ASSUME TypeOK, PhasesSound, Stock, ~oneShot, NEW r \in Runs, NEW o \in Ids, Calm(r, o),
         Gate(r)
  PROVE  Proceeds(r, o)
<1>1. /\ run[r].pc = "gate" /\ run[r].verdict = "none" /\ UNCHANGED docker
      /\ o[2] = Owner /\ o # New(r)
  BY DEF Gate, Accept, Reject, PhasesSound, PhaseSound, Calm, OwnerAt
<1>2. UNCHANGED <<exists, name, up, joins, ns>> /\ Stock'
  BY <1>1 DEF docker, Stock
<1>3. Split(o, run[r].old, New(r)) /\ Untouched(r, o) /\ run[r].todo = Others
  BY <1>1 DEF Calm, OwnerAt, DepsAt, Untouched, Preparing
<1>4. run'[r].pc \notin {"pull", "hook", "list", "idle"} \cup SwapSteps => Supplied(r)'
  BY DEF Supplied, SwapSteps
<1>5. CASE up[New(r)] /\ run'[r] = [To(r, "repair") EXCEPT !.verdict = "healthy"]
  <2>1. /\ run'[r].pc = "repair" /\ run'[r].verdict = "healthy"
        /\ run'[r].old = run[r].old /\ run'[r].todo = run[r].todo
    BY <1>5, Fields DEF To
  <2>2. OwnerAt(r, o)'
    <3>1. Split(o, run[r].old, New(r))'
      BY <1>2, <1>3, <2>1 DEF Split, New
    <3>. QED
      BY <1>1, <1>2, <1>5, <2>1, <3>1
      DEF OwnerAt, New, Preparing, SwapSteps, RepairSteps, Cleaning, Rejected
  <2>3. DepsAt(r, o)'
    <3>1. run'[r].pc \notin RollbackSteps \cup Cleaning \cup {"rmold"}
      BY <2>1 DEF RollbackSteps, Cleaning
    <3>2. Others \subseteq Deps
      BY DEF Others
    <3>3. Repairing(r, o)'
      BY <1>2, <1>3, <2>1, <3>2, NothingMoved DEF Repairing, Untouched
    <3>. QED
      BY <2>1, <3>1, <3>3 DEF DepsAt
  <2>. QED
    BY <1>2, <1>4, <2>1, <2>2, <2>3 DEF Proceeds, Calm, SwapSteps
<1>6. CASE \E v \in Rejected : run'[r] = [To(r, "rbstop") EXCEPT !.verdict = v]
  <2>1. /\ run'[r].pc = "rbstop" /\ run'[r].verdict \in Rejected
        /\ run'[r].old = run[r].old /\ run'[r].todo = run[r].todo
    BY <1>6, Fields DEF To
  <2>2. OwnerAt(r, o)'
    <3>1. Split(o, run[r].old, New(r))'
      BY <1>2, <1>3, <2>1 DEF Split, New
    <3>. QED
      BY <1>1, <1>2, <2>1, <3>1 DEF OwnerAt, New, Preparing, SwapSteps, RepairSteps, Cleaning
  <2>3. DepsAt(r, o)'
    BY <1>2, <1>3, <2>1, NothingMoved
    DEF DepsAt, Untouched, Preparing, SwapSteps, RepairSteps, Cleaning
  <2>. QED
    BY <1>2, <1>4, <2>1, <2>2, <2>3 DEF Proceeds, Calm, SwapSteps
<1>. QED
  <2>1. \A t : Set(r, t) => run'[r] = t
    BY Fields DEF Set
  <2>. QED
    BY <1>5, <1>6, <2>1, ZenonT(40) DEF Gate, Accept, Reject, Rejected

LEMMA RollbackStep ==
  ASSUME TypeOK, TypeOK', NamesSound, PhasesSound, Stock, ~oneShot, NEW r \in Runs, NEW o \in Ids,
         Calm(r, o), ~run'[r].faulted,
         RollbackStop(r) \/ RollbackRemove(r) \/ RollbackRename(r) \/ RollbackStart(r)
  PROVE  Proceeds(r, o)
<1>. DEFINE x == New(r)
<1>1. /\ run[r].pc \in RollbackSteps /\ run[r].verdict \in Rejected
      /\ o[2] = Owner /\ o # x
      /\ Owner \notin Deps /\ Owner \notin Others /\ Owner \notin OptOut
      /\ x \in Ids /\ x[2] = Owner /\ x # o /\ Others \subseteq Deps
      /\ DockerTypeOK /\ exists \subseteq Ids /\ exists' \subseteq Ids
  BY DaemonAssumption, CycleAssumption
  DEF RollbackStop, RollbackRemove, RollbackRename, RollbackStart, RollbackSteps, Rejected,
      PhasesSound, PhaseSound, Calm, OwnerAt, Others, New, Ids, ServiceNames, TypeOK, DockerTypeOK
<1>2. Untouched(r, o) /\ run[r].todo = Others
  BY <1>1 DEF Calm, DepsAt, Untouched, RollbackSteps, Preparing
<1>3. /\ run[r].old # Live(Owner) \/ run[r].old = None
      /\ run[r].old \in Names \cup {None}
  BY DEF TypeOK, RunState, PhasesSound, PhaseSound, Live
\* What is left to show of a call on a container c of the owner.
<1>5. ASSUME NEW c \in {o, x}, Frame(c), exists' \subseteq exists,
             At(r, run'[r].pc), KeepsCycle(r), run'[r].pc \in RollbackSteps \cup {"repair"}
      PROVE  DepsAt(r, o)'
  <2>1. \A n \in Others : Joined(n, o)'
    BY <1>1, <1>2, <1>5, Elsewhere DEF Untouched
  <2>2. \A n \in Deps : <<r, n>> \notin exists'
    BY <1>2, <1>5 DEF Untouched
  <2>3. run'[r].todo = Others /\ run'[r].verdict \in Rejected
    BY <1>1, <1>2, <1>5 DEF At, KeepsCycle
  <2>4. Untouched(r, o)'
    BY <1>5, <2>1, <2>2, <2>3 DEF Untouched, RollbackSteps, Preparing
  <2>5. run'[r].pc = "repair" => Repairing(r, o)'
    BY <1>1, <2>1, <2>2, <2>3 DEF Repairing
  <2>. QED
    BY <1>5, <2>3, <2>4, <2>5
    DEF DepsAt, SwapSteps, RepairSteps, Cleaning, RollbackSteps, Rejected
<1>6. ASSUME KeepsCycle(r), At(r, run'[r].pc), DepsAt(r, o)', Stock',
             \/ run'[r].pc = "rbremove" /\ Split(o, run[r].old, x)'
             \/ run'[r].pc = "rbrename" /\ Down(o, run[r].old)'
             \/ run'[r].pc = "rbstart" /\ Down(o, Live(Owner))'
             \/ run'[r].pc = "repair" /\ Steady(o)'
      PROVE  Proceeds(r, o)
  <2>1. run'[r].verdict \in Rejected /\ run'[r].verdict \notin {"none", "healthy"}
    BY <1>1, <1>6 DEF At, Rejected
  <2>2. OwnerAt(r, o)'
    BY <1>1, <1>6, <2>1 DEF OwnerAt, New, Preparing, SwapSteps, RepairSteps, Cleaning
  <2>. QED
    BY <1>6, <2>1, <2>2 DEF Proceeds, Calm, Supplied
<1>7. CASE RollbackStop(r)
  <2>1. Split(o, run[r].old, x) /\ x \in exists
    BY <1>7 DEF RollbackStop, Calm, OwnerAt, Split
  <2>2. run'[r] = To(r, "rbremove") /\ StopContainer(x)
    BY <1>7, <2>1, RepairAnswered
  <2>3. At(r, "rbremove") /\ KeepsCycle(r)
    BY <2>2, NextTo
  <2>4. Split(o, run[r].old, x)'
    <3>1. \A nm : Split(o, nm, x) => Split(o, nm, x)'
      BY <1>1, <2>2, Stopping
    <3>. QED
      BY <2>1, <2>3, <3>1 DEF KeepsCycle, Split
  <2>5. Stock' /\ exists' = exists
    BY <2>2 DEF StopContainer, Stock
  <2>. QED
    BY <1>1, <1>5, <1>6, <2>2, <2>3, <2>4, <2>5, Framed DEF At, RollbackSteps
<1>8. CASE RollbackRemove(r)
  <2>1. Split(o, run[r].old, x) /\ x \in exists
    BY <1>8 DEF RollbackRemove, Calm, OwnerAt, Split
  <2>2. run'[r] = To(r, "rbrename") /\ RemoveContainer(x)
    BY <1>8, <2>1, RepairAnswered
  <2>3. At(r, "rbrename") /\ KeepsCycle(r)
    BY <2>2, NextTo
  <2>4. Down(o, run[r].old)'
    <3>1. \A nm : Split(o, nm, x) => Down(o, nm)'
      BY <1>1, <2>2, Removing
    <3>. QED
      BY <2>1, <2>3, <3>1 DEF KeepsCycle, Down
  <2>5. Stock' /\ exists' \subseteq exists
    BY <2>2 DEF RemoveContainer, Stock
  <2>. QED
    BY <1>1, <1>5, <1>6, <2>2, <2>3, <2>4, <2>5, Framed DEF At, RollbackSteps
<1>9. CASE RollbackRename(r)
  <2>1. Down(o, run[r].old) /\ o \in exists
    BY <1>9 DEF RollbackRename, Calm, OwnerAt, Down, Sole
  <2>2. Named(run[r].old) = {o} /\ Free(Live(Owner))
    <3>1. name[o] = run[r].old /\ name[o] \in Names /\ None \notin Names
      BY <1>1, <2>1, ReferenceAssumption DEF Down, DockerTypeOK
    <3>2. name[o] # Live(Owner) /\ Live(Owner)[1] = o[2]
      BY <1>1, <1>3, <3>1 DEF Live
    <3>. QED
      BY <2>1, <3>1, <3>2, Holders DEF Down
  <2>3. run'[r] = To(r, "rbstart") /\ RenameContainer(o, Live(Owner))
    BY <1>9, <2>2, RepairAnswered DEF Free
  <2>4. At(r, "rbstart") /\ KeepsCycle(r)
    BY <2>3, NextTo
  <2>5. Down(o, Live(Owner))'
    <3>1. \A nm : Down(o, nm) => Down(o, Live(Owner))'
      BY <1>1, <2>3, Renaming
    <3>. QED
      BY <2>1, <3>1
  <2>6. Stock' /\ exists' = exists
    BY <1>1, <2>3 DEF RenameContainer, Stock, DockerTypeOK
  <2>. QED
    BY <1>1, <1>5, <1>6, <2>3, <2>4, <2>5, <2>6, Framed DEF At, RollbackSteps
<1>10. CASE RollbackStart(r)
  <2>1. Down(o, Live(Owner)) /\ o \in exists
    BY <1>10 DEF RollbackStart, Calm, OwnerAt, Down, Sole
  <2>2. Named(Live(Owner)) = {o} /\ CanStart(o)
    <3>1. Named(Live(Owner)) = {o}
      BY <2>1, Holders DEF Down
    <3>. QED
      BY <1>1, <2>1, <3>1 DEF CanStart, Stock
  <2>3. run'[r] = To(r, "repair") /\ StartContainer(o)
    BY <1>10, <2>2, RepairAnswered
  <2>4. At(r, "repair") /\ KeepsCycle(r)
    BY <2>3, NextTo
  <2>5. Steady(o)'
    BY <1>1, <2>1, <2>3, Starting
  <2>6. Stock' /\ exists' = exists
    BY <2>3 DEF StartContainer, Stock
  <2>. QED
    BY <1>1, <1>5, <1>6, <2>3, <2>4, <2>5, <2>6, Framed DEF At, RollbackSteps
<1>. QED
  BY <1>7, <1>8, <1>9, <1>10

-----------------------------------------------------------------------------
(* The repair of the dependents.                                           *)

\* Where the owner is while its dependents are repaired.
OwnerHome(r, o) ==
  IF run[r].verdict = "healthy" THEN Split(o, run[r].old, New(r)) /\ up[New(r)]
  ELSE Steady(o)

\* What all repair steps start from, and what is left to show of them.
LEMMA RepairFooting ==
  ASSUME TypeOK, PhasesSound, NEW r \in Runs, NEW o \in Ids, Calm(r, o),
         run[r].pc \in RepairSteps \cup SwapSteps, run[r].verdict # "none"
  PROVE  /\ run[r].verdict \in Rejected \cup {"healthy"}
         /\ Home(r, o) \in Ids /\ Home(r, o)[2] = Owner /\ Home(r, o) \notin {None, ByName}
         /\ o[2] = Owner /\ o # New(r) /\ OwnerHome(r, o)
         /\ Repairing(r, o)
         /\ Others \subseteq Deps /\ Owner \notin Others /\ Others \cap OptOut = {}
         /\ DockerTypeOK /\ exists \subseteq Ids
         /\ OwnerHome(r, o)' /\ DepsAt(r, o)' /\ Stock'
              /\ run'[r].verdict = run[r].verdict /\ run'[r].pc \in RepairSteps \cup SwapSteps
              => Proceeds(r, o)
         /\ run'[r].pc \in RepairSteps \cup SwapSteps /\ run'[r].verdict = run[r].verdict
              /\ Repairing(r, o)' => DepsAt(r, o)'
<1>. DEFINE Phases == RepairSteps \cup SwapSteps
<1>1. run[r].verdict \in Rejected \cup {"healthy"}
  BY DEF TypeOK, RunState, Verdicts, Rejected
<1>2. /\ o[2] = Owner /\ o # New(r) /\ Owner \notin Deps
      /\ Others \subseteq Deps /\ Owner \notin Others /\ Others \cap OptOut = {}
  BY DaemonAssumption DEF Calm, OwnerAt, Others
<1>3. Home(r, o) \in Ids /\ Home(r, o)[2] = Owner /\ Home(r, o) \notin {None, ByName}
  BY <1>2, ReferenceAssumption DEF Home, New, Ids, ServiceNames
<1>4. OwnerHome(r, o) /\ Repairing(r, o)
  BY <1>1 DEF Calm, OwnerAt, DepsAt, OwnerHome, Rejected
<1>5. \A pc \in Phases :
        pc \notin Preparing \cup RollbackSteps \cup Cleaning \cup {"gate", "rmold", "idle", "done"}
  BY DEF Preparing, RepairSteps, SwapSteps, RollbackSteps, Cleaning
<1>6. ASSUME OwnerHome(r, o)', DepsAt(r, o)', Stock',
             run'[r].verdict = run[r].verdict, run'[r].pc \in Phases
      PROVE  Proceeds(r, o)
  <2>1. OwnerAt(r, o)'
    BY <1>1, <1>2, <1>5, <1>6 DEF OwnerAt, OwnerHome, New, Rejected, RollbackSteps
  <2>. QED
    BY <1>1, <1>5, <1>6, <2>1 DEF Proceeds, Calm, Supplied, Rejected
<1>7. ASSUME run'[r].pc \in Phases, run'[r].verdict = run[r].verdict, Repairing(r, o)'
      PROVE  DepsAt(r, o)'
  BY <1>1, <1>5, <1>7 DEF DepsAt, Rejected
<1>. QED
  BY <1>1, <1>2, <1>3, <1>4, <1>6, <1>7 DEF TypeOK, DockerTypeOK

\* A step of the repair that changes no container.
LEMMA LookStep ==
  ASSUME TypeOK, NamesSound, PhasesSound, Stock, NEW r \in Runs, NEW o \in Ids,
         NEW h \in Ids, h = Home(r, o), Calm(r, o), ~run'[r].faulted,
         RepairNext(r) \/ RepairsOver(r) \/ RepairInspect(r) \/ RepairImage(r)
  PROVE  Proceeds(r, o)
<1>1. run[r].pc \in RepairSteps /\ run[r].verdict # "none" /\ UNCHANGED docker
  BY DEF RepairNext, RepairsOver, RepairInspect, RepairImage, RepairSteps, PhasesSound, PhaseSound,
         ReadFails
<1>2. /\ h \in Ids /\ h[2] = Owner /\ h \notin {None, ByName} /\ o[2] = Owner /\ o # New(r)
      /\ OwnerHome(r, o) /\ Repairing(r, o) /\ Others \subseteq Deps
  BY <1>1, RepairFooting
<1>3. UNCHANGED <<exists, name, up, joins, ns>> /\ Stock'
  BY <1>1 DEF docker, Stock
<1>4. run'[r].verdict = run[r].verdict => Home(r, o)' = h
  BY DEF Home, New
<1>12. /\ \A n : InSpace(n, h)' = InSpace(n, h) /\ Joined(n, o)' = Joined(n, o)
       /\ \A d \in Ids : Steady(d)' = Steady(d)
  BY <1>3, NothingMoved
<1>13. \A m \in Others \ run[r].todo :
         (run[r].pc # "repair" /\ m = run[r].subject) \/ InSpace(m, h)
  BY <1>2 DEF Repairing
\* It goes on with the next step of the repair.
<1>5. ASSUME run'[r].verdict = run[r].verdict, run'[r].old = run[r].old,
             run'[r].pc \in RepairSteps \cup SwapSteps, Repairing(r, o)'
      PROVE  Proceeds(r, o)
  <2>1. OwnerHome(r, o)'
    BY <1>2, <1>3, <1>5 DEF OwnerHome, Split, Steady, Sole, New
  <2>. QED
    BY <1>1, <1>3, <1>5, <2>1, RepairFooting
<1>6. CASE RepairNext(r)
  <2>1. PICK n \in run[r].todo : run'[r] =
          [To(r, "rinspect") EXCEPT !.subject = n, !.todo = @ \ {n}, !.cand = 0, !.archive = None]
    BY <1>6, RepairAnswered
  <2>2. /\ run'[r].pc = "rinspect" /\ run'[r].verdict = run[r].verdict /\ run'[r].old = run[r].old
        /\ run'[r].subject = n /\ run'[r].todo = run[r].todo \ {n}
    BY <2>1, Fields DEF To
  <2>3. \A m \in run[r].todo : Joined(m, o)' /\ <<r, m>> \notin exists'
    BY <1>2, <1>3, NothingMoved DEF Repairing
  <2>4. \E d \in Ids : SubjectAt(r, o, d)'
    <3>1. PICK d \in Ids : d[2] = n /\ Steady(d)' /\ joins'[d] \in {o, ByName}
      BY <2>3 DEF Joined
    <3>2. Replacement(r)' \notin exists'
      BY <2>2, <2>3 DEF Replacement
    <3>. QED
      BY <2>2, <3>1, <3>2 DEF SubjectAt, SwapSteps
  <2>5. \A m \in Others \ run[r].todo : InSpace(m, h)'
    BY <1>6, <1>12, <1>13 DEF RepairNext
  <2>6. Repairing(r, o)'
    BY <1>2, <1>4, <2>2, <2>3, <2>4, <2>5 DEF Repairing, InSpace
  <2>. QED
    BY <1>5, <2>2, <2>6 DEF RepairSteps
<1>7. CASE RepairsOver(r)
  <2>1. run[r].pc = "repair" /\ run[r].todo = {} /\ \A n \in Others : InSpace(n, h)
    BY <1>7, <1>13 DEF RepairsOver
  <2>2. \A n \in Others : InSpace(n, h)'
    BY <1>12, <2>1
  <2>3. CASE run[r].verdict = "healthy" /\ run'[r] = To(r, "rmold")
    <3>1. run'[r].pc = "rmold" /\ run'[r].verdict = "healthy" /\ run'[r].old = run[r].old
      BY <2>3, NextTo DEF At, KeepsCycle
    <3>2. OwnerAt(r, o)'
      BY <1>2, <1>3, <2>3, <3>1
      DEF OwnerAt, OwnerHome, Split, New, Preparing, SwapSteps, RepairSteps, Cleaning
    <3>3. DepsAt(r, o)'
      BY <2>2, <2>3, <3>1 DEF DepsAt, Home, New, SwapSteps, RepairSteps, RollbackSteps
    <3>. QED
      BY <1>3, <3>1, <3>2, <3>3 DEF Proceeds, Calm, Supplied
  <2>4. CASE run[r].verdict # "healthy" /\ run'[r] = Over(r, "rolledback")
    <3>1. run'[r].pc = "done" /\ h = o
      BY <2>4, NextOver DEF At, Home
    <3>2. Steady(o)'
      BY <1>2, <1>12, <2>4 DEF OwnerHome
    <3>3. h = o /\ (\A n \in Others : InSpace(n, h)') => Settled(o)'
      BY <1>2, <3>2 DEF Settled, InSpace
    <3>. QED
      BY <1>3, <2>2, <3>1, <3>3 DEF Proceeds
  <2>5. \A t : Set(r, t) => run'[r] = t
    BY Fields DEF Set
  <2>. QED
    BY <1>7, <2>3, <2>4, <2>5, ZenonT(40) DEF RepairsOver
\* The dependent's own container is looked at.
<1>8. ASSUME run[r].pc # "repair" PROVE
        /\ run[r].subject \in Others \ run[r].todo
        /\ \E d \in Ids : SubjectAt(r, o, d)
        /\ \A m \in run[r].todo : Joined(m, o)' /\ <<r, m>> \notin exists'
        /\ \A m \in Others \ run[r].todo : m = run[r].subject \/ InSpace(m, h)'
  BY <1>2, <1>3, <1>8, <1>12, <1>13 DEF Repairing
<1>9. ASSUME NEW d \in Ids, SubjectAt(r, o, d)', run'[r].subject = run[r].subject,
             run[r].pc # "repair", KeepsCycle(r), run'[r].verdict = run[r].verdict,
             run'[r].pc \in {"rimage", "stop"}
      PROVE  Proceeds(r, o)
  <2>1. \A m \in Others \ run[r].todo : m = run[r].subject \/ InSpace(m, Home(r, o))'
    BY <1>4, <1>8, <1>9 DEF InSpace
  <2>2. Repairing(r, o)'
    BY <1>2, <1>8, <1>9, <2>1 DEF Repairing, KeepsCycle
  <2>. QED
    BY <1>5, <1>9, <2>2 DEF KeepsCycle, RepairSteps, SwapSteps
<1>10. CASE RepairInspect(r)
  <2>1. run[r].pc = "rinspect"
    BY <1>10 DEF RepairInspect
  <2>2. PICK d \in Ids : SubjectAt(r, o, d)
    BY <1>8, <2>1
  <2>3. Steady(d) /\ d \in exists /\ d[2] = run[r].subject /\ Replacement(r) \notin exists
    BY <2>1, <2>2 DEF SubjectAt, Steady, Sole
  <2>4. run'[r] = [To(r, "rimage") EXCEPT !.target = image[d], !.how = ref[d],
                                          !.network = Rewritten(r, joins[d])]
    <3>1. Named(Live(run[r].subject)) = {d}
      BY <2>3, Holders
    <3>. QED
      BY <1>10, <3>1, RepairAnswered, ZenonT(40) DEF Free
  <2>5. /\ run'[r].pc = "rimage" /\ run'[r].verdict = run[r].verdict /\ KeepsCycle(r)
        /\ run'[r].subject = run[r].subject /\ run'[r].target = image[d] /\ run'[r].how = ref[d]
        /\ run'[r].network = Rewritten(r, joins[d])
    BY <2>4, Fields DEF To, KeepsCycle
  <2>6. Rewritten(r, joins[d]) \in {h, ByName}
    <3>1. joins[d] \in {o, ByName} /\ o \notin {None, ByName}
      BY <2>1, <2>2, ReferenceAssumption DEF SubjectAt
    <3>. QED
      BY <3>1 DEF Rewritten, Home
  <2>7. SubjectAt(r, o, d)'
    <3>1. Steady(d)' /\ Replacement(r)' \notin exists'
      BY <1>3, <2>3, <2>5, NothingMoved DEF Replacement
    <3>. QED
      BY <1>1, <1>4, <2>3, <2>5, <2>6, <3>1 DEF SubjectAt, docker, SwapSteps
  <2>. QED
    BY <1>9, <2>1, <2>5, <2>7
<1>11. CASE RepairImage(r)
  <2>1. run[r].pc = "rimage"
    BY <1>11 DEF RepairImage
  <2>2. PICK d \in Ids : SubjectAt(r, o, d)
    BY <1>8, <2>1
  <2>3. /\ Steady(d) /\ d[2] = run[r].subject /\ Replacement(r) \notin exists
        /\ run[r].network \in {h, ByName} /\ run[r].target = image[d] /\ run[r].how = ref[d]
    BY <2>1, <2>2 DEF SubjectAt, SwapSteps
  <2>4. /\ run'[r].pc = "stop" /\ run'[r].verdict = run[r].verdict /\ KeepsCycle(r)
        /\ KeepsSubject(r)
        /\ \/ run'[r].how = "tag" /\ tag = run[r].target
           \/ run'[r].how = "id" /\ (run[r].how # "tag" \/ tag # run[r].target)
    <3>1. CASE run[r].how = "tag" /\ tag = run[r].target /\ run'[r] = To(r, "stop")
      BY <3>1, NextTo DEF At, KeepsSwap
    <3>2. CASE /\ run[r].how # "tag" \/ tag # run[r].target
               /\ run'[r] = [To(r, "stop") EXCEPT !.how = "id"]
      <4>1. /\ run'[r].pc = "stop" /\ run'[r].verdict = run[r].verdict /\ KeepsCycle(r)
            /\ KeepsSubject(r) /\ run'[r].how = "id"
        BY <3>2, Fields DEF To, KeepsCycle, KeepsSubject
      <4>. QED
        BY <3>2, <4>1
    <3>. QED
      BY <1>11, <3>1, <3>2, RepairAnswered
  <2>5. ref[d] \in {"tag", "id"}
    BY DEF TypeOK, DockerTypeOK
  <2>6. SubjectAt(r, o, d)'
    <3>1. Steady(d)' /\ Replacement(r)' \notin exists' /\ run'[r].subject = run[r].subject
      BY <1>3, <2>3, <2>4, NothingMoved DEF Replacement, KeepsSubject
    <3>2. SwapAt(r, d)'
      BY <2>4, <3>1 DEF SwapAt
    <3>. QED
      BY <1>1, <1>4, <2>3, <2>4, <2>5, <3>1, <3>2 DEF SubjectAt, docker, KeepsSubject
  <2>. QED
    BY <1>9, <2>1, <2>4, <2>6 DEF KeepsSubject
<1>. QED
  BY <1>6, <1>7, <1>10, <1>11

\* A call on a container c of r's subject leaves the owner and the other dependents
\* where they are.
LEMMA RepairGoes ==
  ASSUME TypeOK, TypeOK', PhasesSound, NEW r \in Runs, NEW o \in Ids,
         NEW h \in Ids, h = Home(r, o), Calm(r, o),
         run[r].pc \in (RepairSteps \cup SwapSteps) \ {"repair"}, run[r].verdict # "none",
         NEW c \in Ids, c[2] = run[r].subject, Frame(c),
         exists' \subseteq exists \cup {Replacement(r)}, Stock',
         run'[r].verdict = run[r].verdict, KeepsCycle(r),
         \/ /\ run'[r].pc \in (RepairSteps \cup SwapSteps) \ {"repair"}
            /\ run'[r].subject = run[r].subject /\ \E d \in Ids : SubjectAt(r, o, d)'
         \/ run'[r].pc = "repair" /\ InSpace(c[2], h)'
  PROVE  Proceeds(r, o)
<1>. DEFINE s == run[r].subject
<1>1. /\ h[2] = Owner /\ o[2] = Owner /\ OwnerHome(r, o) /\ Repairing(r, o) /\ Others \subseteq Deps
      /\ Owner \notin Others /\ DockerTypeOK /\ exists' \subseteq Ids
  BY RepairFooting DEF TypeOK, DockerTypeOK
<1>2. s \in Others \ run[r].todo /\ s # Owner /\ c[2] # Owner
  BY <1>1 DEF Repairing
<1>3. OwnerHome(r, o)'
  <2>1. CASE run[r].verdict = "healthy"
    <3>1. ASSUME NEW nm, nm = run[r].old, NEW x \in Ids, x = New(r)
          PROVE  Split(o, nm, x)' /\ up'[x]
      <4>1. Split(o, nm, x) /\ up[x]
        BY <1>1, <2>1, <3>1 DEF OwnerHome
      <4>. QED
        BY <1>1, <1>2, <4>1, Elsewhere
    <3>2. New(r) \in Ids
      BY DEF New, Ids, ServiceNames
    <3>3. Split(o, run[r].old, New(r))' /\ up'[New(r)]
      BY <3>1, <3>2 DEF Split, New, KeepsCycle
    <3>. QED
      BY <2>1, <3>3 DEF OwnerHome, New
  <2>2. CASE run[r].verdict # "healthy"
    BY <1>1, <1>2, <2>2, Elsewhere DEF OwnerHome
  <2>. QED
    BY <2>1, <2>2
<1>4. Home(r, o)' = h
  BY DEF Home, New
<1>5. \A m \in run[r].todo : Joined(m, o)' /\ <<r, m>> \notin exists'
  BY <1>1, <1>2, Elsewhere DEF Repairing, Replacement
<1>6. \A m \in Others \ run[r].todo : m = s \/ InSpace(m, h)'
  <2>1. \A m \in Others \ run[r].todo : m = s \/ InSpace(m, h)
    BY <1>1 DEF Repairing
  <2>. QED
    BY <1>1, <1>2, <2>1, Elsewhere
<1>7. Repairing(r, o)'
  <2>1. /\ run'[r].todo = run[r].todo
        /\ \A m \in Others \ run[r].todo : m = s \/ InSpace(m, Home(r, o))'
        /\ InSpace(c[2], h)' => InSpace(c[2], Home(r, o))'
    BY <1>4, <1>6 DEF KeepsCycle, InSpace
  <2>2. CASE run'[r].pc = "repair" /\ InSpace(c[2], h)'
    <3>1. \A m \in Others \ run[r].todo : InSpace(m, Home(r, o))'
      BY <1>2, <2>1, <2>2
    <3>. QED
      BY <1>1, <1>5, <2>1, <2>2, <3>1 DEF Repairing
  <2>3. CASE /\ run'[r].pc \in (RepairSteps \cup SwapSteps) \ {"repair"}
             /\ run'[r].subject = s /\ \E d \in Ids : SubjectAt(r, o, d)'
    BY <1>1, <1>2, <1>5, <2>1, <2>3 DEF Repairing
  <2>. QED
    BY <2>2, <2>3
<1>8. run'[r].pc \in RepairSteps \cup SwapSteps
  BY DEF RepairSteps
<1>. QED
  BY <1>3, <1>7, <1>8, RepairFooting

\* The swap of a dependent: it is stopped, archived, re-created with a reference to the
\* owner's serving container, and started in its namespace.
LEMMA RepairSwapStep ==
  ASSUME TypeOK, TypeOK', NamesSound, PhasesSound, Stock, NEW r \in Runs, NEW o \in Ids,
         NEW h \in Ids, h = Home(r, o), Calm(r, o), ~run'[r].faulted, run[r].verdict # "none",
         Stop(r) \/ Probe(r) \/ Rename(r) \/ Create(r) \/ Start(r)
  PROVE  Proceeds(r, o)
<1>1. /\ run[r].pc \in SwapSteps /\ run[r].pc \in (RepairSteps \cup SwapSteps) \ {"repair"}
      /\ run[r].pc \in RepairSteps \cup SwapSteps
  BY DEF Stop, Probe, Rename, Create, Start, SwapSteps, RepairSteps
<1>2. /\ h[2] = Owner /\ h \notin {None, ByName} /\ OwnerHome(r, o) /\ Repairing(r, o)
      /\ Others \subseteq Deps /\ Owner \notin Others /\ Others \cap OptOut = {}
      /\ DockerTypeOK /\ exists \subseteq Ids
  BY <1>1, RepairFooting
<1>3. PICK d \in Ids : SubjectAt(r, o, d)
  BY <1>1, <1>2 DEF Repairing, SwapSteps
<1>4. PICK x \in Ids : x = Replacement(r)
  BY DEF TypeOK, RunState, Replacement, Ids
<1>5. /\ d[2] = run[r].subject /\ x[2] = d[2] /\ d[2] \in Deps /\ d[2] # Owner /\ d[2] \notin OptOut
      /\ SwapAt(r, d) /\ run[r].network \in {h, ByName}
  BY <1>1, <1>2, <1>3, <1>4 DEF SubjectAt, Repairing, SwapSteps, Replacement
<1>6. KeepsSubject(r) /\ run'[r].verdict = run[r].verdict =>
        Replacement(r)' = x /\ Home(r, o)' = h
  BY <1>4 DEF KeepsSubject, Replacement, Home, New
\* The container that the dependents reference runs.
<1>7. up[h] /\ Named(Live(Owner)) = {h} /\ h \in exists
  <2>1. CASE run[r].verdict = "healthy"
    <3>1. h = New(r) /\ Split(o, run[r].old, h) /\ up[h] /\ o \in exists
      BY <1>2, <2>1 DEF Home, OwnerHome, Split
    <3>2. run[r].old # Live(Owner)
      <4>1. run[r].old \in Names
        BY <1>2, <3>1 DEF Split, DockerTypeOK
      <4>. QED
        BY <4>1, ReferenceAssumption DEF PhasesSound, PhaseSound, Live
    <3>. QED
      BY <1>2, <3>1, <3>2, Holders DEF Split
  <2>2. CASE run[r].verdict # "healthy"
    BY <1>2, <2>2, Holders DEF Home, OwnerHome, Steady, Sole
  <2>. QED
    BY <2>1, <2>2
<1>8. CASE Stop(r) \/ Probe(r) \/ Rename(r)
  <2>1. /\ SwapAt(r, d)' /\ Frame(d)
        /\ run'[r].pc \in {"probe", "rename", "create"} /\ run'[r].verdict = run[r].verdict
        /\ KeepsSubject(r) /\ KeepsCycle(r) /\ run'[r].how = run[r].how
        /\ UNCHANGED <<exists, image, ref, joins, tag, store>>
    BY <1>5, <1>8, ArchiveStep
  <2>2. Stock'
    BY <1>2, <1>5, <2>1 DEF Stock, Frame
  <2>3. SubjectAt(r, o, d)'
    <3>1. run[r].pc \in SwapSteps \ {"start"}
      BY <1>8 DEF Stop, Probe, Rename, SwapSteps
    <3>2. /\ run[r].target = image[d]
          /\ IF run[r].how = "tag" THEN tag = run[r].target ELSE ref[d] = "id" \/ tag # run[r].target
      BY <1>3, <3>1 DEF SubjectAt
    <3>. QED
      BY <1>5, <1>6, <2>1, <3>2 DEF SubjectAt, KeepsSubject, SwapSteps
  <2>. QED
    BY <1>1, <1>5, <2>1, <2>2, <2>3, RepairGoes DEF SwapSteps, KeepsSubject
<1>9. CASE Create(r)
  <2>1. Resolved(run[r].how, run[r].target) \in store
    <3>1. run[r].pc \in SwapSteps \ {"start"}
      BY <1>9 DEF Create, SwapSteps
    <3>2. /\ run[r].target = image[d] /\ Down(d, run[r].archive)
          /\ IF run[r].how = "tag" THEN tag = run[r].target ELSE TRUE
      BY <1>3, <1>5, <1>9, <3>1 DEF SubjectAt, SwapAt, Create
    <3>. QED
      BY <3>2 DEF Resolved, Stock, Down, Sole
  <2>2. /\ SwapAt(r, d)' /\ Frame(x) /\ At(r, "start") /\ KeepsSwap(r) /\ KeepsCycle(r)
        /\ exists' = exists \cup {x} /\ UNCHANGED <<tag, store>>
        /\ joins'[x] = run[r].network
        /\ image'[x] \in store
    BY <1>4, <1>5, <1>9, <2>1, CreateStep
  <2>3. Stock'
    <3>1. \A c \in exists' : c = x \/ (c \in exists /\ c \in Ids \ {x})
      BY <1>2, <2>2
    <3>. QED
      BY <1>2, <1>5, <2>2, <3>1 DEF Stock, Frame
  <2>4. SubjectAt(r, o, d)'
    BY <1>5, <1>6, <2>2 DEF SubjectAt, At, KeepsSwap, KeepsSubject, SwapSteps
  <2>. QED
    BY <1>1, <1>4, <1>5, <2>2, <2>3, <2>4, RepairGoes
    DEF SwapSteps, KeepsSwap, KeepsSubject, At
<1>10. CASE Start(r)
  <2>1. joins[x] \in {h, ByName} /\ x \in exists
    BY <1>2, <1>3, <1>4, <1>5, <1>10 DEF SubjectAt, Start, SwapAt, Split
  <2>2. Referenced(joins[x]) = {h}
    BY <1>2, <1>7, <2>1 DEF Referenced
  <2>3. CanStart(x) /\ joins[x] # None
    BY <1>2, <1>7, <2>1, <2>2, ReferenceAssumption, DaemonAssumption DEF CanStart
  <2>4. /\ Split(d, run[r].archive, x)' /\ Frame(x)
        /\ UNCHANGED <<exists, name, image, ref, joins, tag, store>> /\ up'[x]
        /\ ns'[x] = h
        /\ run'[r].verdict = run[r].verdict /\ KeepsSwap(r) /\ KeepsCycle(r)
        /\ run'[r].pc = "rmarchive"
    BY <1>4, <1>5, <1>10, <2>2, <2>3, StartStep DEF KeepsCycle
  <2>5. Stock'
    BY <2>4 DEF Stock
  <2>6. SubjectAt(r, o, d)'
    <3>1. Split(d, run[r].archive, Replacement(r))'
      BY <1>6, <2>4 DEF Split, KeepsSwap
    <3>. QED
      BY <1>5, <1>6, <2>1, <2>4, <3>1 DEF SubjectAt, KeepsSwap, KeepsSubject, SwapSteps
  <2>. QED
    BY <1>1, <1>4, <1>5, <2>4, <2>5, <2>6, RepairGoes
    DEF RepairSteps, KeepsSwap, KeepsSubject
<1>. QED
  BY <1>8, <1>9, <1>10

\* No container references one that is not the owner's, so the daemon accepts the removal
\* of what is stopped.
LEMMA Removable ==
  ASSUME Stock, DockerTypeOK, NEW d \in Ids, ~up[d],
         d[2] # Owner \/ \A e \in exists : up[e] => joins[e] # d
  PROVE  CanRemove(d)
<1>1. ASSUME NEW e \in exists, joins[e] = d PROVE d[2] = Owner
  <2>1. e[2] = Owner \/ e[2] \in Deps
    BY DEF DockerTypeOK, Ids, ServiceNames
  <2>. QED
    BY <1>1, <2>1, ReferenceAssumption DEF Stock
<1>. QED
  BY <1>1 DEF CanRemove

\* With its replacement started, the dependent's archive goes.
LEMMA RepairedStep ==
  ASSUME TypeOK, TypeOK', NamesSound, PhasesSound, Stock, NEW r \in Runs, NEW o \in Ids,
         NEW h \in Ids, h = Home(r, o), Calm(r, o), ~run'[r].faulted, run[r].verdict # "none",
         RemoveDependentArchive(r)
  PROVE  Proceeds(r, o)
<1>1. /\ run[r].pc = "rmarchive" /\ run[r].pc \in (RepairSteps \cup SwapSteps) \ {"repair"}
      /\ run[r].pc \in RepairSteps \cup SwapSteps
  BY DEF RemoveDependentArchive, RepairSteps
<1>2. /\ h[2] = Owner /\ Repairing(r, o) /\ Others \subseteq Deps /\ Owner \notin Others
      /\ DockerTypeOK /\ exists \subseteq Ids
  BY <1>1, RepairFooting
<1>3. PICK d \in Ids : SubjectAt(r, o, d)
  BY <1>1, <1>2 DEF Repairing
<1>4. PICK x \in Ids : x = Replacement(r)
  BY DEF TypeOK, RunState, Replacement, Ids
<1>5. PICK nm : nm = run[r].archive
  OBVIOUS
<1>6. /\ d[2] = run[r].subject /\ d[2] # Owner /\ x[2] = d[2]
      /\ Split(d, nm, x) /\ up[x] /\ ns[x] = h /\ joins[x] \in {h, ByName}
  BY <1>1, <1>2, <1>3, <1>4, <1>5 DEF SubjectAt, Repairing, Replacement
<1>7. Named(run[r].archive) = {d}
  <2>1. nm # Live(d[2])
    <3>1. nm \in Names /\ nm # None
      BY <1>2, <1>6, ReferenceAssumption DEF Split, DockerTypeOK
    <3>. QED
      BY <1>5, <3>1 DEF PhasesSound, PhaseSound, Live
  <2>. QED
    BY <1>5, <1>6, <2>1, Holders DEF Split
<1>8. CanRemove(d)
  BY <1>2, <1>6, Removable DEF Split
<1>9. RemoveContainer(d) /\ run'[r] = To(r, "repair")
  BY <1>7, <1>8, RepairAnswered
<1>10. At(r, "repair") /\ KeepsCycle(r)
  BY <1>9, NextTo
<1>11. Frame(d) /\ Steady(x)'
  BY <1>2, <1>6, <1>9, Framed, Removing
<1>12. InSpace(d[2], h)'
  <2>1. joins'[x] = joins[x] /\ ns'[x] = h
    BY <1>2, <1>6, <1>9 DEF RemoveContainer, Detached, DockerTypeOK, Split
  <2>. QED
    BY <1>6, <1>11, <2>1 DEF InSpace
<1>13. Stock' /\ exists' \subseteq exists
  BY <1>9 DEF RemoveContainer, Stock
<1>. QED
  BY <1>1, <1>6, <1>10, <1>11, <1>12, <1>13, RepairGoes DEF At

\* After the repairs the owner's archive goes, which no dependent references any more,
\* and the update is over.
LEMMA FinishStep ==
  ASSUME TypeOK, TypeOK', NamesSound, PhasesSound, Stock, NEW r \in Runs, NEW o \in Ids,
         Calm(r, o), ~run'[r].faulted, RemoveOld(r) \/ PostHook(r) \/ CleanImage(r) \/ Prune(r)
  PROVE  Proceeds(r, o)
<1>1. /\ run[r].pc \in Cleaning \cup {"rmold"} /\ run[r].verdict = "healthy"
      /\ DockerTypeOK /\ exists \subseteq Ids
  BY DEF RemoveOld, PostHook, CleanImage, Prune, Cleaning, PhasesSound, PhaseSound, TypeOK,
         DockerTypeOK
<1>2. PICK x \in Ids : x = New(r)
  BY DEF New, Ids, ServiceNames
<1>3. /\ x[2] = Owner /\ o[2] = Owner /\ o # x
      /\ \A n \in Others : InSpace(n, x)
      /\ Owner \notin Others /\ Others \subseteq Deps /\ Deps \subseteq Others \cup OptOut
  BY <1>1, <1>2, DaemonAssumption DEF Calm, OwnerAt, DepsAt, New, Others
\* What is left to show once only the new container is there.
<1>4. ASSUME Steady(x)', \A n \in Others : InSpace(n, x)', Stock', run'[r].verdict = "healthy",
             run'[r].pc \in Cleaning \cup {"done"}
      PROVE  Proceeds(r, o)
  <2>1. CASE run'[r].pc = "done"
    <3>1. Settled(x)'
      BY <1>3, <1>4 DEF Settled
    <3>. QED
      BY <1>4, <2>1, <3>1 DEF Proceeds
  <2>2. CASE run'[r].pc \in Cleaning
    <3>1. New(r)' = x
      BY <1>2 DEF New
    <3>2. Steady(New(r))' /\ \A n \in Others : InSpace(n, New(r))'
      BY <1>4, <3>1 DEF Steady, Sole, InSpace
    <3>3. run'[r].pc \notin {"idle", "done", "gate"} \cup Preparing \cup SwapSteps \cup RepairSteps \cup
            RollbackSteps \cup {"rmold"}
      BY <2>2 DEF Cleaning, Preparing, SwapSteps, RepairSteps, RollbackSteps
    <3>4. OwnerAt(r, o)'
      BY <1>2, <1>3, <1>4, <3>1, <3>2, <3>3 DEF OwnerAt, RollbackSteps, Rejected
    <3>5. DepsAt(r, o)' /\ Supplied(r)'
      BY <1>4, <3>2, <3>3 DEF DepsAt, Supplied
    <3>. QED
      BY <1>4, <3>3, <3>4, <3>5 DEF Proceeds, Calm
  <2>. QED
    BY <1>4, <2>1, <2>2
<1>5. ASSUME UNCHANGED <<exists, name, up, joins, ns>>, Stock', run[r].pc \in Cleaning,
             \/ run'[r] = To(r, "clean") \/ run'[r] = To(r, "prune")
             \/ run'[r] = Over(r, "recreated")
      PROVE  Proceeds(r, o)
  <2>1. Steady(x)
    BY <1>2, <1>5 DEF Calm, OwnerAt
  <2>2. Steady(x)' /\ \A n \in Others : InSpace(n, x)'
    BY <1>3, <1>5, <2>1, NothingMoved
  <2>3. run'[r].pc \in Cleaning \cup {"done"} /\ run'[r].verdict = "healthy"
    BY <1>1, <1>5, Fields DEF To, Over, Cleaning
  <2>. QED
    BY <1>4, <1>5, <2>2, <2>3
<1>6. CASE RemoveOld(r)
  <2>1. PICK nm : nm = run[r].old
    OBVIOUS
  <2>2. Split(o, nm, x) /\ up[x]
    BY <1>1, <1>2, <1>6, <2>1 DEF RemoveOld, Calm, OwnerAt
  <2>3. Named(run[r].old) = {o}
    <3>1. nm # Live(o[2])
      <4>1. nm \in Names /\ nm # None
        BY <1>1, <2>2, ReferenceAssumption DEF Split, DockerTypeOK
      <4>. QED
        BY <2>1, <4>1 DEF PhasesSound, PhaseSound, Live
    <3>. QED
      BY <2>1, <2>2, <3>1, Holders DEF Split
  <2>4. CanRemove(o)
    <3>1. ASSUME NEW e \in exists, joins[e] = o PROVE FALSE
      <4>1. e[2] = Owner \/ e[2] \in OptOut \/ e[2] \in Others
        BY <1>1, <1>3 DEF Ids, ServiceNames
      <4>2. e[2] = Owner => FALSE
        BY <3>1, ReferenceAssumption DEF Stock
      <4>3. e[2] \in OptOut => FALSE
        BY <3>1, ReferenceAssumption DEF Stock
      <4>4. e[2] \in Others => FALSE
        BY <1>3, <3>1, ReferenceAssumption DEF InSpace, Steady, Sole
      <4>. QED
        BY <4>1, <4>2, <4>3, <4>4
    <3>. QED
      BY <1>1, <2>2, <3>1, Removable DEF Split
  <2>5. RemoveContainer(o) /\ run'[r] = To(r, "posthook")
    BY <1>6, <2>3, <2>4, RepairAnswered
  <2>6. Frame(o) /\ Steady(x)'
    BY <1>1, <2>2, <2>5, Framed, Removing
  <2>7. \A n \in Others : InSpace(n, x)'
    BY <1>1, <1>3, <2>6, Elsewhere DEF TypeOK, DockerTypeOK
  <2>8. Stock'
    BY <2>5 DEF RemoveContainer, Stock
  <2>9. At(r, "posthook")
    BY <2>5, NextTo
  <2>. QED
    BY <1>1, <1>4, <2>6, <2>7, <2>8, <2>9 DEF At, Cleaning
<1>7. CASE PostHook(r)
  <2>1. UNCHANGED docker /\ run'[r] = To(r, "clean") /\ run[r].pc \in Cleaning
    BY <1>7, Fields DEF PostHook, Set, Cleaning
  <2>. QED
    BY <1>5, <2>1 DEF docker, Stock
<1>8. CASE CleanImage(r)
  <2>1. /\ run'[r] = To(r, "prune") /\ run[r].pc \in Cleaning
        /\ UNCHANGED docker \/ \E i : CanRemoveImage(i) /\ RemoveImage(i)
    BY <1>8, RepairAnswered DEF CleanImage, Cleaning
  <2>2. CASE UNCHANGED docker
    BY <1>5, <2>1, <2>2 DEF docker, Stock
  <2>3. ASSUME NEW i, CanRemoveImage(i), RemoveImage(i) PROVE Proceeds(r, o)
    <3>1. Stock'
      BY <2>3 DEF CanRemoveImage, RemoveImage, Stock
    <3>. QED
      BY <1>5, <2>1, <2>3, <3>1 DEF RemoveImage
  <2>. QED
    BY <2>1, <2>2, <2>3
<1>9. CASE Prune(r)
  <2>1. /\ run'[r] = Over(r, "recreated") /\ run[r].pc \in Cleaning
        /\ UNCHANGED docker \/ PruneImages
    BY <1>9, RepairAnswered DEF Prune, Cleaning
  <2>2. CASE UNCHANGED docker
    BY <1>5, <2>1, <2>2 DEF docker, Stock
  <2>3. CASE PruneImages
    <3>1. Stock'
      BY <2>3 DEF PruneImages, Stock
    <3>. QED
      BY <1>5, <2>1, <2>3, <3>1 DEF PruneImages
  <2>. QED
    BY <2>1, <2>2, <2>3
<1>. QED
  BY <1>6, <1>7, <1>8, <1>9

\* Nothing fails, so no dependent's swap is undone.
LEMMA NothingUndone ==
  ASSUME PhasesSound, NEW r \in Runs, NEW o \in Ids, Calm(r, o)
  PROVE  ~UndoRename(r) /\ ~UndoStart(r)
<1>1. ASSUME run[r].pc \in {"undoname", "undostart"} PROVE FALSE
  <2>1. run[r].pc \in RepairSteps /\ run[r].pc # "repair" /\ run[r].verdict # "none"
    BY <1>1 DEF RepairSteps, PhasesSound, PhaseSound
  <2>2. PICK d \in Ids : SubjectAt(r, o, d)
    BY <2>1 DEF Calm, DepsAt, Repairing
  <2>. QED
    BY <1>1, <2>2 DEF SubjectAt
<1>. QED
  BY <1>1 DEF UndoRename, UndoStart

-----------------------------------------------------------------------------
(* All the steps together.                                                 *)

\* An update starts from what the one before it has settled.
LEMMA BeginStep ==
  ASSUME TypeOK, PhasesSound, Stock, NEW r \in Runs, Supplied(r), NEW o \in Ids, Settled(o),
         Begin(r)
  PROVE  Proceeds(r, o)
<1>1. /\ run[r].pc = "idle" /\ run[r].verdict = "none" /\ UNCHANGED docker
      /\ run'[r] = To(r, "inspect")
  BY Fields DEF Begin, PhasesSound, PhaseSound, Set
<1>2. run'[r].pc = "inspect" /\ run'[r].verdict = "none"
  BY <1>1, NextTo DEF At
<1>3. UNCHANGED <<exists, name, up, joins, ns>> /\ Stock'
  BY <1>1 DEF docker, Stock
<1>4. /\ o[2] = Owner /\ Steady(o)' /\ \A n \in Others : InSpace(n, o)'
      /\ \A n \in ServiceNames : <<r, n>> \notin exists'
  BY <1>1, <1>3, NothingMoved DEF Settled, Supplied
<1>5. o # New(r)
  BY <1>3, <1>4 DEF New, ServiceNames, Steady, Sole
<1>6. OwnerAt(r, o)'
  BY <1>2, <1>4, <1>5
  DEF OwnerAt, New, Preparing, SwapSteps, RepairSteps, Cleaning, Rejected
<1>7. DepsAt(r, o)'
  <2>1. Untouched(r, o)'
    BY <1>2, <1>4 DEF Untouched, ServiceNames, Joined, InSpace, Preparing
  <2>. QED
    BY <1>2, <2>1 DEF DepsAt, Cleaning
<1>8. Supplied(r)'
  BY <1>2 DEF Supplied, SwapSteps
<1>. QED
  BY <1>2, <1>3, <1>6, <1>7, <1>8 DEF Proceeds, Calm

\* And goes on from there.
LEMMA GoingOn ==
  ASSUME TypeOK, TypeOK', IInv, Stock, ~oneShot, NEW r \in Runs, NEW o \in Ids, Calm(r, o),
         Active(r), ~run'[r].faulted, Step(r)
  PROVE  Proceeds(r, o)
<1>. USE DEF IInv
<1>1. PICK h : h = Home(r, o)
  OBVIOUS
<1>2. run[r].pc \in RepairSteps \cup SwapSteps /\ run[r].verdict # "none" => h \in Ids
  BY <1>1, RepairFooting
<1>3. CASE Inspect(r) \/ Pull(r) \/ Hook(r) \/ ListDependents(r)
  BY <1>3, PrepareStep
<1>4. CASE Stop(r) \/ Probe(r) \/ Rename(r) \/ Create(r) \/ Start(r)
  <2>1. run[r].pc \in SwapSteps
    BY <1>4 DEF Stop, Probe, Rename, Create, Start, SwapSteps
  <2>2. CASE run[r].verdict = "none"
    BY <1>4, <2>2, OwnerSwapStep
  <2>3. CASE run[r].verdict # "none"
    BY <1>1, <1>2, <1>4, <2>1, <2>3, RepairSwapStep
  <2>. QED
    BY <2>2, <2>3
<1>5. CASE Gate(r) \/ OneShotGate(r)
  BY <1>5, VerdictStep DEF OneShotGate
<1>6. CASE RepairNext(r) \/ RepairsOver(r) \/ RepairInspect(r) \/ RepairImage(r)
            \/ RemoveDependentArchive(r)
  <2>1. run[r].pc \in RepairSteps /\ run[r].verdict # "none"
    BY <1>6 DEF RepairNext, RepairsOver, RepairInspect, RepairImage, RemoveDependentArchive,
                RepairSteps, PhasesSound, PhaseSound
  <2>. QED
    BY <1>1, <1>2, <1>6, <2>1, LookStep, RepairedStep
<1>7. CASE RemoveOld(r) \/ PostHook(r) \/ CleanImage(r) \/ Prune(r)
  BY <1>7, FinishStep
<1>8. CASE RollbackStop(r) \/ RollbackRemove(r) \/ RollbackRename(r) \/ RollbackStart(r)
  BY <1>8, RollbackStep
<1>9. ~Begin(r) /\ ~UndoRename(r) /\ ~UndoStart(r)
  BY NothingUndone DEF Begin, Active
<1>. QED
  BY <1>3, <1>4, <1>5, <1>6, <1>7, <1>8, <1>9 DEF Step

\* A crash under the gate keeps the update where it is.
LEMMA QuietExitStep ==
  ASSUME TypeOK, TypeOK', OneAtATime, Stock, ~oneShot, NEW c \in Ids, Exit(c)
  PROVE  /\ UNCHANGED <<run, oneShot, exists>> /\ Stock' /\ ~AllOver
         /\ \A r \in Runs : (Supplied(r) => Supplied(r)')
              /\ \A o \in Ids : Active(r) /\ Calm(r, o) => Calm(r, o)'
<1>1. /\ c[2] = Owner /\ StopContainer(c) /\ UNCHANGED <<run, oneShot, exists, tag, store>>
      /\ DockerTypeOK /\ exists' \subseteq Ids
  BY DEF Exit, StopContainer, TypeOK, DockerTypeOK
<1>2. PICK s \in Runs : c = New(s) /\ run[s].pc = "gate"
  BY DEF Exit
<1>3. Stock'
  BY <1>1 DEF StopContainer, Stock
<1>4. Active(s) /\ \A r \in Runs : Active(r) => r = s
  BY <1>2 DEF OneAtATime, Active
<1>5. \A r \in Runs : Supplied(r) => Supplied(r)'
  BY <1>1 DEF Supplied
<1>6. ASSUME NEW o \in Ids, Calm(s, o) PROVE Calm(s, o)'
  <2>1. Split(o, run[s].old, New(s)) /\ o[2] = Owner /\ o # New(s) /\ Supplied(s)
    BY <1>2, <1>6 DEF Calm, OwnerAt
  <2>2. \A nm : Split(o, nm, c) => Split(o, nm, c)'
    BY <1>1, Stopping
  <2>3. Split(o, run[s].old, New(s))'
    BY <1>1, <1>2, <2>1, <2>2 DEF Split, New
  <2>4. OwnerAt(s, o)'
    BY <1>1, <1>2, <2>1, <2>3
    DEF OwnerAt, New, Preparing, SwapSteps, RepairSteps, Cleaning, Rejected
  <2>5. DepsAt(s, o)'
    <3>1. run[s].verdict = "none" => Untouched(s, o)'
      <4>1. Owner \notin Others /\ Frame(c)
        BY <1>1, Framed, DaemonAssumption DEF Others
      <4>. QED
        BY <1>1, <1>2, <1>6, <4>1, Elsewhere DEF Calm, DepsAt, Untouched, Preparing
    <3>. QED
      BY <1>1, <1>2, <3>1 DEF DepsAt, RollbackSteps, SwapSteps, RepairSteps, Cleaning
  <2>. QED
    BY <1>5, <2>1, <2>4, <2>5 DEF Calm
<1>. QED
  BY <1>1, <1>3, <1>4, <1>5, <1>6 DEF AllOver

\* Undisturbed now means undisturbed before.
LEMMA UndisturbedBefore ==
  ASSUME TypeOK, PhasesSound, KilledOver, NEW r \in Runs, Step(r) \/ Kill(r)
  PROVE  KilledOver' /\ (Undisturbed' => Undisturbed /\ Step(r))
<1>1. \A s \in Runs \ {r} : run'[s] = run[s]
  BY OthersUntouched
<1>2. run[r].outcome # "killed"
  BY StepFields DEF KilledOver, Active
<1>3. /\ run[r].faulted => run'[r].faulted
      /\ run'[r].outcome = run[r].outcome \/ run'[r].pc = "done"
  BY FaultsStay
<1>4. Kill(r) => run'[r].outcome = "killed"
  BY Fields DEF Kill, Set, Over
<1>. QED
  BY <1>1, <1>2, <1>3, <1>4 DEF KilledOver, Undisturbed

LEMMA CalmStep ==
  ASSUME ~Overlap, TypeOK, TypeOK', IInv, KilledOver, CalmInv, [Next]_vars
  PROVE  CalmInv' /\ KilledOver'
<1>. USE DEF IInv
<1>1. ASSUME NEW r \in Runs, Step(r) \/ Kill(r), Undisturbed', ~oneShot' PROVE CalmInv'
  <2>1. /\ ~oneShot /\ Undisturbed /\ Step(r) /\ ~run'[r].faulted
    BY <1>1, KindKept, UndisturbedBefore DEF Undisturbed
  <2>2. /\ Stock /\ \A s \in Runs : Supplied(s)
        /\ AllOver => \E o \in Ids : Settled(o)
        /\ \A s \in Runs : Active(s) => \E o \in Ids : Calm(s, o)
    BY <2>1 DEF CalmInv
  <2>3. \A s \in Runs \ {r} : ~Active(s) /\ run'[s] = run[s]
    BY <1>1, OnlyActive
  <2>4. PICK o \in Ids : Proceeds(r, o)
    <3>1. CASE Active(r)
      BY <2>1, <2>2, <3>1, GoingOn
    <3>2. CASE ~Active(r) /\ Begin(r)
      BY <2>2, <2>3, <3>2, BeginStep DEF AllOver
    <3>. QED
      BY <2>1, <3>1, <3>2, StepFields
  <2>5. \A s \in Runs \ {r} : Supplied(s)'
    <3>1. exists' \subseteq exists \cup {Replacement(r)}
      BY <1>1, NameEffects DEF Renamed, Removed, Created
    <3>2. \A s \in Runs \ {r} : run'[s].pc \in {"idle", "done"}
      BY <2>3 DEF Active
    <3>. QED
      BY <2>2, <2>3, <3>1, <3>2 DEF Supplied, SwapSteps, Replacement
  <2>6. Supplied(r)'
    BY <2>4 DEF Proceeds, Calm, Supplied, SwapSteps
  <2>7. AllOver' => \E q \in Ids : Settled(q)'
    BY <2>4 DEF Proceeds, AllOver, Active
  <2>8. \A s \in Runs : Active(s)' => \E q \in Ids : Calm(s, q)'
    BY <2>3, <2>4 DEF Proceeds, Active
  <2>. QED
    BY <2>4, <2>5, <2>6, <2>7, <2>8 DEF CalmInv, Proceeds
<1>2. ASSUME NEW c \in Ids, Exit(c) PROVE CalmInv' /\ KilledOver'
  <2>1. UNCHANGED <<run, oneShot>>
    BY <1>2 DEF Exit
  <2>2. CASE ~oneShot /\ Undisturbed
    <3>1. /\ Stock' /\ ~AllOver' /\ \A r \in Runs : Supplied(r)'
          /\ \A r \in Runs : Active(r)' => \E o \in Ids : Calm(r, o)'
      BY <1>2, <2>1, <2>2, QuietExitStep DEF CalmInv, AllOver, Active
    <3>. QED
      BY <2>1, <3>1 DEF CalmInv, KilledOver
  <2>. QED
    BY <2>1, <2>2 DEF CalmInv, KilledOver, Undisturbed
<1>3. CASE UNCHANGED vars
  <2>1. UNCHANGED <<exists, name, up, image, ref, joins, ns, tag, store, oneShot, run>>
    BY <1>3 DEF vars, docker
  <2>2. /\ Stock' = Stock /\ Undisturbed' = Undisturbed /\ AllOver' = AllOver
        /\ \A r \in Runs : Active(r)' = Active(r) /\ Supplied(r)' = Supplied(r)
        /\ \A o \in Ids : Settled(o)' = Settled(o)
    BY <2>1, NothingMoved DEF Stock, Undisturbed, AllOver, Active, Supplied
  <2>3. \A r \in Runs, o \in Ids : Calm(r, o)' = Calm(r, o)
    BY <2>1 DEF Calm, Supplied, OwnerAt, DepsAt, SwapAt, Untouched, Repairing, SubjectAt, Home,
                Sole, Steady, Down, Split, Joined, InSpace, Replacement, New
  <2>. QED
    BY <2>1, <2>2, <2>3 DEF CalmInv, KilledOver
<1>4. \A r \in Runs : Step(r) \/ Kill(r) => KilledOver'
  BY UndisturbedBefore
<1>. QED
  BY <1>1, <1>2, <1>3, <1>4 DEF Next, CalmInv

LEMMA CalmInitially == ASSUME OptOut \subseteq ByNameDeps PROVE Init => CalmInv /\ KilledOver
<1>. SUFFICES ASSUME Init, ~oneShot PROVE CalmInv /\ KilledOver
  BY DEF CalmInv, Init, KilledOver, Fresh
<1>. DEFINE o == <<Before, Owner>>
<1>1. \A r \in Runs : run[r].pc = "idle" /\ run[r].outcome = "none"
  BY DEF Init, Fresh
<1>2. /\ exists = {<<Before, n>> : n \in ServiceNames}
      /\ \A n \in ServiceNames : <<Before, n>> \in Ids /\ <<Before, n>>[2] = n
      /\ \A d \in exists : d = <<Before, d[2]>> /\ d[2] \in ServiceNames /\ d \in Ids
  BY DEF Init, DockerInit, Ids
<1>3. \A d \in exists :
        /\ name[d] = Live(d[2]) /\ up[d] /\ image[d] = FirstImage /\ ref[d] = "tag"
        /\ joins[d] = IF d[2] = Owner THEN None ELSE IF d[2] \in ByNameDeps THEN ByName ELSE o
        /\ d[2] # Owner => ns[d] = o
  BY <1>2 DEF Init, DockerInit
<1>4. tag = FirstImage /\ store = {FirstImage}
  BY DEF Init, DockerInit
<1>5. o \in Ids /\ o[2] = Owner /\ Owner \notin Deps /\ o \in exists
  BY <1>2, DaemonAssumption DEF ServiceNames
<1>6. Stock
  BY <1>2, <1>3, <1>4, <1>5, CycleAssumption DEF Stock
<1>7. \A d \in exists : Steady(d)
  BY <1>2, <1>3 DEF Steady, Sole
<1>8. \A n \in Others : InSpace(n, o)
  <2>1. ASSUME NEW n \in Others PROVE InSpace(n, o)
    <3>1. <<Before, n>> \in exists /\ <<Before, n>>[2] = n /\ n # Owner
      BY <1>2, <1>5 DEF Others, ServiceNames
    <3>. QED
      BY <1>2, <1>3, <1>7, <3>1 DEF InSpace
  <2>. QED
    BY <2>1
<1>9. Settled(o)
  BY <1>5, <1>7, <1>8 DEF Settled
<1>10. \A r \in Runs : Supplied(r)
  BY <1>1, <1>2, DaemonAssumption DEF Supplied, SwapSteps
<1>. QED
  BY <1>1, <1>5, <1>6, <1>9, <1>10 DEF CalmInv, KilledOver, Active

\* Once undisturbed updates of a service are over, however many there were and whatever
\* their gates said, every dependent that was to be repaired runs in the namespace of the
\* owner's container then serving, and no archive is left (recreate.rs, healthy_path and
\* rollback with their reattach_dependents).  A dependent that is never repaired must
\* reference the owner by name: an id would hold on to the archive, whose removal the
\* daemon then refuses.
THEOREM DependentsReattached ==
  ASSUME ~Overlap, OptOut \subseteq ByNameDeps PROVE Spec => []DependentsRepaired
<1>1. Init => CalmInv /\ KilledOver
  BY CalmInitially
<1>2. TypeOK /\ TypeOK' /\ IInv /\ CalmInv /\ KilledOver /\ [Next]_vars
        => CalmInv' /\ KilledOver'
  BY CalmStep
<1>3. TypeOK /\ IInv /\ CalmInv => DependentsRepaired
  <2>. SUFFICES ASSUME TypeOK, NamesSound, CalmInv, AllOver, Undisturbed, ~oneShot
                PROVE  Attached /\ NoArchiveLeft
    BY DEF DependentsRepaired, IInv
  <2>1. PICK o \in Ids : Settled(o)
    BY DEF CalmInv
  <2>2. /\ Stock /\ exists \subseteq Ids /\ o \in exists /\ up[o] /\ name[o] = Live(Owner)
        /\ \A n \in Others : InSpace(n, o)
    BY <2>1 DEF CalmInv, TypeOK, DockerTypeOK, Settled, Steady, Sole
  <2>3. Attached
    BY <2>2 DEF Attached, Serving, Named, InSpace, Steady, Sole, Others
  <2>4. ASSUME NEW c \in exists PROVE name[c] = Live(c[2])
    <3>1. c[2] = Owner => c = o
      BY <2>1 DEF Settled, Steady, Sole
    <3>2. c[2] \in Others => Steady(c)
      BY <2>2 DEF InSpace, Steady, Sole
    <3>3. c[2] = Owner \/ c[2] \in Others \/ c[2] \in OptOut
      BY <2>2 DEF Ids, ServiceNames, Others
    <3>. QED
      BY <2>1, <2>2, <3>1, <3>2, <3>3 DEF Stock, Steady
  <2>. QED
    BY <2>3, <2>4 DEF NoArchiveLeft
<1>. QED
  BY <1>1, <1>2, <1>3, TypeCorrect, SerialInvariant, PTL DEF Spec

\* A step adds no container but the replacement, created from what was looked up.
LEMMA CreatedBy ==
  ASSUME TypeOK, NEW r \in Runs, Step(r) \/ Kill(r), NEW c \in exists' \ exists
  PROVE  /\ run[r].pc = "create" /\ c = Replacement(r) /\ c \in Ids
         /\ ref'[c] = run[r].how /\ image'[c] = Resolved(run[r].how, run[r].target)
<1>1. run[r].pc = "create" /\ c = Replacement(r) /\ c \in Ids
  <2>1. run[r].pc = "create" /\ c = Replacement(r)
    BY NameEffects DEF Renamed, Removed, Created
  <2>. QED
    BY <2>1 DEF TypeOK, RunState, Replacement, Ids
<1>2. ref \in [Ids -> {"tag", "id"}] /\ image \in [Ids -> Images]
  BY DEF TypeOK, DockerTypeOK
<1>3. Create(r) \/ Kill(r)
  BY <1>1
  DEF Step, Begin, Inspect, Pull, Hook, ListDependents, Stop, Probe, Rename, Start, Gate,
      OneShotGate, RepairNext, RepairsOver, RepairInspect, RepairImage, RemoveDependentArchive,
      UndoRename, UndoStart, RemoveOld, PostHook, CleanImage, Prune, RollbackStop,
      RollbackRemove, RollbackRename, RollbackStart
<1>4. CreateContainer(Replacement(r), Live(run[r].subject), run[r].how, run[r].target,
                      run[r].network)
  BY <1>3 DEF Create, Call, Kill, docker
<1>. QED
  BY <1>1, <1>2, <1>4 DEF CreateContainer

\* A dependent that ran from its tag is pinned to its image id only when the tag no longer
\* resolves to that image (recreate.rs, repair_image): between the look at the tag and the
\* create nothing moves it.
THEOREM PinnedWhenBehind ==
  ASSUME ~Overlap, TRUE \notin OneShots, OptOut \subseteq ByNameDeps
  PROVE  Spec => PinnedOnlyBehindTag
<1>. DEFINE Pinning(c) ==
       (\E d \in exists : d[2] = c[2] /\ ref[d] = "tag") /\ ref'[c] = "id" /\ Undisturbed
         => tag # image'[c]
<1>1. Init => CalmInv /\ KilledOver /\ ~oneShot
  BY CalmInitially, CycleAssumption DEF Init
<1>2. TypeOK /\ TypeOK' /\ IInv /\ CalmInv /\ KilledOver /\ ~oneShot /\ [Next]_vars
        => CalmInv' /\ KilledOver' /\ ~oneShot'
  BY CalmStep, KindKept DEF Next, Exit, vars
<1>3. TypeOK /\ IInv /\ CalmInv /\ ~oneShot /\ [Next]_vars
        => [\A c \in exists' \ exists : Pinning(c)]_vars
  <2>. SUFFICES ASSUME TypeOK, IInv, CalmInv, ~oneShot, Next, NEW c \in exists' \ exists,
                       Undisturbed, ref'[c] = "id",
                       NEW e \in exists, e[2] = c[2], ref[e] = "tag"
                PROVE  tag # image'[c]
    OBVIOUS
  <2>1. PICK r \in Runs : Step(r) \/ Kill(r)
    BY DEF Next, Exit, StopContainer
  <2>2. /\ run[r].pc = "create" /\ c = Replacement(r) /\ c[2] = run[r].subject
        /\ run[r].how = "id" /\ image'[c] = run[r].target
    BY <2>1, CreatedBy DEF Resolved, Replacement
  <2>3. PICK o \in Ids : Calm(r, o)
    BY <2>2 DEF CalmInv, Active
  <2>4. run[r].verdict # "none"
    BY <2>2, <2>3 DEF Calm, Supplied, SwapSteps
  <2>5. PICK d \in Ids : SubjectAt(r, o, d)
    BY <2>2, <2>3, <2>4 DEF Calm, DepsAt, Repairing, SwapSteps
  <2>6. d[2] = c[2] /\ Sole(d) /\ (ref[d] = "id" \/ tag # run[r].target)
    BY <2>2, <2>5 DEF SubjectAt, SwapAt, Down, SwapSteps
  <2>7. e = d
    BY <2>6 DEF Sole
  <2>. QED
    BY <2>2, <2>6, <2>7
<1>. QED
  BY <1>1, <1>2, <1>3, TypeCorrect, SerialInvariant, PTL DEF Spec, PinnedOnlyBehindTag
=============================================================================
