---------------------------- MODULE UpdateProofs ----------------------------
(***************************************************************************)
(* The recreate cycle seen from the owner: which of its containers there   *)
(* are, which of them run and what an update reports, for any number of    *)
(* updates and dependents, whatever call fails or is the last.             *)
(***************************************************************************)
EXTENDS MCRecreateCycle, RecreateCycleProofs

-----------------------------------------------------------------------------
(* What a step does to the containers, their names and whether they run.   *)

Same == UNCHANGED <<exists, name, up>>
Halted(c) == UNCHANGED <<exists, name>> /\ up' = [up EXCEPT ![c] = FALSE]
Launched(c) == c \in exists /\ UNCHANGED <<exists, name>> /\ up' = [up EXCEPT ![c] = TRUE]
Moved(c, nm) == Free(nm) /\ Renamed(c, nm) /\ UNCHANGED up
Made(c, nm) == c \notin exists /\ Free(nm) /\ Created(c, nm) /\ up' = [up EXCEPT ![c] = FALSE]
Gone(c) == Removed(c) /\ up' = [up EXCEPT ![c] = FALSE]

\* The update goes on at `pc`, or is over with `outcome`.
Goes(r, pc) == run'[r].pc = pc /\ run'[r].outcome = run[r].outcome
Ends(r, outcome) == run'[r].pc = "done" /\ run'[r].outcome = outcome

\* A swap that failed: the update's end for the owner, a restore for a dependent.
Fails(r) ==
  IF run[r].subject = Owner THEN Ends(r, "error")
  ELSE Goes(r, "repair") \/ Goes(r, "undoname")

Keeps(r) == run'[r].verdict = run[r].verdict /\ good' = good
Stays(r) == Keeps(r) /\ run'[r].subject = run[r].subject

Prepares(r) ==
  /\ Same /\ Stays(r)
  /\ \/ run[r].pc = "idle" /\ Goes(r, "inspect")
     \/ /\ run[r].pc \in {"inspect", "pull", "hook"}
        /\ \/ Goes(r, "pull") \/ Goes(r, "hook") \/ Goes(r, "list")
           \/ Ends(r, "error") \/ Ends(r, "skipped")
     \/ run[r].pc = "list" /\ Goes(r, "stop")

Swaps(r) ==
  /\ Stays(r)
  /\ \/ /\ run[r].pc = "stop"
        /\ \/ Same /\ Fails(r)
           \/ /\ \E c \in Named(Live(run[r].subject)) : Halted(c)
              /\ Goes(r, "probe") \/ Fails(r)
     \/ run[r].pc = "probe" /\ Same /\ (Goes(r, "probe") \/ Goes(r, "rename"))
     \/ /\ run[r].pc = "rename"
        /\ \/ Same /\ Fails(r)
           \/ /\ \E c \in Named(Live(run[r].subject)) : Moved(c, Candidate(r))
              /\ Goes(r, "create") \/ Fails(r)
     \/ /\ run[r].pc = "create"
        /\ \/ Same /\ Fails(r)
           \/ /\ Made(Replacement(r), Live(run[r].subject))
              /\ Goes(r, "start") \/ Fails(r)
     \/ /\ run[r].pc = "start"
        /\ \/ Same /\ Fails(r)
           \/ /\ Launched(Replacement(r))
              /\ \/ run[r].subject = Owner /\ Goes(r, "gate")
                 \/ run[r].subject # Owner /\ Goes(r, "rmarchive")
                 \/ Fails(r)

Decides(r) ==
  /\ run[r].pc = "gate" /\ Same /\ run'[r].subject = run[r].subject
  /\ \/ /\ Goes(r, "repair") /\ run'[r].verdict = "healthy" /\ good' = good \cup {New(r)}
        /\ New(r) \in exists /\ (oneShot \/ up[New(r)])
     \/ ~oneShot /\ Goes(r, "rbstop") /\ run'[r].verdict \in {"crashed", "timeout"} /\ good' = good
     \/ oneShot /\ Ends(r, "failed") /\ Keeps(r)

Repairs(r) ==
  /\ Keeps(r)
  /\ \/ /\ run[r].pc = "repair" /\ Same
        /\ \/ Goes(r, "rinspect") /\ run'[r].subject \in Deps
           \/ run[r].verdict = "healthy" /\ Goes(r, "rmold") /\ Stays(r)
           \/ run[r].verdict # "healthy" /\ Ends(r, "rolledback") /\ Stays(r)
     \/ run[r].pc = "rinspect" /\ Same /\ (Goes(r, "repair") \/ Goes(r, "rimage")) /\ Stays(r)
     \/ run[r].pc = "rimage" /\ Same /\ Goes(r, "stop") /\ Stays(r)
     \/ /\ run[r].pc = "rmarchive" /\ Goes(r, "repair") /\ Stays(r)
        /\ Same \/ \E c \in Named(run[r].archive) : ~up[c] /\ Gone(c)
     \/ /\ run[r].pc = "undoname" /\ Stays(r)
        /\ Goes(r, "undostart") \/ Goes(r, "repair")
        /\ Same \/ \E c \in Named(run[r].archive) : Moved(c, Live(run[r].subject))
     \/ /\ run[r].pc = "undostart" /\ Goes(r, "repair") /\ Stays(r)
        /\ Same \/ \E c \in Named(Live(run[r].subject)) : Launched(c)

Finishes(r) ==
  /\ Stays(r)
  /\ \/ /\ run[r].pc = "rmold" /\ Goes(r, "posthook")
        /\ Same \/ \E c \in Named(run[r].old) : ~up[c] /\ Gone(c)
     \/ run[r].pc = "posthook" /\ Same /\ Goes(r, "clean")
     \/ run[r].pc = "clean" /\ Same /\ Goes(r, "prune")
     \/ run[r].pc = "prune" /\ Same /\ Ends(r, "recreated")

RollsBack(r) ==
  /\ Stays(r)
  /\ \/ run[r].pc = "rbstop" /\ Goes(r, "rbremove") /\ (Same \/ Halted(New(r)))
     \/ /\ run[r].pc = "rbremove"
        /\ \/ Same /\ Ends(r, "error")
           \/ New(r) \in exists /\ Gone(New(r)) /\ (Goes(r, "rbrename") \/ Ends(r, "error"))
     \/ /\ run[r].pc = "rbrename"
        /\ \/ Same /\ Ends(r, "error")
           \/ /\ \E c \in Named(run[r].old) : Moved(c, Live(Owner))
              /\ Goes(r, "rbstart") \/ Ends(r, "error")
     \/ /\ run[r].pc = "rbstart"
        /\ \/ Same /\ Ends(r, "error")
           \/ /\ \E c \in Named(Live(Owner)) : Launched(c)
              /\ Goes(r, "repair") \/ Ends(r, "error")

Dies(r) == Active(r) /\ Same /\ Stays(r) /\ Ends(r, "killed")

LEMMA Effects ==
  ASSUME TypeOK, NEW r \in Runs, Step(r) \/ Kill(r)
  PROVE  \/ Prepares(r) \/ Swaps(r) \/ Decides(r) \/ Repairs(r) \/ Finishes(r)
         \/ RollsBack(r) \/ Dies(r)
<1>1. /\ {"pc", "verdict", "outcome", "faulted", "subject", "archive", "old", "tries", "how"}
           \subseteq DOMAIN run[r]
      /\ r \in DOMAIN run
  BY DEF TypeOK, RunState
<1>. DEFINE Puts(t) == Set(r, t) \/ SetFaulted(r, t)
            Still == run'[r].subject = run[r].subject /\ run'[r].verdict = run[r].verdict
<1>2. \A step : Puts(To(r, step)) => Goes(r, step) /\ Still
  BY <1>1 DEF Set, SetFaulted, To, Goes
<1>3. \A outcome : Puts(Over(r, outcome)) => Ends(r, outcome) /\ Still
  BY <1>1 DEF Set, SetFaulted, Over, Ends
<1>4. Puts(SwapFailed(r)) => Fails(r) /\ Still
  BY <1>2, <1>3 DEF SwapFailed, Fails
<1>5. \A step, v : Puts([To(r, step) EXCEPT !.verdict = v])
                     => Goes(r, step) /\ run'[r].subject = run[r].subject /\ run'[r].verdict = v
  BY <1>1 DEF Set, SetFaulted, To, Goes
<1>6. \A v, step, outcome :
        /\ Puts([run[r] EXCEPT !.tries = v]) => Goes(r, run[r].pc) /\ Still
        /\ Puts([run[r] EXCEPT !.cand = v]) => Goes(r, run[r].pc) /\ Still
        /\ Puts([To(r, step) EXCEPT !.tries = v]) => Goes(r, step) /\ Still
        /\ Puts([Over(r, outcome) EXCEPT !.tries = v]) => Ends(r, outcome) /\ Still
  <2>. TAKE v, step, outcome
  <2>1. Puts([run[r] EXCEPT !.tries = v]) => Goes(r, run[r].pc) /\ Still
    BY <1>1 DEF Set, SetFaulted, Goes
  <2>2. Puts([run[r] EXCEPT !.cand = v]) => Goes(r, run[r].pc) /\ Still
    BY <1>1 DEF Set, SetFaulted, Goes
  <2>3. Puts([To(r, step) EXCEPT !.tries = v]) => Goes(r, step) /\ Still
    BY <1>1 DEF Set, SetFaulted, To, Goes
  <2>4. Puts([Over(r, outcome) EXCEPT !.tries = v]) => Ends(r, outcome) /\ Still
    BY <1>1 DEF Set, SetFaulted, Over, Ends
  <2>. QED
    BY <2>1, <2>2, <2>3, <2>4
<1>7. \A v, step :
        /\ Puts([To(r, step) EXCEPT !.todo = v]) => Goes(r, step) /\ Still
        /\ Puts([To(r, step) EXCEPT !.how = v]) => Goes(r, step) /\ Still
        /\ Puts([To(r, step) EXCEPT !.archive = v]) => Goes(r, step) /\ Still
        /\ Puts([To(r, step) EXCEPT !.old = v]) => Goes(r, step) /\ Still
  <2>. TAKE v, step
  <2>1. Puts([To(r, step) EXCEPT !.todo = v]) => Goes(r, step) /\ Still
    BY <1>1 DEF Set, SetFaulted, To, Goes
  <2>2. Puts([To(r, step) EXCEPT !.how = v]) => Goes(r, step) /\ Still
    BY <1>1 DEF Set, SetFaulted, To, Goes
  <2>3. Puts([To(r, step) EXCEPT !.archive = v]) => Goes(r, step) /\ Still
    BY <1>1 DEF Set, SetFaulted, To, Goes
  <2>4. Puts([To(r, step) EXCEPT !.old = v]) => Goes(r, step) /\ Still
    BY <1>1 DEF Set, SetFaulted, To, Goes
  <2>. QED
    BY <2>1, <2>2, <2>3, <2>4
<1>. USE DEF Call, Attempt, ReadFails, docker, Same, Keeps, Stays
<1>10. CASE Kill(r)
  BY <1>3, <1>10 DEF Kill, Dies
<1>11. CASE Begin(r)
  BY <1>2, <1>11 DEF Begin, Prepares
<1>12. CASE Inspect(r)
  <2>1. /\ run[r].pc = "inspect" /\ Same /\ good' = good
        /\ \/ \E c : Set(r, [To(r, "pull") EXCEPT
                            !.before = c, !.target = image[c], !.how = ref[c],
                            !.network = joins[c], !.oldImage = image[c]])
           \/ Puts(Over(r, "error"))
    BY <1>12, ZenonT(40) DEF Inspect
  <2>2. ASSUME NEW c, Set(r, [To(r, "pull") EXCEPT
                                !.before = c, !.target = image[c], !.how = ref[c],
                                !.network = joins[c], !.oldImage = image[c]])
        PROVE  Goes(r, "pull") /\ Still
    BY <1>1, <2>2 DEF Set, To, Goes
  <2>. QED
    BY <1>3, <2>1, <2>2, ZenonT(40) DEF Prepares
<1>13. CASE Pull(r)
  <2>1. /\ run[r].pc = "pull" /\ Same /\ good' = good
        /\ \/ Puts([To(r, "hook") EXCEPT !.tries = 0]) \/ Puts([Over(r, "error") EXCEPT !.tries = 0])
           \/ Puts([run[r] EXCEPT !.tries = @ + 1])
    BY <1>13 DEF Pull, PullImage
  <2>. QED
    BY <1>6, <2>1 DEF Prepares
<1>14. CASE Hook(r)
  BY <1>2, <1>3, <1>14 DEF Hook, Prepares
<1>15. CASE ListDependents(r)
  <2>1. run[r].pc = "list" /\ Same /\ good' = good /\ \E ds : Puts([To(r, "stop") EXCEPT !.todo = ds])
    BY <1>15 DEF ListDependents
  <2>. QED
    BY <1>7, <2>1 DEF Prepares
<1>16. CASE Stop(r)
  <2>1. /\ run[r].pc = "stop" /\ good' = good
        /\ \/ Same /\ Puts(SwapFailed(r))
           \/ /\ \E c \in Named(Live(run[r].subject)) : Halted(c)
              /\ Puts(To(r, "probe")) \/ Puts(SwapFailed(r))
    BY <1>16 DEF Stop, StopContainer, Halted
  <2>. QED
    BY <1>2, <1>4, <2>1 DEF Swaps
<1>17. CASE Probe(r)
  <2>1. /\ run[r].pc = "probe" /\ Same /\ good' = good
        /\ Puts(To(r, "rename")) \/ Puts([run[r] EXCEPT !.cand = @ + 1])
    BY <1>17 DEF Probe
  <2>. QED
    BY <1>2, <1>6, <2>1 DEF Swaps
<1>18. CASE Rename(r)
  <2>1. /\ run[r].pc = "rename" /\ good' = good
        /\ \/ Same /\ Puts(SwapFailed(r))
           \/ /\ \E c \in Named(Live(run[r].subject)) : Moved(c, Candidate(r))
              /\ Puts([To(r, "create") EXCEPT !.archive = Candidate(r)]) \/ Puts(SwapFailed(r))
    BY <1>18 DEF Rename, RenameContainer, Moved, Renamed
  <2>. QED
    BY <1>4, <1>7, <2>1 DEF Swaps
<1>19. CASE Create(r)
  <2>1. /\ run[r].pc = "create" /\ good' = good
        /\ \/ Same /\ Puts(SwapFailed(r))
           \/ /\ Made(Replacement(r), Live(run[r].subject))
              /\ Puts(To(r, "start")) \/ Puts(SwapFailed(r))
    BY <1>19 DEF Create, CreateContainer, CanCreate, Made, Created
  <2>. QED
    BY <1>2, <1>4, <2>1 DEF Swaps
<1>20. CASE Start(r)
  <2>1. /\ run[r].pc = "start" /\ good' = good
        /\ \/ Same /\ Puts(SwapFailed(r))
           \/ /\ Launched(Replacement(r))
              /\ \/ run[r].subject = Owner /\ Puts([To(r, "gate") EXCEPT !.old = run[r].archive])
                 \/ run[r].subject # Owner /\ Puts(To(r, "rmarchive"))
                 \/ Puts(SwapFailed(r))
    BY <1>20 DEF Start, StartContainer, CanStart, Launched
  <2>. QED
    BY <1>2, <1>4, <1>7, <2>1 DEF Swaps
<1>21. CASE Gate(r) \/ OneShotGate(r)
  <2>1. /\ run[r].pc = "gate" /\ Same
        /\ \/ /\ New(r) \in exists /\ (oneShot \/ up[New(r)]) /\ good' = good \cup {New(r)}
              /\ Puts([To(r, "repair") EXCEPT !.verdict = "healthy"])
           \/ /\ ~oneShot /\ good' = good
              /\ \E v \in {"crashed", "timeout"} : Puts([To(r, "rbstop") EXCEPT !.verdict = v])
           \/ oneShot /\ good' = good /\ Puts(Over(r, "failed"))
    BY <1>21 DEF Gate, OneShotGate, Accept, Reject
  <2>. QED
    BY <1>3, <1>5, <2>1 DEF Decides
<1>22. CASE RepairNext(r)
  <2>1. run[r].pc = "repair" /\ Same /\ good' = good
    BY <1>22 DEF RepairNext
  <2>2. PICK n \in run[r].todo :
          Set(r, [To(r, "rinspect") EXCEPT
                    !.subject = n, !.todo = @ \ {n}, !.cand = 0, !.archive = None])
    BY <1>22, ZenonT(40) DEF RepairNext
  <2>3. n \in Deps
    BY DEF TypeOK, RunState
  <2>4. Goes(r, "rinspect") /\ run'[r].subject = n /\ run'[r].verdict = run[r].verdict
    BY <1>1, <2>2 DEF Set, To, Goes
  <2>. QED
    BY <2>1, <2>3, <2>4 DEF Repairs
<1>23. CASE RepairsOver(r)
  BY <1>2, <1>3, <1>23 DEF RepairsOver, Repairs
<1>24. CASE RepairInspect(r)
  <2>1. /\ run[r].pc = "rinspect" /\ Same /\ good' = good
        /\ \/ \E c : Set(r, [To(r, "rimage") EXCEPT !.target = image[c], !.how = ref[c],
                                                    !.network = Rewritten(r, joins[c])])
           \/ Puts(To(r, "repair"))
    BY <1>24, ZenonT(40) DEF RepairInspect
  <2>2. ASSUME NEW c, Set(r, [To(r, "rimage") EXCEPT !.target = image[c], !.how = ref[c],
                                                     !.network = Rewritten(r, joins[c])])
        PROVE  Goes(r, "rimage") /\ Still
    BY <1>1, <2>2 DEF Set, To, Goes
  <2>. QED
    BY <1>2, <2>1, <2>2, ZenonT(40) DEF Repairs
<1>25. CASE RepairImage(r)
  <2>1. /\ run[r].pc = "rimage" /\ Same /\ good' = good
        /\ Puts(To(r, "stop")) \/ Puts([To(r, "stop") EXCEPT !.how = "id"])
    BY <1>25 DEF RepairImage
  <2>. QED
    BY <1>2, <1>7, <2>1 DEF Repairs
<1>26. CASE RemoveDependentArchive(r)
  <2>1. /\ run[r].pc = "rmarchive" /\ good' = good /\ Puts(To(r, "repair"))
        /\ Same \/ \E c \in Named(run[r].archive) : ~up[c] /\ Gone(c)
    BY <1>26 DEF RemoveDependentArchive, RemoveNamed, CanRemove, RemoveContainer, Gone, Removed
  <2>. QED
    BY <1>2, <2>1 DEF Repairs
<1>27. CASE UndoRename(r)
  <2>1. /\ run[r].pc = "undoname" /\ good' = good
        /\ Puts(To(r, "undostart")) \/ Puts(To(r, "repair"))
        /\ Same \/ \E c \in Named(run[r].archive) : Moved(c, Live(run[r].subject))
    BY <1>27 DEF UndoRename, RenameContainer, Moved, Renamed
  <2>. QED
    BY <1>2, <2>1 DEF Repairs
<1>28. CASE UndoStart(r)
  <2>1. /\ run[r].pc = "undostart" /\ good' = good /\ Puts(To(r, "repair"))
        /\ Same \/ \E c \in Named(Live(run[r].subject)) : Launched(c)
    BY <1>28 DEF UndoStart, StartNamed, StartContainer, CanStart, Launched
  <2>. QED
    BY <1>2, <2>1 DEF Repairs
<1>29. CASE RemoveOld(r)
  <2>1. /\ run[r].pc = "rmold" /\ good' = good /\ Puts(To(r, "posthook"))
        /\ Same \/ \E c \in Named(run[r].old) : ~up[c] /\ Gone(c)
    BY <1>29 DEF RemoveOld, RemoveNamed, CanRemove, RemoveContainer, Gone, Removed
  <2>. QED
    BY <1>2, <2>1 DEF Finishes
<1>30. CASE PostHook(r) \/ CleanImage(r) \/ Prune(r)
  <2>1. /\ Same /\ good' = good
        /\ \/ run[r].pc = "posthook" /\ Puts(To(r, "clean"))
           \/ run[r].pc = "clean" /\ Puts(To(r, "prune"))
           \/ run[r].pc = "prune" /\ Puts(Over(r, "recreated"))
    BY <1>30 DEF PostHook, CleanImage, Prune, RemoveImage, PruneImages
  <2>. QED
    BY <1>2, <1>3, <2>1 DEF Finishes
<1>31. CASE RollbackStop(r)
  <2>1. /\ run[r].pc = "rbstop" /\ good' = good /\ Puts(To(r, "rbremove"))
        /\ Same \/ Halted(New(r))
    BY <1>31 DEF RollbackStop, StopContainer, Halted
  <2>. QED
    BY <1>2, <2>1 DEF RollsBack
<1>32. CASE RollbackRemove(r)
  <2>1. /\ run[r].pc = "rbremove" /\ good' = good
        /\ \/ Same /\ Puts(Over(r, "error"))
           \/ /\ New(r) \in exists /\ Gone(New(r))
              /\ Puts(To(r, "rbrename")) \/ Puts(Over(r, "error"))
    BY <1>32 DEF RollbackRemove, RemoveContainer, Gone, Removed
  <2>. QED
    BY <1>2, <1>3, <2>1 DEF RollsBack
<1>33. CASE RollbackRename(r)
  <2>1. /\ run[r].pc = "rbrename" /\ good' = good
        /\ \/ Same /\ Puts(Over(r, "error"))
           \/ /\ \E c \in Named(run[r].old) : Moved(c, Live(Owner))
              /\ Puts(To(r, "rbstart")) \/ Puts(Over(r, "error"))
    BY <1>33 DEF RollbackRename, RenameContainer, Moved, Renamed
  <2>. QED
    BY <1>2, <1>3, <2>1 DEF RollsBack
<1>34. CASE RollbackStart(r)
  <2>1. /\ run[r].pc = "rbstart" /\ good' = good
        /\ \/ Same /\ Puts(Over(r, "error"))
           \/ /\ \E c \in Named(Live(Owner)) : Launched(c)
              /\ Puts(To(r, "repair")) \/ Puts(Over(r, "error"))
    BY <1>34 DEF RollbackStart, StartNamed, StartContainer, CanStart, Launched
  <2>. QED
    BY <1>2, <1>3, <2>1 DEF RollsBack
<1>. QED
  BY <1>10, <1>11, <1>12, <1>13, <1>14, <1>15, <1>16, <1>17, <1>18, <1>19, <1>20, <1>21, <1>22, <1>23,
     <1>24, <1>25, <1>26, <1>27, <1>28, <1>29, <1>30, <1>31, <1>32, <1>33, <1>34 DEF Step

-----------------------------------------------------------------------------
(* Which containers run.                                                   *)

NoneUp == \A c \in exists : c[2] = Owner => ~up[c]
OnlyUp(d) == \A c \in exists : c[2] = Owner /\ up[c] => c = d
SomeUp == \E c \in exists : c[2] = Owner /\ up[c]

\* What runs is under a live name: archives are stopped.
UpLive == \A c \in exists : up[c] => name[c] = Live(c[2])

\* What is about to be archived is stopped, what is about to be started is under its
\* service's name.
SwapSound(r) ==
  /\ run[r].pc \in {"probe", "rename"} => \A c \in Named(Live(run[r].subject)) : ~up[c]
  /\ run[r].pc = "start" /\ Replacement(r) \in exists
       => name[Replacement(r)] = Live(run[r].subject)

\* The owner from phase to phase: down during its swap, the replacement alone on trial;
\* after a good verdict the replacement runs, after a bad one a container that is not
\* the replacement.  (A one-shot that is over runs no more.)
OwnerSound(r) ==
  /\ run[r].pc \in {"probe", "rename", "create", "start"} /\ run[r].verdict = "none" => NoneUp
  /\ run[r].pc \in {"gate", "rbstop", "rbremove"} => OnlyUp(New(r))
  /\ run[r].pc \in {"rbrename", "rbstart"} => NoneUp /\ New(r) \notin exists
  /\ Active(r) /\ run[r].verdict = "healthy" /\ ~oneShot => up[New(r)]
  /\ Active(r) /\ run[r].verdict \in {"timeout", "crashed"} => ~oneShot
  /\ Active(r) /\ run[r].verdict \in {"timeout", "crashed"} /\ run[r].pc \notin RollbackSteps
       => New(r) \notin exists /\ SomeUp

OwnerInv == UpLive /\ \A r \in Runs : SwapSound(r) /\ OwnerSound(r)

\* What the earlier invariants say where update r is.
LEMMA Footing ==
  ASSUME TypeOK, NamesSound, PhasesSound, NEW r \in Runs
  PROVE  /\ run[r] \in RunState /\ PhaseSound(run[r])
         /\ exists \subseteq Ids /\ name \in [Ids -> Names] /\ up \in [Ids -> BOOLEAN]
         /\ \A c, nm : c \in Named(nm) <=> c \in exists /\ name[c] = nm
         /\ \A c \in exists : name[c][1] = c[2]
         /\ \A c, d \in exists : name[c] = name[d] => c = d
         /\ New(r) \in Ids /\ New(r)[2] = Owner /\ Owner \notin Deps
         /\ Replacement(r) \in Ids /\ Replacement(r)[2] = run[r].subject
         /\ run[r].subject = Owner => Replacement(r) = New(r)
         /\ \A n : Live(n)[1] = n /\ Live(n)[2] = 0
<1>1. run[r] \in RunState /\ PhaseSound(run[r])
  BY DEF TypeOK, PhasesSound
<1>2. exists \subseteq Ids /\ name \in [Ids -> Names] /\ up \in [Ids -> BOOLEAN]
  BY DEF TypeOK, DockerTypeOK
<1>3. \A c, nm : c \in Named(nm) <=> c \in exists /\ name[c] = nm
  BY DEF Named
<1>4. (\A c \in exists : name[c][1] = c[2]) /\ \A c, d \in exists : name[c] = name[d] => c = d
  BY DEF NamesSound
<1>5. New(r) \in Ids /\ New(r)[2] = Owner /\ Owner \notin Deps
  BY DaemonAssumption DEF New, Ids, ServiceNames
<1>6. /\ Replacement(r) \in Ids /\ Replacement(r)[2] = run[r].subject
      /\ run[r].subject = Owner => Replacement(r) = New(r)
  BY <1>1 DEF Replacement, New, Ids, RunState
<1>7. \A n : Live(n)[1] = n /\ Live(n)[2] = 0
  BY DEF Live
<1> QED
  BY <1>1, <1>2, <1>3, <1>4, <1>5, <1>6, <1>7

\* The archives that r knows of are its subject's and the owner's.
LEMMA Archives ==
  ASSUME TypeOK, NamesSound, PhasesSound, NEW r \in Runs
  PROVE  /\ \A c \in Named(run[r].archive) : c[2] = run[r].subject /\ name[c] # Live(c[2])
         /\ \A c \in Named(run[r].old) : c[2] = Owner /\ name[c] # Live(c[2])
<1>1. None \notin Names /\ run[r].archive \in Names \cup {None} /\ run[r].old \in Names \cup {None}
  BY Footing, ReferenceAssumption DEF RunState
<1>2. ASSUME NEW c \in Named(run[r].archive) PROVE c[2] = run[r].subject /\ name[c] # Live(c[2])
  <2>1. name[c] = run[r].archive /\ c \in exists /\ name[c] \in Names
    BY Footing
  <2>2. run[r].archive[1] = run[r].subject /\ run[r].archive[2] # 0
    BY <1>1, <2>1, Footing DEF PhaseSound
  <2> QED
    BY <2>1, <2>2, Footing
<1>3. ASSUME NEW c \in Named(run[r].old) PROVE c[2] = Owner /\ name[c] # Live(c[2])
  <2>1. name[c] = run[r].old /\ c \in exists /\ name[c] \in Names
    BY Footing
  <2>2. run[r].old[1] = Owner /\ run[r].old[2] # 0
    BY <1>1, <2>1, Footing DEF PhaseSound
  <2> QED
    BY <2>1, <2>2, Footing
<1> QED
  BY <1>2, <1>3

LEMMA UpLiveStep ==
  ASSUME TypeOK, NamesSound, PhasesSound, OwnerInv, NEW r \in Runs, Step(r) \/ Kill(r)
  PROVE  UpLive'
<1>1. UpLive /\ SwapSound(r)
  BY DEF OwnerInv
<1>2. CASE Same
  BY <1>1, <1>2 DEF Same, UpLive
<1>3. ASSUME NEW c, Halted(c) \/ Gone(c) PROVE UpLive'
  BY <1>1, <1>3, Footing DEF Halted, Gone, Removed, UpLive
<1>4. ASSUME NEW c \in Ids, Launched(c), name[c] = Live(c[2]) PROVE UpLive'
  BY <1>1, <1>4, Footing DEF Launched, UpLive
<1>5. ASSUME NEW c \in Ids, NEW nm, Moved(c, nm), ~up[c] \/ nm = Live(c[2]) PROVE UpLive'
  BY <1>1, <1>5, Footing DEF Moved, Renamed, UpLive
<1>6. ASSUME NEW nm, Made(Replacement(r), nm) PROVE UpLive'
  BY <1>1, <1>6, Footing DEF Made, Created, UpLive
<1>7. CASE Prepares(r) \/ Decides(r) \/ Dies(r)
  BY <1>2, <1>7 DEF Prepares, Decides, Dies
<1>8. CASE Swaps(r)
  <2>1. ASSUME run[r].pc = "rename", NEW c \in Named(Live(run[r].subject)), Moved(c, Candidate(r))
        PROVE  UpLive'
    BY <1>1, <1>5, <2>1, Footing DEF SwapSound
  <2>2. ASSUME run[r].pc = "start", Launched(Replacement(r)) PROVE UpLive'
    BY <1>1, <1>4, <2>2, Footing DEF SwapSound, Launched
  <2> QED
    BY <1>2, <1>3, <1>6, <1>8, <2>1, <2>2 DEF Swaps
<1>9. CASE Repairs(r)
  <2>1. ASSUME NEW c \in Named(run[r].archive), Moved(c, Live(run[r].subject)) PROVE UpLive'
    BY <1>5, <2>1, Footing, Archives
  <2>2. ASSUME NEW c \in Named(Live(run[r].subject)), Launched(c) PROVE UpLive'
    BY <1>4, <2>2, Footing
  <2> QED
    BY <1>2, <1>3, <1>9, <2>1, <2>2 DEF Repairs
<1>10. CASE Finishes(r)
  BY <1>2, <1>3, <1>10 DEF Finishes
<1>11. CASE RollsBack(r)
  <2>1. ASSUME NEW c \in Named(run[r].old), Moved(c, Live(Owner)) PROVE UpLive'
    BY <1>5, <2>1, Footing, Archives
  <2>2. ASSUME NEW c \in Named(Live(Owner)), Launched(c) PROVE UpLive'
    BY <1>4, <2>2, Footing
  <2> QED
    BY <1>2, <1>3, <1>11, <2>1, <2>2 DEF RollsBack
<1> QED
  BY <1>7, <1>8, <1>9, <1>10, <1>11, Effects

LEMMA SwapSoundStep ==
  ASSUME TypeOK, NamesSound, PhasesSound, OwnerInv, NEW r \in Runs, Step(r) \/ Kill(r)
  PROVE  SwapSound(r)'
<1>1. SwapSound(r)
  BY DEF OwnerInv
<1>2. CASE run'[r].pc \notin {"probe", "rename", "start"}
  BY <1>2 DEF SwapSound
<1>3. CASE run'[r].pc \in {"probe", "rename"}
  <2>1. Swaps(r)
    BY <1>3, Effects DEF Prepares, Decides, Repairs, Finishes, RollsBack, Dies, Goes, Ends
  <2>2. /\ run'[r].subject = run[r].subject
        /\ \/ run[r].pc = "probe" /\ Same
           \/ \E c \in Named(Live(run[r].subject)) : Halted(c)
    BY <1>3, <2>1 DEF Swaps, Stays, Goes, Fails, Ends
  <2>3. CASE run[r].pc = "probe" /\ Same
    BY <1>1, <1>3, <2>2, <2>3 DEF SwapSound, Same, Named, Live
  <2>4. ASSUME NEW c \in Named(Live(run[r].subject)), Halted(c) PROVE SwapSound(r)'
    <3>1. \A d \in Named(Live(run[r].subject)) : d = c
      BY Footing
    <3>2. c \in Ids
      BY Footing
    <3> QED
      BY <1>3, <2>2, <2>4, <3>1, <3>2, Footing DEF SwapSound, Halted, Named
  <2> QED
    BY <2>2, <2>3, <2>4
<1>4. CASE run'[r].pc = "start"
  <2>1. Swaps(r)
    BY <1>4, Effects DEF Prepares, Decides, Repairs, Finishes, RollsBack, Dies, Goes, Ends
  <2>2. run'[r].subject = run[r].subject /\ Made(Replacement(r), Live(run[r].subject))
    BY <1>4, <2>1 DEF Swaps, Stays, Goes, Fails, Ends
  <2> QED
    BY <1>4, <2>2, Footing DEF SwapSound, Made, Created, Replacement
<1> QED
  BY <1>2, <1>3, <1>4

\* What is done for a dependent leaves the owner's containers as they are.
OwnersSame ==
  \A c \in Ids : c[2] = Owner => (c \in exists' <=> c \in exists) /\ up'[c] = up[c] /\ name'[c] = name[c]

LEMMA OwnersUntouched ==
  ASSUME TypeOK, NamesSound, PhasesSound, NEW r \in Runs,
         Repairs(r) \/ Swaps(r), run[r].verdict # "none"
  PROVE  OwnersSame
<1>1. run[r].pc # "repair" /\ (Repairs(r) => run[r].pc \in RepairSteps) /\ (Swaps(r) => run[r].pc \in SwapSteps)
        => run[r].subject \in Deps
  BY Footing DEF PhaseSound
<1>2. (Repairs(r) => run[r].pc \in RepairSteps) /\ (Swaps(r) => run[r].pc \in SwapSteps)
  BY DEF Repairs, Swaps, RepairSteps, SwapSteps
<1>3. CASE Same
  BY <1>3 DEF Same, OwnersSame
<1>4. ASSUME NEW c, c[2] # Owner,
             \/ Halted(c) \/ Launched(c) \/ Gone(c) \/ \E nm : Moved(c, nm) \/ Made(c, nm)
      PROVE  OwnersSame
  BY <1>4, Footing DEF OwnersSame, Halted, Launched, Gone, Removed, Moved, Renamed, Made, Created
<1>5. CASE run[r].pc # "repair"
  <2>1. run[r].subject # Owner
    BY <1>1, <1>2, <1>5, Footing
  <2>2. \A c \in Named(Live(run[r].subject)) \cup Named(run[r].archive) \cup {Replacement(r)} : c[2] # Owner
    BY <2>1, Footing, Archives
  <2>3. CASE Repairs(r)
    BY <1>3, <1>4, <1>5, <2>2, <2>3 DEF Repairs
  <2>4. CASE Swaps(r)
    BY <1>3, <1>4, <2>2, <2>4 DEF Swaps
  <2> QED
    BY <2>3, <2>4
<1>6. CASE run[r].pc = "repair"
  BY <1>3, <1>6 DEF Repairs, Swaps
<1> QED
  BY <1>5, <1>6

LEMMA OwnerSoundStep ==
  ASSUME TypeOK, NamesSound, PhasesSound, OwnerInv, NEW r \in Runs, Step(r) \/ Kill(r)
  PROVE  OwnerSound(r)'
<1>1. OwnerSound(r) /\ UpLive /\ oneShot' = oneShot /\ New(r)' = New(r)
  BY KindKept DEF OwnerInv, New
<1>2. CASE run'[r].pc = "done"
  BY <1>2 DEF OwnerSound, Active, RollbackSteps
<1>3. CASE Prepares(r)
  <2>1. run'[r].verdict = "none" /\ run'[r].pc \in {"inspect", "pull", "hook", "list", "stop", "done"}
    BY <1>3, Footing DEF Prepares, PhaseSound, Stays, Keeps, Goes, Ends
  <2> QED
    BY <2>1 DEF OwnerSound
<1>4. CASE Decides(r)
  <2>1. OnlyUp(New(r)) /\ Same
    BY <1>1, <1>4 DEF Decides, OwnerSound
  <2>2. CASE run'[r].pc = "repair" /\ run'[r].verdict = "healthy" /\ (oneShot \/ up[New(r)])
    BY <1>1, <2>1, <2>2 DEF OwnerSound, Same, Active
  <2>3. CASE run'[r].pc = "rbstop" /\ run'[r].verdict \in {"crashed", "timeout"} /\ ~oneShot
    BY <1>1, <2>1, <2>3 DEF OwnerSound, OnlyUp, New, Same, RollbackSteps
  <2> QED
    BY <1>2, <1>4, <2>2, <2>3 DEF Decides, Goes, Ends
<1>5. CASE (Repairs(r) \/ Swaps(r)) /\ run[r].verdict # "none"
  <2>1. OwnersSame /\ run'[r].verdict = run[r].verdict /\ Active(r)
    BY <1>5, OwnersUntouched DEF Repairs, Swaps, Stays, Keeps, Active
  <2>2. run[r].pc \notin RollbackSteps
    BY <1>5 DEF Repairs, Swaps, RollbackSteps
  <2>3. run'[r].pc \notin {"gate", "rbstop", "rbremove", "rbrename", "rbstart"}
    <3>1. CASE Repairs(r)
      BY <3>1 DEF Repairs, Goes, Ends
    <3>2. CASE Swaps(r)
      <4>1. run[r].pc \in SwapSteps
        BY <3>2 DEF Swaps, SwapSteps
      <4>2. run[r].subject # Owner
        BY <1>5, <4>1, Footing DEF PhaseSound
      <4> QED
        BY <3>2, <4>2 DEF Swaps, Goes, Fails
    <3> QED
      BY <1>5, <3>1, <3>2
  <2>4. SomeUp => SomeUp'
    BY <2>1, Footing DEF SomeUp, OwnersSame
  <2>5. New(r) \in Ids /\ (New(r) \notin exists => New(r) \notin exists') /\ up'[New(r)] = up[New(r)]
    BY <2>1, Footing DEF OwnersSame
  <2> QED
    BY <1>1, <1>5, <2>1, <2>2, <2>3, <2>4, <2>5 DEF OwnerSound
<1>6. CASE Swaps(r) /\ run[r].verdict = "none"
  <2>1. run[r].subject = Owner /\ run'[r].verdict = "none"
    BY <1>6, Footing DEF Swaps, PhaseSound, Stays, Keeps
  <2>2. CASE run'[r].pc = "probe" /\ \E c \in Named(Live(Owner)) : Halted(c)
    <3>1. PICK c \in Named(Live(Owner)) : Halted(c)
      BY <2>2
    <3>2. \A d \in exists : d[2] = Owner /\ up[d] => d = c
      BY <1>1, Footing DEF UpLive
    <3>3. NoneUp'
      BY <3>1, <3>2, Footing DEF NoneUp, Halted
    <3> QED
      BY <2>1, <2>2, <3>3 DEF OwnerSound
  <2>3. CASE run'[r].pc \in {"probe", "rename"} /\ run[r].pc = "probe" /\ Same
    BY <1>1, <1>6, <2>1, <2>3 DEF OwnerSound, NoneUp, Same
  <2>4. CASE run'[r].pc = "create" /\ run[r].pc = "rename" /\ \E c, nm : Moved(c, nm)
    BY <1>1, <1>6, <2>1, <2>4 DEF OwnerSound, NoneUp, Moved, Renamed
  <2>5. CASE run'[r].pc = "start" /\ run[r].pc = "create" /\ \E nm : Made(Replacement(r), nm)
    BY <1>1, <1>6, <2>1, <2>5, Footing DEF OwnerSound, NoneUp, Made, Created
  <2>6. CASE run'[r].pc = "gate" /\ run[r].pc = "start" /\ Launched(Replacement(r))
    <3>1. NoneUp /\ Launched(New(r))
      BY <1>1, <1>6, <2>1, <2>6, Footing DEF OwnerSound
    <3>2. OnlyUp(New(r))'
      BY <3>1, Footing DEF NoneUp, OnlyUp, Launched, New
    <3> QED
      BY <2>1, <2>6, <3>2 DEF OwnerSound, New
  <2> QED
    BY <1>2, <1>6, <2>1, <2>2, <2>3, <2>4, <2>5, <2>6 DEF Swaps, Goes, Fails, Ends
<1>7. CASE Finishes(r)
  <2>1. run'[r].verdict = run[r].verdict /\ Active(r) /\ run[r].pc \notin RollbackSteps
        /\ run'[r].pc \in {"posthook", "clean", "prune", "done"}
    BY <1>7 DEF Finishes, Stays, Keeps, Active, Goes, Ends, RollbackSteps
  <2>2. CASE Same
    BY <1>1, <2>1, <2>2 DEF OwnerSound, Same, SomeUp
  <2>3. ASSUME run[r].pc = "rmold", NEW c, ~up[c], Gone(c)
        PROVE  OwnerSound(r)'
    <3>1. run[r].verdict = "healthy"
      BY <2>3, Footing DEF PhaseSound
    <3>2. ~oneShot => up'[New(r)]
      BY <1>1, <2>1, <2>3, <3>1, Footing DEF OwnerSound, Gone
    <3> QED
      BY <1>1, <2>1, <3>1, <3>2 DEF OwnerSound
  <2> QED
    BY <1>7, <2>2, <2>3 DEF Finishes
<1>8. CASE RollsBack(r)
  <2>1. run'[r].verdict = run[r].verdict /\ run[r].verdict \in {"timeout", "crashed"} /\ Active(r)
    <3>1. run[r].pc \in RollbackSteps
      BY <1>8 DEF RollsBack, RollbackSteps
    <3> QED
      BY <1>8, <3>1, Footing DEF RollsBack, Stays, Keeps, PhaseSound, Active, RollbackSteps
  <2>2. ~oneShot
    BY <1>1, <2>1 DEF OwnerSound
  <2>3. CASE run'[r].pc = "rbremove" /\ run[r].pc = "rbstop" /\ (Same \/ Halted(New(r)))
    <3>1. OnlyUp(New(r))'
      BY <1>1, <2>3, Footing DEF OwnerSound, OnlyUp, Same, Halted, New
    <3> QED
      BY <1>1, <2>1, <2>2, <2>3, <3>1 DEF OwnerSound, New, RollbackSteps
  <2>4. CASE run'[r].pc = "rbrename" /\ run[r].pc = "rbremove" /\ Gone(New(r))
    <3>1. NoneUp' /\ New(r) \notin exists'
      BY <1>1, <2>4, Footing DEF OwnerSound, OnlyUp, NoneUp, Gone, Removed
    <3> QED
      BY <1>1, <2>1, <2>2, <2>4, <3>1 DEF OwnerSound, RollbackSteps
  <2>5. CASE run'[r].pc = "rbstart" /\ run[r].pc = "rbrename" /\ \E c, nm : Moved(c, nm)
    <3>1. NoneUp' /\ New(r) \notin exists'
      BY <1>1, <2>5 DEF OwnerSound, NoneUp, Moved, Renamed
    <3> QED
      BY <1>1, <2>1, <2>2, <2>5, <3>1 DEF OwnerSound, RollbackSteps
  <2>6. CASE run'[r].pc = "repair" /\ run[r].pc = "rbstart" /\ \E c \in Named(Live(Owner)) : Launched(c)
    <3>1. New(r) \notin exists'
      BY <1>1, <2>6 DEF OwnerSound, Launched
    <3>2. SomeUp'
      BY <2>6, Footing DEF SomeUp, Launched
    <3> QED
      BY <1>1, <2>1, <2>2, <2>6, <3>1, <3>2 DEF OwnerSound
  <2> QED
    BY <1>2, <1>8, <2>3, <2>4, <2>5, <2>6 DEF RollsBack, Goes, Ends
<1>9. CASE Dies(r)
  BY <1>2, <1>9 DEF Dies, Ends
<1>10. Repairs(r) => run[r].verdict # "none"
  BY Footing DEF Repairs, PhaseSound, RepairSteps
<1> QED
  BY <1>3, <1>4, <1>5, <1>6, <1>7, <1>8, <1>9, <1>10, Effects

LEMMA OwnerStep ==
  ASSUME ~Overlap, TypeOK, IInv, OwnerInv, NEW r \in Runs, Step(r) \/ Kill(r)
  PROVE  OwnerInv'
<1>1. ASSUME NEW s \in Runs \ {r} PROVE SwapSound(s)' /\ OwnerSound(s)'
  <2>1. run'[s] = run[s] /\ run'[s].pc \in {"idle", "done"}
    BY OnlyActive DEF IInv, Active
  <2> QED
    BY <2>1 DEF SwapSound, OwnerSound, Active
<1>2. NamesSound /\ PhasesSound
  BY DEF IInv
<1> QED
  BY <1>1, <1>2, UpLiveStep, SwapSoundStep, OwnerSoundStep DEF OwnerInv

\* A container that exits by itself is a finished one-shot, or a replacement on trial.
LEMMA ExitStep ==
  ASSUME ~Overlap, TypeOK, IInv, OwnerInv, NEW c \in Ids, Exit(c)
  PROVE  OwnerInv'
<1>1. UNCHANGED <<exists, name, oneShot, run>> /\ up' = [up EXCEPT ![c] = FALSE] /\ c[2] = Owner
  BY DEF Exit, StopContainer
<1>2. up \in [Ids -> BOOLEAN] /\ exists \subseteq Ids
  BY DEF TypeOK, DockerTypeOK
<1>3. UpLive'
  BY <1>1, <1>2 DEF OwnerInv, UpLive
<1>4. ASSUME NEW r \in Runs PROVE SwapSound(r)' /\ OwnerSound(r)'
  <2>1. SwapSound(r) /\ OwnerSound(r) /\ PhaseSound(run[r])
    BY DEF OwnerInv, IInv, PhasesSound
  <2>2. SwapSound(r)'
    BY <1>1, <1>2, <2>1 DEF SwapSound, Named, Live, Replacement
  <2>3. CASE oneShot
    <3>1. Active(r) => run[r].verdict \notin {"timeout", "crashed"}
      BY <2>1, <2>3 DEF OwnerSound
    <3>2. (NoneUp => NoneUp') /\ (OnlyUp(New(r)) => OnlyUp(New(r))')
      BY <1>1, <1>2 DEF NoneUp, OnlyUp, New
    <3>3. run' = run /\ exists' = exists /\ oneShot' = oneShot /\ New(r)' = New(r) /\ (Active(r)' <=> Active(r))
      BY <1>1 DEF New, Active
    <3>4. OwnerSound(r)'
      BY <2>1, <2>3, <3>1, <3>2, <3>3 DEF OwnerSound
    <3> QED
      BY <2>2, <3>4
  <2>4. CASE ~oneShot
    <3>1. PICK s \in Runs : c = New(s) /\ run[s].pc = "gate"
      BY <2>4 DEF Exit
    <3>2. Active(r) => r = s
      BY <3>1 DEF IInv, OneAtATime, Active
    <3>3. Active(r) => run[r].verdict = "none"
      BY <2>1, <3>1, <3>2 DEF PhaseSound
    <3> QED
      BY <1>1, <1>2, <2>1, <2>2, <3>3 DEF OwnerSound, Active, NoneUp, OnlyUp, New
  <2> QED
    BY <2>2, <2>3, <2>4
<1> QED
  BY <1>3, <1>4 DEF OwnerInv

LEMMA OwnerInvariant == ASSUME ~Overlap PROVE Spec => []OwnerInv
<1>1. Init => OwnerInv
  <2> SUFFICES ASSUME Init PROVE OwnerInv
    OBVIOUS
  <2>1. \A c \in exists : c \in Ids
    BY DEF Init, DockerInit, Ids
  <2>2. UpLive
    BY <2>1 DEF Init, DockerInit, UpLive
  <2>3. \A r \in Runs : run[r].pc = "idle"
    BY DEF Init, Fresh
  <2> QED
    BY <2>2, <2>3 DEF OwnerInv, SwapSound, OwnerSound, Active
<1>2. TypeOK /\ IInv /\ OwnerInv /\ [Next]_vars => OwnerInv'
  <2> SUFFICES ASSUME TypeOK, IInv, OwnerInv, [Next]_vars PROVE OwnerInv'
    OBVIOUS
  <2>1. CASE UNCHANGED vars
    BY <2>1 DEF vars, docker, OwnerInv, UpLive, SwapSound, OwnerSound, Active, NoneUp, OnlyUp, SomeUp,
       Named, Live, New, Replacement
  <2> QED
    BY <2>1, OwnerStep, ExitStep DEF Next
<1> QED
  BY <1>1, <1>2, TypeCorrect, SerialInvariant, PTL DEF Spec

\* Updates that follow one another never have two containers of a service running at
\* once, be it the owner or a dependent.  (AtMostOneUp of the run.)
THEOREM OneUpAtATime == ASSUME ~Overlap PROVE Spec => []AtMostOneUp
<1>1. IInv /\ OwnerInv => AtMostOneUp
  BY DEF IInv, NamesSound, OwnerInv, UpLive, AtMostOneUp
<1> QED
  BY <1>1, SerialInvariant, OwnerInvariant, PTL

-----------------------------------------------------------------------------
(* The image of a repaired dependent.                                      *)

\* A repair re-creates from the image that was running: by its id, or by the tag as long
\* as that resolves to it.
RepairSound(r) ==
  /\ run[r].pc = "rimage" => run[r].target = FirstImage
  /\ run[r].pc \in SwapSteps /\ run[r].verdict # "none" =>
       /\ run[r].target = FirstImage
       /\ run[r].how = "tag" => tag = run[r].target

ImageInv == RepairNeverUpgrades /\ \A r \in Runs : RepairSound(r)

LEMMA ImageEffects ==
  ASSUME TypeOK, NEW r \in Runs, Step(r) \/ Kill(r)
  PROVE  /\ \/ image' = image /\ exists' \subseteq exists
            \/ /\ run[r].pc = "create" /\ exists' = exists \cup {Replacement(r)}
               /\ image' = [image EXCEPT ![Replacement(r)] = Resolved(run[r].how, run[r].target)]
         /\ run'[r].pc = "rimage" =>
              run[r].pc = "rinspect" /\ \E c \in Named(Live(run[r].subject)) : run'[r].target = image[c]
         /\ run'[r].pc \in {"stop", "probe", "rename", "create", "start"} /\ run[r].pc # "list" =>
              /\ tag' = tag /\ run'[r].target = run[r].target
              /\ run[r].pc \in {"rimage", "stop", "probe", "rename", "create", "start"}
              /\ \/ run'[r].how = "id"
                 \/ run[r].pc = "rimage" /\ tag = run[r].target
                 \/ run[r].pc # "rimage" /\ run'[r].how = run[r].how
<1>1. /\ {"pc", "verdict", "outcome", "faulted", "subject", "target", "how"} \subseteq DOMAIN run[r]
      /\ r \in DOMAIN run
  BY DEF TypeOK, RunState
<1>. USE <1>1 DEF Set, SetFaulted, To, Over, Call, Attempt, ReadFails, docker
<1>2. CASE Kill(r)
  BY <1>2 DEF Kill
<1>3. CASE Begin(r)
  BY <1>3 DEF Begin
<1>4. CASE Inspect(r)
  BY <1>4, ZenonT(60) DEF Inspect
<1>5. CASE Pull(r)
  BY <1>5, ZenonT(60) DEF Pull, PullImage
<1>6. CASE Hook(r)
  BY <1>6 DEF Hook
<1>7. CASE ListDependents(r)
  BY <1>7 DEF ListDependents
<1>8. /\ \A step : Set(r, To(r, step)) \/ SetFaulted(r, To(r, step))
           => run'[r].pc = step /\ run'[r].target = run[r].target /\ run'[r].how = run[r].how
      /\ Set(r, SwapFailed(r)) \/ SetFaulted(r, SwapFailed(r))
           => run'[r].pc \in {"done", "repair", "undoname"}
  <2>1. \A step : Set(r, To(r, step)) \/ SetFaulted(r, To(r, step))
          => run'[r].pc = step /\ run'[r].target = run[r].target /\ run'[r].how = run[r].how
    OBVIOUS
  <2>2. Set(r, Over(r, "error")) \/ SetFaulted(r, Over(r, "error")) => run'[r].pc = "done"
    OBVIOUS
  <2>3. Set(r, SwapFailed(r)) \/ SetFaulted(r, SwapFailed(r)) => run'[r].pc \in {"done", "repair", "undoname"}
    <3> HIDE DEF Set, SetFaulted, To, Over
    <3> QED
      BY <2>1, <2>2 DEF SwapFailed
  <2> QED
    BY <2>1, <2>3
<1>9. CASE Stop(r) \/ Probe(r) \/ Rename(r) \/ Create(r) \/ Start(r)
  <2>1. CASE Probe(r)
    BY <2>1 DEF Probe
  <2>2. CASE Stop(r)
    <3>1. /\ run[r].pc = "stop" /\ UNCHANGED <<image, tag, exists>>
          /\ Set(r, To(r, "probe")) \/ Set(r, SwapFailed(r)) \/ SetFaulted(r, SwapFailed(r))
      BY <2>2 DEF Stop, StopContainer
    <3> HIDE DEF Set, SetFaulted
    <3> QED
      BY <1>8, <3>1
  <2>3. CASE Rename(r)
    <3>1. /\ run[r].pc = "rename" /\ UNCHANGED <<image, tag, exists>>
          /\ \/ Set(r, [To(r, "create") EXCEPT !.archive = Candidate(r)])
             \/ Set(r, SwapFailed(r)) \/ SetFaulted(r, SwapFailed(r))
      BY <2>3 DEF Rename, RenameContainer
    <3>2. Set(r, [To(r, "create") EXCEPT !.archive = Candidate(r)])
            => run'[r].pc = "create" /\ run'[r].target = run[r].target /\ run'[r].how = run[r].how
      OBVIOUS
    <3> HIDE DEF Set, SetFaulted
    <3> QED
      BY <1>8, <3>1, <3>2
  <2>4. CASE Create(r)
    <3>1. /\ run[r].pc = "create" /\ tag' = tag
          /\ \/ UNCHANGED <<image, exists>>
             \/ /\ exists' = exists \cup {Replacement(r)}
                /\ image' = [image EXCEPT ![Replacement(r)] = Resolved(run[r].how, run[r].target)]
          /\ Set(r, To(r, "start")) \/ Set(r, SwapFailed(r)) \/ SetFaulted(r, SwapFailed(r))
      BY <2>4 DEF Create, CreateContainer
    <3> HIDE DEF Set, SetFaulted
    <3> QED
      BY <1>8, <3>1
  <2>5. CASE Start(r)
    <3>1. /\ run[r].pc = "start" /\ UNCHANGED <<image, tag, exists>>
          /\ \/ Set(r, [To(r, "gate") EXCEPT !.old = run[r].archive]) \/ Set(r, To(r, "rmarchive"))
             \/ Set(r, SwapFailed(r)) \/ SetFaulted(r, SwapFailed(r))
      BY <2>5 DEF Start, StartContainer
    <3>2. Set(r, [To(r, "gate") EXCEPT !.old = run[r].archive]) => run'[r].pc = "gate"
      OBVIOUS
    <3> HIDE DEF Set, SetFaulted
    <3> QED
      BY <1>8, <3>1, <3>2
  <2> QED
    BY <1>9, <2>1, <2>2, <2>3, <2>4, <2>5
<1>13. CASE Gate(r) \/ OneShotGate(r)
  BY <1>13, ZenonT(60) DEF Gate, OneShotGate, Accept, Reject
<1>14. CASE RepairNext(r)
  BY <1>14 DEF RepairNext
<1>15. CASE RepairsOver(r)
  BY <1>15 DEF RepairsOver
<1>16. CASE RepairInspect(r)
  BY <1>16 DEF RepairInspect
<1>17. CASE RepairImage(r)
  BY <1>17, ZenonT(60) DEF RepairImage
<1>18. CASE RemoveDependentArchive(r) \/ RemoveOld(r)
  BY <1>18, ZenonT(60) DEF RemoveDependentArchive, RemoveOld, RemoveNamed, RemoveContainer
<1>19. CASE UndoRename(r) \/ RollbackRename(r)
  BY <1>19, ZenonT(60) DEF UndoRename, RollbackRename, RenameContainer
<1>20. CASE UndoStart(r) \/ RollbackStart(r)
  BY <1>20, ZenonT(60) DEF UndoStart, RollbackStart, StartNamed, StartContainer
<1>21. CASE PostHook(r) \/ CleanImage(r) \/ Prune(r)
  BY <1>21, ZenonT(60) DEF PostHook, CleanImage, Prune, RemoveImage, PruneImages
<1>22. CASE RollbackStop(r) \/ RollbackRemove(r)
  BY <1>22, ZenonT(60) DEF RollbackStop, RollbackRemove, StopContainer, RemoveContainer
<1>. QED
  BY <1>2, <1>3, <1>4, <1>5, <1>6, <1>7, <1>9, <1>13, <1>14, <1>15, <1>16, <1>17, <1>18, <1>19, <1>20, <1>21, <1>22 DEF Step

LEMMA ImageStep ==
  ASSUME ~Overlap, TypeOK, IInv, ImageInv, NEW r \in Runs, Step(r) \/ Kill(r)
  PROVE  ImageInv'
<1> USE DEF IInv
<1>1. RepairSound(r) /\ RepairNeverUpgrades
  BY DEF ImageInv
<1>2. run[r].pc \in SwapSteps /\ run[r].subject \in Deps => run[r].verdict # "none"
  BY Footing DEF PhaseSound
<1>3. RepairNeverUpgrades'
  <2> SUFFICES ASSUME NEW c \in exists', c[2] \in Deps PROVE image'[c] = FirstImage
    BY DEF RepairNeverUpgrades
  <2>1. CASE image' = image /\ exists' \subseteq exists
    BY <1>1, <2>1 DEF RepairNeverUpgrades
  <2>2. CASE /\ run[r].pc = "create" /\ exists' = exists \cup {Replacement(r)}
             /\ image' = [image EXCEPT ![Replacement(r)] = Resolved(run[r].how, run[r].target)]
    <3>1. image \in [Ids -> Images] /\ Replacement(r) \in Ids /\ exists \subseteq Ids
      BY Footing DEF TypeOK, DockerTypeOK
    <3>2. CASE c = Replacement(r)
      <4>1. run[r].verdict # "none"
        BY <1>2, <2>2, <3>2, Footing DEF SwapSteps
      <4>2. Resolved(run[r].how, run[r].target) = FirstImage
        BY <1>1, <2>2, <4>1 DEF RepairSound, Resolved, SwapSteps
      <4> QED
        BY <2>2, <3>1, <3>2, <4>2
    <3>3. CASE c # Replacement(r)
      BY <1>1, <2>2, <3>1, <3>3 DEF RepairNeverUpgrades
    <3> QED
      BY <3>2, <3>3
  <2> QED
    BY <2>1, <2>2, ImageEffects
<1>4. RepairSound(r)'
  <2>1. ASSUME run'[r].pc = "rimage" PROVE run'[r].target = FirstImage
    <3>1. PICK c \in Named(Live(run[r].subject)) : run'[r].target = image[c]
      BY <2>1, ImageEffects
    <3>2. run[r].pc = "rinspect"
      BY <2>1, ImageEffects
    <3>3. c \in exists /\ c[2] \in Deps
      BY <3>2, Footing DEF PhaseSound, RepairSteps
    <3> QED
      BY <1>1, <3>1, <3>3 DEF RepairNeverUpgrades
  <2>2. ASSUME run'[r].pc \in SwapSteps, run'[r].verdict # "none"
        PROVE  run'[r].target = FirstImage /\ (run'[r].how = "tag" => tag' = run'[r].target)
    <3>1. run[r].pc # "list"
      BY <2>2, Effects, Footing
      DEF PhaseSound, SwapSteps, Prepares, Swaps, Decides, Repairs, Finishes, RollsBack, Dies, Stays, Keeps, Goes, Ends
    <3>2. /\ tag' = tag /\ run'[r].target = run[r].target
          /\ run[r].pc \in {"rimage", "stop", "probe", "rename", "create", "start"}
          /\ \/ run'[r].how = "id"
             \/ run[r].pc = "rimage" /\ tag = run[r].target
             \/ run[r].pc # "rimage" /\ run'[r].how = run[r].how
      BY <2>2, <3>1, ImageEffects DEF SwapSteps
    <3>3. run[r].verdict # "none"
      BY <2>2, <3>2, Effects
      DEF Prepares, Swaps, Decides, Repairs, Finishes, RollsBack, Dies, Stays, Keeps
    <3> QED
      BY <1>1, <3>2, <3>3 DEF RepairSound, SwapSteps
  <2> QED
    BY <2>1, <2>2 DEF RepairSound
<1>5. ASSUME NEW s \in Runs \ {r} PROVE RepairSound(s)'
  <2>1. run'[s].pc \in {"idle", "done"}
    BY OnlyActive DEF IInv, Active
  <2> QED
    BY <2>1 DEF RepairSound, SwapSteps
<1> QED
  BY <1>3, <1>4, <1>5 DEF ImageInv

\* A repaired dependent keeps the image it ran, however often the tag moves in the
\* meantime and whatever fails.  (RepairNeverUpgrades of the run.)
THEOREM RepairsKeepImages == ASSUME ~Overlap PROVE Spec => []RepairNeverUpgrades
<1>1. Init => ImageInv
  <2> SUFFICES ASSUME Init PROVE ImageInv
    OBVIOUS
  <2>1. RepairNeverUpgrades
    BY DEF Init, DockerInit, RepairNeverUpgrades, Ids
  <2>2. \A r \in Runs : run[r].pc = "idle"
    BY DEF Init, Fresh
  <2> QED
    BY <2>1, <2>2 DEF ImageInv, RepairSound, SwapSteps
<1>2. TypeOK /\ IInv /\ ImageInv /\ [Next]_vars => ImageInv'
  <2> SUFFICES ASSUME TypeOK, IInv, ImageInv, [Next]_vars PROVE ImageInv'
    OBVIOUS
  <2>1. CASE UNCHANGED <<exists, image, tag, run>>
    BY <2>1 DEF ImageInv, RepairNeverUpgrades, RepairSound
  <2>2. CASE \E c \in Ids : Exit(c)
    BY <2>1, <2>2 DEF Exit, StopContainer
  <2>3. CASE UNCHANGED vars
    BY <2>1, <2>3 DEF vars, docker
  <2> QED
    BY <2>2, <2>3, ImageStep DEF Next
<1>3. ImageInv => RepairNeverUpgrades
  BY DEF ImageInv
<1> QED
  BY <1>1, <1>2, <1>3, TypeCorrect, SerialInvariant, PTL DEF Spec

-----------------------------------------------------------------------------
(* An owner that is down, whether updates overlap or not.                  *)

Reported == \E r \in Runs : run[r].outcome \in {"error", "killed"}

\* An update that cannot end without the owner serving, or an error: it has taken the
\* live name, or its replacement holds that, or it is rolling back.
Covering(r) ==
  \/ run[r].verdict = "none" /\ run[r].pc \in {"probe", "rename", "create"}
  \/ /\ run[r].verdict = "none" /\ run[r].pc \in {"start", "gate"}
     /\ New(r) \in exists /\ name[New(r)] = Live(Owner)
  \/ run[r].pc \in RollbackSteps

CoverInv ==
  /\ ~oneShot
  /\ \A r \in Runs : run[r].outcome # "none" => run[r].pc = "done"
  /\ Reported \/ Serving(Owner) # {} \/ \E r \in Runs : Covering(r)

LEMMA CoverStep ==
  ASSUME TypeOK, NamesSound, PhasesSound, CoverInv, NEW r \in Runs, Step(r) \/ Kill(r)
  PROVE  CoverInv'
<1>1. /\ ~oneShot /\ oneShot' = oneShot
      /\ \A s \in Runs \ {r} : run'[s] = run[s]
      /\ \A s \in Runs : New(s)' = New(s) /\ New(s) \in Ids /\ New(s)[2] = Owner
  BY KindKept, OthersUntouched, Footing DEF CoverInv, New
<1>2. run[r].pc # "done" /\ run[r].outcome = "none"
      /\ (run'[r].outcome # "none" => run'[r].pc = "done")
  <2>1. run[r].pc # "done"
    BY Effects DEF Prepares, Swaps, Decides, Repairs, Finishes, RollsBack, Dies, Active
  <2>2. run[r].outcome = "none"
    BY <2>1 DEF CoverInv
  <2>3. run'[r].outcome = run[r].outcome \/ run'[r].pc = "done"
    BY Effects DEF Prepares, Swaps, Decides, Repairs, Finishes, RollsBack, Dies, Goes, Ends, Fails
  <2> QED
    BY <2>1, <2>2, <2>3
<1>3. \A s \in Runs : run'[s].outcome # "none" => run'[s].pc = "done"
  BY <1>1, <1>2 DEF CoverInv
<1>4. Reported => Reported'
  BY <1>1, <1>2 DEF Reported
<1> DEFINE Goal == Reported' \/ Serving(Owner)' # {} \/ \E s \in Runs : Covering(s)'
<1>5. SUFFICES Goal
  BY <1>1, <1>3 DEF CoverInv
<1>6. CASE Covering(r)'
  BY <1>6
<1>7. ASSUME run'[r].outcome \in {"error", "killed"} PROVE Goal
  BY <1>7 DEF Reported
\* What is not about the containers under the owner's name changes nothing.
<1>8. ASSUME \A c \in Named(Live(Owner)) : c \in exists' /\ name'[c] = name[c] /\ (up[c] => up'[c]),
             ~Covering(r)
      PROVE  Goal
  <2>1. Serving(Owner) # {} => Serving(Owner)' # {}
    BY <1>8 DEF Serving, Named, Live
  <2>2. ASSUME NEW s \in Runs, Covering(s) PROVE Covering(s)'
    BY <1>1, <1>8, <2>2 DEF Covering, Named, Live
  <2> QED
    BY <1>4, <2>1, <2>2 DEF CoverInv
<1>9. ASSUME OwnersSame, ~Covering(r) PROVE Goal
  BY <1>8, <1>9, Footing DEF OwnersSame
<1>10. Same => OwnersSame
  BY DEF Same, OwnersSame
<1>11. CASE Prepares(r)
  BY <1>9, <1>10, <1>11 DEF Prepares, Covering, RollbackSteps
<1>12. CASE Decides(r)
  <2>1. run[r].verdict = "none" /\ Same /\ run[r].pc = "gate"
    BY <1>12, Footing DEF Decides, PhaseSound
  <2>2. CASE run'[r].pc = "rbstop"
    BY <1>6, <2>2 DEF Covering, RollbackSteps
  <2>3. CASE New(r) \in exists /\ up[New(r)]
    <3>1. CASE name[New(r)] = Live(Owner)
      <4>1. New(r) \in Serving(Owner)'
        BY <2>1, <2>3, <3>1 DEF Same, Serving, Named, Live
      <4> QED
        BY <4>1
    <3>2. CASE name[New(r)] # Live(Owner)
      BY <1>9, <1>10, <2>1, <3>2 DEF Covering, RollbackSteps
    <3> QED
      BY <3>1, <3>2
  <2> QED
    BY <1>1, <1>12, <2>2, <2>3 DEF Decides, Goes
<1>13. CASE (Repairs(r) \/ Swaps(r)) /\ run[r].verdict # "none"
  <2>1. ~Covering(r)
    BY <1>13 DEF Repairs, Swaps, Covering, RollbackSteps
  <2> QED
    BY <1>9, <1>13, <2>1, OwnersUntouched
<1>14. CASE Swaps(r) /\ run[r].verdict = "none"
  <2>1. run[r].subject = Owner /\ run'[r].verdict = "none"
    BY <1>14, Footing DEF Swaps, PhaseSound, Stays, Keeps
  <2>2. CASE run'[r].pc \in {"probe", "rename", "create"}
    BY <1>6, <2>1, <2>2 DEF Covering
  <2>3. CASE run'[r].pc = "start" /\ Made(Replacement(r), Live(run[r].subject))
    <3>1. New(r) \in exists' /\ name'[New(r)] = Live(Owner)
      BY <2>1, <2>3, Footing DEF Made, Created
    <3> QED
      BY <1>6, <2>1, <2>3, <3>1 DEF Covering, New, Live
  <2>4. CASE run'[r].pc = "gate" /\ run[r].pc = "start" /\ Launched(Replacement(r))
    <3>1. CASE Covering(r)
      <4>1. New(r) \in exists' /\ name'[New(r)] = Live(Owner)
        BY <2>4, <3>1 DEF Covering, Launched, RollbackSteps
      <4> QED
        BY <1>6, <2>1, <2>4, <4>1 DEF Covering, New, Live
    <3>2. CASE ~Covering(r)
      BY <1>8, <2>4, <3>2, Footing DEF Launched
    <3> QED
      BY <3>1, <3>2
  <2>5. CASE Fails(r)
    BY <1>7, <2>1, <2>5 DEF Fails, Ends
  <2> QED
    BY <1>14, <2>1, <2>2, <2>3, <2>4, <2>5 DEF Swaps, Goes
<1>15. CASE Finishes(r)
  <2>1. ~Covering(r)
    BY <1>15 DEF Finishes, Covering, RollbackSteps
  <2>2. ASSUME NEW c \in Named(run[r].old), Gone(c) PROVE Goal
    <3>1. c \notin Named(Live(Owner))
      BY Footing, Archives
    <3>2. c \in Ids
      BY Footing
    <3> QED
      BY <1>8, <2>1, <2>2, <3>1, <3>2, Footing DEF Gone, Removed
  <2> QED
    BY <1>9, <1>10, <1>15, <2>1, <2>2 DEF Finishes
<1>16. CASE RollsBack(r)
  <2>1. CASE run'[r].pc \in {"rbremove", "rbrename", "rbstart"}
    BY <1>6, <2>1 DEF Covering, RollbackSteps
  <2>2. ASSUME NEW c \in Named(Live(Owner)), Launched(c) PROVE Goal
    <3>1. c \in Serving(Owner)'
      BY <2>2, Footing DEF Serving, Named, Launched, Live
    <3> QED
      BY <3>1
  <2> QED
    BY <1>7, <1>16, <2>1, <2>2 DEF RollsBack, Goes, Ends
<1>17. CASE Dies(r)
  BY <1>7, <1>17 DEF Dies, Ends
<1>18. Repairs(r) => run[r].verdict # "none"
  BY Footing DEF Repairs, PhaseSound, RepairSteps
<1> QED
  BY <1>11, <1>12, <1>13, <1>14, <1>15, <1>16, <1>17, <1>18, Effects

\* A service that is down once all updates are over was reported: one of them has ended
\* in an error or died, however they overlap.  (DownMeansReported of the run.)
THEOREM DownReported == ASSUME TRUE \notin OneShots PROVE Spec => []DownMeansReported
<1>1. Init => NamesSound /\ PhasesSound /\ CoverInv
  <2> SUFFICES ASSUME Init PROVE NamesSound /\ PhasesSound /\ CoverInv
    OBVIOUS
  <2>1. NamesSound /\ PhasesSound
    BY ShapesInitially
  <2>2. ~oneShot
    BY DEF Init
  <2>3. <<Before, Owner>> \in Serving(Owner)
    BY <2>2 DEF Init, DockerInit, Serving, Named, Ids, Live, ServiceNames
  <2>4. \A r \in Runs : run[r].outcome = "none"
    BY DEF Init, Fresh
  <2> QED
    BY <2>1, <2>2, <2>3, <2>4 DEF CoverInv
<1>2. TypeOK /\ (NamesSound /\ PhasesSound /\ CoverInv) /\ [Next]_vars
        => (NamesSound /\ PhasesSound /\ CoverInv)'
  <2> SUFFICES ASSUME TypeOK, NamesSound, PhasesSound, CoverInv, [Next]_vars
               PROVE  (NamesSound /\ PhasesSound /\ CoverInv)'
    OBVIOUS
  <2>1. ASSUME NEW r \in Runs, Step(r) \/ Kill(r) PROVE (NamesSound /\ PhasesSound /\ CoverInv)'
    BY <2>1, NamesStep, PhasesStep, CoverStep
  <2>2. ASSUME NEW c \in Ids, Exit(c) PROVE (NamesSound /\ PhasesSound /\ CoverInv)'
    <3>1. UNCHANGED <<exists, name, oneShot, run>> /\ up' = [up EXCEPT ![c] = FALSE]
      BY <2>2 DEF Exit, StopContainer
    <3>2. NamesSound' /\ PhasesSound'
      BY <3>1 DEF NamesSound, PhasesSound, PhaseSound
    <3>3. PICK s \in Runs : c = New(s) /\ run[s].pc = "gate" /\ c \in exists
      BY <2>2 DEF Exit, CoverInv
    <3>4. \A q \in Runs : Covering(q) => Covering(q)'
      BY <3>1 DEF Covering, New, Live
    <3>5. Reported => Reported'
      BY <3>1 DEF Reported
    <3>6. CASE name[c] = Live(Owner)
      <4>1. run[s].verdict = "none"
        BY <3>3 DEF PhasesSound, PhaseSound
      <4>2. Covering(s)
        BY <3>3, <3>6, <4>1 DEF Covering
      <4> QED
        BY <3>1, <3>2, <3>4, <4>2 DEF CoverInv
    <3>7. CASE name[c] # Live(Owner)
      <4>1. Serving(Owner) \subseteq Serving(Owner)'
        <5>1. up \in [Ids -> BOOLEAN] /\ exists \subseteq Ids
          BY DEF TypeOK, DockerTypeOK
        <5> QED
          BY <3>1, <3>7, <5>1 DEF Serving, Named, Live
      <4> QED
        BY <3>1, <3>2, <3>4, <3>5, <4>1 DEF CoverInv
    <3> QED
      BY <3>6, <3>7
  <2>3. CASE UNCHANGED vars
    BY <2>3 DEF vars, docker, NamesSound, PhasesSound, PhaseSound, CoverInv, Reported, Serving, Named,
       Live, Covering, New
  <2> QED
    BY <2>1, <2>2, <2>3 DEF Next
<1>3. CoverInv => DownMeansReported
  BY DEF CoverInv, DownMeansReported, AllOver, Active, Covering, Reported, RollbackSteps
<1> QED
  BY <1>1, <1>2, <1>3, TypeCorrect, PTL DEF Spec

-----------------------------------------------------------------------------
(* The cycle implements SafeUpdate.                                        *)

LEMMA OfTheOwner ==
  ASSUME NEW E, E \subseteq Ids, NEW v
  PROVE  v \in {c[1] : c \in {d \in E : d[2] = Owner}} <=> <<v, Owner>> \in E
BY DEF Ids

\* What the abstraction sees of the containers is the owner's, by their author.
LEMMA Views ==
  ASSUME TypeOK, NEW v
  PROVE  /\ v \in OwnersRunning <=> <<v, Owner>> \in exists /\ up[<<v, Owner>>]
         /\ v \in OwnersKept <=> <<v, Owner>> \in good \cap exists
<1>1. exists \subseteq Ids
  BY DEF TypeOK, DockerTypeOK
<1>2. OwnersRunning = {c[1] : c \in {d \in {e \in exists : up[e]} : d[2] = Owner}}
  BY DEF OwnersRunning
<1>3. v \in OwnersRunning <=> <<v, Owner>> \in {e \in exists : up[e]}
  BY <1>1, <1>2, OfTheOwner
<1>4. v \in OwnersKept <=> <<v, Owner>> \in good \cap exists
  BY <1>1, OfTheOwner DEF OwnersKept
<1> QED
  BY <1>3, <1>4

LEMMA ViewsNext ==
  ASSUME TypeOK', NEW v
  PROVE  /\ v \in OwnersRunning' <=> <<v, Owner>> \in exists' /\ up'[<<v, Owner>>]
         /\ v \in OwnersKept' <=> <<v, Owner>> \in good' \cap exists'
<1>1. exists' \subseteq Ids
  BY DEF TypeOK, DockerTypeOK
<1>2. OwnersRunning' = {c[1] : c \in {d \in {e \in exists' : up'[e]} : d[2] = Owner}}
  BY DEF OwnersRunning
<1>3. v \in OwnersRunning' <=> <<v, Owner>> \in {e \in exists' : up'[e]}
  BY <1>1, <1>2, OfTheOwner
<1>4. v \in OwnersKept' <=> <<v, Owner>> \in good' \cap exists'
  BY <1>1, OfTheOwner DEF OwnersKept
<1> QED
  BY <1>3, <1>4

\* What a change of a container of the owner is to the abstraction.
LEMMA ViewSteps ==
  ASSUME TypeOK, TypeOK', good' = good
  PROVE  /\ OwnersSame => OwnersRunning' = OwnersRunning /\ OwnersKept' = OwnersKept
         /\ \A c \in Ids : c[2] = Owner =>
              /\ Halted(c) => OwnersRunning' = OwnersRunning \ {c[1]} /\ OwnersKept' = OwnersKept
              /\ Launched(c) => OwnersRunning' = OwnersRunning \cup {c[1]} /\ OwnersKept' = OwnersKept
              /\ \A nm : Moved(c, nm) => OwnersRunning' = OwnersRunning /\ OwnersKept' = OwnersKept
              /\ \A nm : Made(c, nm) /\ c \notin good
                           => OwnersRunning' = OwnersRunning /\ OwnersKept' = OwnersKept
              /\ Gone(c) => OwnersRunning' = OwnersRunning \ {c[1]} /\ OwnersKept' = OwnersKept \ {c[1]}
<1>1. exists \subseteq Ids /\ exists' \subseteq Ids /\ up \in [Ids -> BOOLEAN]
  BY DEF TypeOK, DockerTypeOK
<1>2. OwnersSame => OwnersRunning' = OwnersRunning /\ OwnersKept' = OwnersKept
  <2> SUFFICES ASSUME OwnersSame, NEW v
               PROVE  /\ v \in OwnersRunning' <=> v \in OwnersRunning
                      /\ v \in OwnersKept' <=> v \in OwnersKept
    OBVIOUS
  <2>1. <<v, Owner>> \in Ids =>
          (<<v, Owner>> \in exists' <=> <<v, Owner>> \in exists) /\ up'[<<v, Owner>>] = up[<<v, Owner>>]
    BY DEF OwnersSame
  <2> QED
    BY <1>1, <2>1, Views, ViewsNext
<1>3. ASSUME NEW c \in Ids, c[2] = Owner
      PROVE  /\ Halted(c) => OwnersRunning' = OwnersRunning \ {c[1]} /\ OwnersKept' = OwnersKept
             /\ Launched(c) => OwnersRunning' = OwnersRunning \cup {c[1]} /\ OwnersKept' = OwnersKept
             /\ \A nm : Moved(c, nm) => OwnersRunning' = OwnersRunning /\ OwnersKept' = OwnersKept
             /\ \A nm : Made(c, nm) /\ c \notin good
                          => OwnersRunning' = OwnersRunning /\ OwnersKept' = OwnersKept
             /\ Gone(c) => OwnersRunning' = OwnersRunning \ {c[1]} /\ OwnersKept' = OwnersKept \ {c[1]}
  <2>1. c = <<c[1], Owner>>
    BY <1>3 DEF Ids
  <2>2. \A v : <<v, Owner>> = c <=> v = c[1]
    BY <2>1
  <2>3. Halted(c) => OwnersRunning' = OwnersRunning \ {c[1]} /\ OwnersKept' = OwnersKept
    BY <1>1, <2>2, Views, ViewsNext DEF Halted
  <2>4. Launched(c) => OwnersRunning' = OwnersRunning \cup {c[1]} /\ OwnersKept' = OwnersKept
    BY <1>1, <2>2, Views, ViewsNext DEF Launched
  <2>5. ASSUME NEW nm, Moved(c, nm)
        PROVE  OwnersRunning' = OwnersRunning /\ OwnersKept' = OwnersKept
    BY <1>1, <2>5, Views, ViewsNext DEF Moved, Renamed
  <2>6. ASSUME NEW nm, Made(c, nm), c \notin good
        PROVE  OwnersRunning' = OwnersRunning /\ OwnersKept' = OwnersKept
    BY <1>1, <2>2, <2>6, Views, ViewsNext DEF Made, Created
  <2>7. Gone(c) => OwnersRunning' = OwnersRunning \ {c[1]} /\ OwnersKept' = OwnersKept \ {c[1]}
    BY <1>1, <2>2, Views, ViewsNext, ZenonT(60) DEF Gone, Removed
  <2> QED
    BY <2>3, <2>4, <2>5, <2>6, <2>7
<1> QED
  BY <1>2, <1>3

\* How far an update is, to the abstraction.
LEMMA StageOf ==
  ASSUME NEW t
  PROVE  /\ t.pc = "idle" => Stage(t) = "waiting"
         /\ t.pc \in {"inspect", "pull", "hook", "list"} => Stage(t) = "preparing"
         /\ t.pc = "done" =>
              /\ t.outcome = "recreated" => Stage(t) = "updated"
              /\ t.outcome = "rolledback" => Stage(t) = "restored"
              /\ t.outcome \notin {"recreated", "rolledback"} => Stage(t) = "abandoned"
         /\ t.pc \notin {"idle", "done", "inspect", "pull", "hook", "list"} =>
              /\ t.verdict = "none" => Stage(t) = "replacing"
              /\ t.verdict = "healthy" => Stage(t) = "accepted"
              /\ t.verdict \notin {"none", "healthy"} => Stage(t) = "rejected"
BY DEF Stage

\* Nothing, or one step of the promise.
Promised == Promise!AbstractNext \/ UNCHANGED Promise!abstract

LEMMA AsPromised ==
  ASSUME NEW r \in Runs,
         \/ Promise!Prepare(r) \/ Promise!Replace(r) \/ Promise!TakeDown(r) \/ Promise!Launch(r)
         \/ Promise!Crash(r) \/ Promise!Accept(r) \/ Promise!Reject(r) \/ Promise!Withdraw(r)
         \/ Promise!Restore(r) \/ Promise!Report(r) \/ Promise!Abandon(r)
         \/ \E v \in Promise!Versions : Promise!Retire(r, v)
  PROVE  Promised
BY DEF Promised, Promise!AbstractNext

LEMMA PromisedStep ==
  ASSUME ~Overlap, ~oneShot, TypeOK, TypeOK', IInv, OwnerInv, NEW r \in Runs, Step(r) \/ Kill(r)
  PROVE  Promised
<1> DEFINE now == Stage(run[r])
           next == Stage(run'[r])
           Still == OwnersRunning' = OwnersRunning /\ OwnersKept' = OwnersKept
<1>1. NamesSound /\ PhasesSound /\ OwnerSound(r) /\ UpLive
  BY DEF IInv, OwnerInv
<1>2. /\ UpdateStages' = [UpdateStages EXCEPT ![r] = next]
      /\ UpdateStages[r] = now
      /\ UpdateStages \in [Runs -> {Stage(run[s]) : s \in Runs}]
  <2>1. \A s \in Runs \ {r} : run'[s] = run[s]
    BY OthersUntouched
  <2> QED
    BY <2>1 DEF UpdateStages
<1>3. /\ \A s : Promise!To(r, s) <=> UpdateStages' = [UpdateStages EXCEPT ![r] = s]
      /\ Promise!abstract = <<OwnersRunning, OwnersKept, UpdateStages>>
  BY DEF Promise!To, Promise!abstract
<1> HIDE DEF now, next
<1>4. ASSUME Still, next = now PROVE Promised
  <2>1. UpdateStages' = UpdateStages
    BY <1>2, <1>4
  <2> QED
    BY <1>4, <2>1 DEF Promised, Promise!abstract
<1>5. ASSUME Still, next = "abandoned", now \in {"preparing", "replacing", "accepted", "rejected"}
      PROVE  Promised
  BY <1>2, <1>3, <1>5, AsPromised DEF Promise!Abandon, Promise!Under
<1>6. /\ \A o : Ends(r, o) /\ o \notin {"recreated", "rolledback"} => next = "abandoned"
      /\ Ends(r, "recreated") => next = "updated"
      /\ Ends(r, "rolledback") => next = "restored"
  BY StageOf DEF Ends, next
<1>7. run[r].pc \notin {"idle", "done", "inspect", "pull", "hook", "list"} =>
        /\ run[r].verdict = "none" => now = "replacing"
        /\ run[r].verdict = "healthy" => now = "accepted"
        /\ run[r].verdict \in {"timeout", "crashed"} => now = "rejected"
  BY StageOf DEF now
<1>8. \A pc : Goes(r, pc) /\ pc \notin {"idle", "done", "inspect", "pull", "hook", "list"} =>
        /\ run'[r].verdict = "none" => next = "replacing"
        /\ run'[r].verdict = "healthy" => next = "accepted"
        /\ run'[r].verdict \in {"timeout", "crashed"} => next = "rejected"
  BY StageOf DEF Goes, next
<1>9. run[r].verdict \in {"none", "healthy", "timeout", "crashed"}
  BY Footing, <1>1 DEF RunState, Verdicts
<1>10. Same /\ good' = good => Still
  BY ViewSteps DEF Same, OwnersSame
<1>11. /\ \A v : v \in OwnersRunning <=> <<v, Owner>> \in exists /\ up[<<v, Owner>>]
       /\ \A v : v \in OwnersKept <=> <<v, Owner>> \in good \cap exists
  BY Views
<1>12. New(r) \in Ids /\ New(r)[1] = r /\ New(r)[2] = Owner
  BY Footing, <1>1 DEF New
<1>13. CASE Prepares(r)
  <2>1. Still /\ run'[r].verdict = "none"
    BY <1>1, <1>10, <1>13, Footing DEF Prepares, Stays, Keeps, PhaseSound
  <2>2. CASE run[r].pc = "idle"
    <3>1. now = "waiting" /\ next = "preparing"
      BY <1>13, <2>2, StageOf DEF Prepares, Goes, now, next
    <3>2. \A s \in Runs \ {r} : ~Active(s)
      BY OnlyActive DEF IInv
    <3>3. \A s \in Runs : UpdateStages[s] \notin {"preparing", "replacing", "accepted", "rejected"}
      <4> TAKE s \in Runs
      <4>1. run[s].pc \in {"idle", "done"}
        BY <2>2, <3>2 DEF Active
      <4>2. Stage(run[s]) \in {"waiting", "updated", "restored", "abandoned"}
        BY <4>1, StageOf
      <4> QED
        BY <4>2 DEF UpdateStages
    <3> QED
      BY <1>2, <1>3, <2>1, <3>1, <3>3, AsPromised DEF Promise!Prepare, Promise!Under
  <2>3. CASE run[r].pc \in {"inspect", "pull", "hook"}
    <3>1. now = "preparing"
      BY <2>3, StageOf DEF now
    <3>2. next = "preparing" \/ next = "abandoned"
      <4>1. Goes(r, "pull") \/ Goes(r, "hook") \/ Goes(r, "list") => next = "preparing"
        BY StageOf DEF Goes, next
      <4> QED
        BY <1>6, <1>13, <2>3, <4>1 DEF Prepares
    <3> QED
      BY <1>4, <1>5, <2>1, <3>1, <3>2
  <2>4. CASE run[r].pc = "list"
    <3>1. now = "preparing" /\ next = "replacing"
      BY <1>8, <1>13, <2>1, <2>4, StageOf DEF Prepares, now
    <3> QED
      BY <1>2, <1>3, <2>1, <3>1, AsPromised DEF Promise!Replace
  <2> QED
    BY <1>13, <2>2, <2>3, <2>4 DEF Prepares
<1>14. CASE Swaps(r) /\ run[r].verdict = "none"
  <2>1. /\ run[r].subject = Owner /\ Replacement(r) = New(r) /\ now = "replacing"
        /\ run'[r].verdict = "none" /\ good' = good /\ run[r].pc \in SwapSteps
    BY <1>1, <1>7, <1>14, Footing DEF Swaps, PhaseSound, Stays, Keeps, SwapSteps
  <2>2. Fails(r) => next = "abandoned"
    BY <1>6, <2>1 DEF Fails
  <2>3. \A pc \in SwapSteps \cup {"gate"} : Goes(r, pc) => next = "replacing"
    BY <1>8, <2>1 DEF SwapSteps
  <2>4. New(r) \notin good
    BY <1>14 DEF IInv, ReplacementSound
  <2>5. CASE Same
    <3>1. next \in {"replacing", "abandoned"}
      BY <1>14, <2>1, <2>2, <2>3 DEF Swaps, SwapSteps
    <3> QED
      BY <1>4, <1>5, <1>10, <2>1, <2>5, <3>1
  <2>6. CASE run[r].pc = "stop" /\ \E c \in Named(Live(Owner)) : Halted(c)
    <3>1. PICK c \in Named(Live(Owner)) : Halted(c)
      BY <2>6
    <3>2. c \in Ids /\ c[2] = Owner /\ c \in exists
      BY <1>1, Footing
    <3>3. OwnersRunning' = OwnersRunning \ {c[1]} /\ OwnersKept' = OwnersKept
      BY <2>1, <3>1, <3>2, ViewSteps
    <3>4. \A d \in exists : d[2] = Owner /\ up[d] => d = c
      BY <1>1, Footing DEF UpLive
    <3>5. OwnersRunning' = {}
      <4>1. \A v \in OwnersRunning : <<v, Owner>> = c
        BY <1>11, <3>4
      <4>2. \A v \in OwnersRunning : v = c[1]
        BY <4>1
      <4> QED
        BY <3>3, <4>2
    <3>6. r \notin OwnersRunning
      BY <1>11, <1>14, <2>6 DEF IInv, ReplacementSound, New
    <3>7. next = "replacing" \/ next = "abandoned"
      BY <1>14, <2>2, <2>3, <2>6 DEF Swaps, SwapSteps
    <3> QED
      BY <1>2, <1>3, <2>1, <3>3, <3>5, <3>6, <3>7, AsPromised DEF Promise!TakeDown
  <2>7. CASE run[r].pc = "rename" /\ \E c \in Named(Live(Owner)) : Moved(c, Candidate(r))
    <3>1. Still
      BY <1>1, <2>1, <2>7, Footing, ViewSteps
    <3>2. next = "replacing" \/ next = "abandoned"
      BY <1>14, <2>2, <2>3, <2>7 DEF Swaps, SwapSteps
    <3> QED
      BY <1>4, <1>5, <2>1, <3>1, <3>2
  <2>8. CASE run[r].pc = "create" /\ Made(New(r), Live(Owner))
    <3>1. Still
      BY <1>12, <2>1, <2>4, <2>8, ViewSteps
    <3>2. next = "replacing" \/ next = "abandoned"
      BY <1>14, <2>2, <2>3, <2>8 DEF Swaps, SwapSteps
    <3> QED
      BY <1>4, <1>5, <2>1, <3>1, <3>2
  <2>9. CASE run[r].pc = "start" /\ Launched(New(r))
    <3>1. OwnersRunning = {}
      BY <1>1, <1>11, <1>14, <2>9 DEF OwnerSound, NoneUp
    <3>2. OwnersRunning' = {r} /\ OwnersKept' = OwnersKept
      BY <1>12, <2>1, <2>9, <3>1, ViewSteps
    <3>3. next = "replacing" \/ next = "abandoned"
      BY <1>14, <2>1, <2>2, <2>3, <2>9 DEF Swaps, SwapSteps
    <3> QED
      BY <1>2, <1>3, <2>1, <3>1, <3>2, <3>3, AsPromised DEF Promise!Launch
  <2> QED
    BY <1>14, <2>1, <2>5, <2>6, <2>7, <2>8, <2>9 DEF Swaps
<1>15. CASE Decides(r)
  <2>1. now = "replacing" /\ Same
    BY <1>1, <1>7, <1>15, Footing DEF Decides, PhaseSound
  <2>2. CASE /\ Goes(r, "repair") /\ run'[r].verdict = "healthy" /\ good' = good \cup {New(r)}
             /\ New(r) \in exists /\ up[New(r)]
    <3>1. OwnersRunning' = OwnersRunning /\ OwnersKept' = OwnersKept \cup {r}
      BY <1>11, <2>1, <2>2, ViewsNext DEF Same, New
    <3>2. OwnersRunning = {r}
      <4>1. OnlyUp(New(r))
        BY <1>1, <1>15 DEF OwnerSound, Decides
      <4> QED
        BY <1>11, <2>2, <4>1 DEF OnlyUp, New
    <3>3. next = "accepted"
      BY <1>8, <2>2
    <3> QED
      BY <1>2, <1>3, <2>1, <3>1, <3>2, <3>3, AsPromised DEF Promise!Accept
  <2>3. CASE Goes(r, "rbstop") /\ run'[r].verdict \in {"crashed", "timeout"} /\ good' = good
    <3>1. next = "rejected" /\ Still
      BY <1>8, <1>10, <2>1, <2>3
    <3> QED
      BY <1>2, <1>3, <2>1, <3>1, AsPromised DEF Promise!Reject
  <2> QED
    BY <1>15, <2>2, <2>3 DEF Decides
<1>16. CASE (Repairs(r) \/ Swaps(r)) /\ run[r].verdict # "none"
  <2>1. Still
    BY <1>1, <1>16, OwnersUntouched, ViewSteps DEF Repairs, Swaps, Stays, Keeps
  <2>2. run'[r].verdict = run[r].verdict /\ run[r].pc \in RepairSteps \cup SwapSteps
    BY <1>16 DEF Repairs, Swaps, Stays, Keeps, RepairSteps, SwapSteps
  <2>3. ASSUME NEW pc \in RepairSteps \cup SwapSteps \cup {"rmold", "gate"}, Goes(r, pc)
        PROVE  next = now
    BY <1>7, <1>8, <1>9, <2>2, <2>3 DEF RepairSteps, SwapSteps
  <2>4. CASE run[r].verdict # "healthy" /\ Ends(r, "rolledback") /\ run[r].pc = "repair"
    <3>1. now = "rejected" /\ next = "restored"
      BY <1>6, <1>7, <1>9, <1>16, <2>4
    <3>2. New(r) \notin exists /\ SomeUp
      BY <1>1, <1>9, <1>16, <2>4 DEF OwnerSound, Active, RollbackSteps
    <3>3. r \notin OwnersRunning
      BY <1>11, <3>2 DEF New
    <3>4. OwnersRunning # {}
      <4>1. PICK c \in exists : c[2] = Owner /\ up[c]
        BY <3>2 DEF SomeUp
      <4>2. c = <<c[1], Owner>>
        BY <1>1, <4>1, Footing DEF Ids
      <4> QED
        BY <1>11, <4>1, <4>2
    <3> QED
      BY <1>2, <1>3, <2>1, <3>1, <3>3, <3>4, AsPromised DEF Promise!Report
  <2>5. CASE Repairs(r) /\ ~(Ends(r, "rolledback") /\ run[r].pc = "repair")
    <3>1. \E pc \in RepairSteps \cup SwapSteps \cup {"rmold", "gate"} : Goes(r, pc)
      BY <2>5 DEF Repairs, RepairSteps, SwapSteps
    <3> QED
      BY <1>4, <2>1, <2>3, <3>1
  <2>6. CASE Swaps(r)
    <3>1. run[r].subject # Owner
      BY <1>1, <1>16, <2>6, Footing DEF Swaps, PhaseSound, SwapSteps
    <3>2. \E pc \in RepairSteps \cup SwapSteps \cup {"rmold", "gate"} : Goes(r, pc)
      BY <2>6, <3>1 DEF Swaps, Fails, RepairSteps, SwapSteps
    <3> QED
      BY <1>4, <2>1, <2>3, <3>2
  <2> QED
    BY <1>16, <2>4, <2>5, <2>6 DEF Repairs, Goes, Ends
<1>17. CASE Finishes(r)
  <2>1. /\ run[r].verdict = "healthy" /\ run'[r].verdict = "healthy" /\ good' = good
        /\ Active(r) /\ now = "accepted"
    BY <1>1, <1>7, <1>17, Footing DEF Finishes, PhaseSound, Stays, Keeps, Active
  <2>2. New(r) \in exists \cap good /\ up[New(r)]
    BY <1>1, <2>1 DEF IInv, ReplacementSound, OwnerSound
  <2>3. CASE Same /\ run[r].pc # "prune"
    <3>1. next = "accepted"
      BY <1>8, <1>17, <2>1, <2>3 DEF Finishes
    <3> QED
      BY <1>4, <1>10, <2>1, <2>3, <3>1
  <2>4. ASSUME NEW c \in Named(run[r].old), ~up[c], Gone(c), run[r].pc = "rmold" PROVE Promised
    <3>1. c \in Ids /\ c[2] = Owner /\ c \in exists /\ c # New(r)
      BY <1>1, <2>2, <2>4, Footing, Archives
    <3>2. c = <<c[1], Owner>> /\ c[1] \in Promise!Versions /\ c[1] # r
      BY <3>1 DEF Ids, New, Promise!Versions
    <3>3. next = "accepted"
      BY <1>8, <1>17, <2>1, <2>4 DEF Finishes
    <3>4. OwnersRunning' = OwnersRunning \ {c[1]} /\ OwnersKept' = OwnersKept \ {c[1]}
      BY <2>1, <2>4, <3>1, ViewSteps
    <3>5. OwnersRunning' = OwnersRunning
      BY <1>11, <2>4, <3>2, <3>4
    <3>6. UpdateStages' = UpdateStages
      BY <1>2, <2>1, <3>3
    <3>7. CASE c[1] \in OwnersKept
      BY <1>2, <2>1, <3>2, <3>4, <3>5, <3>6, <3>7, AsPromised DEF Promise!Retire
    <3>8. CASE c[1] \notin OwnersKept
      BY <1>4, <2>1, <3>3, <3>4, <3>5, <3>8
    <3> QED
      BY <3>7, <3>8
  <2>5. CASE run[r].pc = "prune"
    <3>1. next = "updated" /\ Still
      BY <1>6, <1>10, <1>17, <2>1, <2>5 DEF Finishes
    <3>2. \A c \in exists : c[2] = Owner /\ up[c] => c = New(r)
      BY <1>1, <1>12, <2>2 DEF UpLive, NamesSound
    <3>3. OwnersRunning = {r}
      BY <1>11, <2>2, <3>2 DEF New
    <3> QED
      BY <1>2, <1>3, <2>1, <3>1, <3>3, AsPromised DEF Promise!Report
  <2> QED
    BY <1>17, <2>3, <2>4, <2>5 DEF Finishes
<1>18. CASE RollsBack(r)
  <2>1. /\ run[r].verdict \in {"timeout", "crashed"} /\ run'[r].verdict = run[r].verdict
        /\ good' = good /\ now = "rejected" /\ Active(r)
    <3>1. run[r].pc \in RollbackSteps
      BY <1>18 DEF RollsBack, RollbackSteps
    <3>2. run[r].verdict \in {"timeout", "crashed"}
      BY <1>1, <3>1, Footing DEF PhaseSound
    <3> QED
      BY <1>7, <1>18, <3>1, <3>2 DEF RollsBack, Stays, Keeps, RollbackSteps, Active
  <2>2. next \in {"rejected", "abandoned"}
    BY <1>6, <1>8, <1>18, <2>1 DEF RollsBack
  <2>3. ASSUME Still PROVE Promised
    BY <1>4, <1>5, <2>1, <2>2, <2>3
  <2>4. New(r) \notin good
    BY <2>1 DEF IInv, ReplacementSound
  <2>5. r \notin OwnersKept
    BY <1>11, <2>4 DEF New
  <2>6. ASSUME run[r].pc \in {"rbstop", "rbremove"}, Halted(New(r)) \/ Gone(New(r)) PROVE Promised
    <3>1. OwnersRunning' = OwnersRunning \ {r} /\ OwnersKept' = OwnersKept
      BY <1>12, <2>1, <2>5, <2>6, ViewSteps
    <3>2. \A c \in exists : c[2] = Owner /\ up[c] => c = New(r)
      BY <1>1, <2>6 DEF OwnerSound, OnlyUp
    <3>3. OwnersRunning \subseteq {r}
      BY <1>11, <3>2 DEF New
    <3>4. CASE r \in OwnersRunning
      BY <1>2, <1>3, <2>1, <2>2, <3>1, <3>3, <3>4, AsPromised DEF Promise!Withdraw
    <3>5. CASE r \notin OwnersRunning
      BY <2>3, <3>1, <3>5
    <3> QED
      BY <3>4, <3>5
  <2>7. ASSUME NEW c \in Named(run[r].old), Moved(c, Live(Owner)) PROVE Promised
    BY <1>1, <2>1, <2>3, <2>7, Footing, Archives, ViewSteps
  <2>8. ASSUME run[r].pc = "rbstart", NEW c \in Named(Live(Owner)), Launched(c) PROVE Promised
    <3>1. NoneUp /\ New(r) \notin exists
      BY <1>1, <2>8 DEF OwnerSound
    <3>2. c \in Ids /\ c[2] = Owner /\ c \in exists
      BY <1>1, Footing
    <3>3. OwnersRunning = {} /\ OwnersRunning' = {c[1]} /\ OwnersKept' = OwnersKept
      BY <1>11, <2>1, <2>8, <3>1, <3>2, ViewSteps DEF NoneUp
    <3>4. c[1] \in Promise!Versions \ {r}
      BY <3>1, <3>2 DEF Ids, New, Promise!Versions
    <3> QED
      BY <1>2, <1>3, <2>1, <2>2, <3>3, <3>4, AsPromised DEF Promise!Restore
  <2> QED
    BY <1>10, <1>18, <2>1, <2>3, <2>6, <2>7, <2>8 DEF RollsBack
<1>19. CASE Dies(r)
  <2>1. Still /\ next = "abandoned"
    BY <1>6, <1>10, <1>19 DEF Dies, Stays, Keeps
  <2>2. now \in {"preparing", "replacing", "accepted", "rejected"}
    BY <1>7, <1>9, <1>19, StageOf DEF Dies, Active, now
  <2> QED
    BY <1>5, <2>1, <2>2
<1>20. Repairs(r) => run[r].verdict # "none"
  BY <1>1, Footing DEF Repairs, PhaseSound, RepairSteps
<1> QED
  BY <1>1, <1>13, <1>14, <1>15, <1>16, <1>17, <1>18, <1>19, <1>20, Effects

\* A replacement that crashes on trial.
LEMMA PromisedExit ==
  ASSUME ~Overlap, ~oneShot, TypeOK, TypeOK', IInv, OwnerInv, NEW c \in Ids, Exit(c)
  PROVE  Promised
<1>1. /\ UNCHANGED <<exists, name, oneShot, run, good>> /\ up' = [up EXCEPT ![c] = FALSE]
      /\ c[2] = Owner /\ c \in exists /\ up[c]
  BY DEF Exit, StopContainer
<1>2. PICK r \in Runs : c = New(r) /\ run[r].pc = "gate"
  BY DEF Exit
<1>3. OwnersRunning' = OwnersRunning \ {r} /\ OwnersKept' = OwnersKept
  <2>1. Halted(c) /\ good' = good /\ c[1] = r
    BY <1>1, <1>2 DEF Halted, New
  <2> QED
    BY <1>1, <2>1, ViewSteps
<1>4. \A d \in exists : d[2] = Owner /\ up[d] => d = New(r)
  BY <1>2 DEF OwnerInv, OwnerSound, OnlyUp
<1>5. OwnersRunning = {r}
  BY <1>1, <1>2, <1>4, Views DEF New
<1>6. UpdateStages' = UpdateStages /\ UpdateStages[r] = "replacing"
  BY <1>1, <1>2, StageOf DEF UpdateStages, IInv, PhasesSound, PhaseSound
<1> QED
  BY <1>3, <1>5, <1>6, AsPromised DEF Promise!Crash

\* The cycle of a service that is no one-shot implements SafeUpdate, step by step.
\* (ImplementsSafeUpdate of the run.)
THEOREM CycleImplements ==
  ASSUME ~Overlap, TRUE \notin OneShots
  PROVE  Spec => ImplementsSafeUpdate
<1>1. Init => ~oneShot /\ Promise!AbstractInit
  <2> SUFFICES ASSUME Init PROVE ~oneShot /\ Promise!AbstractInit
    OBVIOUS
  <2>1. ~oneShot
    BY DEF Init
  <2>2. exists = {<<Before, n>> : n \in ServiceNames} /\ good = exists /\ Owner \in ServiceNames
        /\ up = [c \in Ids |-> c \in exists]
    BY <2>1 DEF Init, DockerInit, ServiceNames
  <2>3. OwnersRunning = {Before} /\ OwnersKept = {Before}
    <3>1. exists \subseteq Ids
      BY <2>2 DEF Ids
    <3>2. {d \in exists : d[2] = Owner} = {<<Before, Owner>>}
      BY <2>2
    <3>3. {d \in exists : d[2] = Owner /\ up[d]} = {<<Before, Owner>>}
      BY <2>2, <3>1, <3>2
    <3>4. {d \in good \cap exists : d[2] = Owner} = {<<Before, Owner>>}
      BY <2>2, <3>2
    <3>5. {c[1] : c \in {<<Before, Owner>>}} = {Before}
      OBVIOUS
    <3>6. OwnersRunning = {Before}
      BY <3>3, <3>5 DEF OwnersRunning
    <3>7. OwnersKept = {Before}
      BY <3>4, <3>5 DEF OwnersKept
    <3> QED
      BY <3>6, <3>7
  <2>4. \A r \in Runs : Stage(run[r]) = "waiting"
    BY StageOf DEF Init, Fresh
  <2> QED
    BY <2>1, <2>3, <2>4 DEF Promise!AbstractInit, UpdateStages
<1>2. ~oneShot /\ [Next]_vars => ~oneShot'
  BY KindKept DEF Next, Exit, vars
<1>3. ~oneShot /\ TypeOK /\ TypeOK' /\ IInv /\ OwnerInv /\ [Next]_vars
        => [Promise!AbstractNext]_(Promise!abstract)
  <2> SUFFICES ASSUME ~oneShot, TypeOK, TypeOK', IInv, OwnerInv, [Next]_vars PROVE Promised
    BY DEF Promised
  <2>1. CASE UNCHANGED vars
    BY <2>1 DEF vars, docker, Promised, Promise!abstract, OwnersRunning, OwnersKept, UpdateStages
  <2> QED
    BY <2>1, PromisedStep, PromisedExit DEF Next
<1> QED
  BY <1>1, <1>2, <1>3, TypeCorrect, SerialInvariant, OwnerInvariant, PTL
  DEF Spec, ImplementsSafeUpdate, Promise!AbstractSpec

-----------------------------------------------------------------------------
(* The container an update found, and what is reported of it.              *)

\* Where the container that was inspected is: under the live name until the swap renames
\* it, then under the archive name, and back under the live name, running, once a
\* rollback has restored it.
BeforeSound(r) ==
  /\ run[r].pc \in {"pull", "hook", "list", "stop", "probe", "rename"} /\ run[r].verdict = "none"
       => run[r].before \in Named(Live(Owner))
  /\ run[r].pc \in {"create", "start"} /\ run[r].verdict = "none"
       => run[r].before \in Named(run[r].archive)
  /\ run[r].pc \in {"gate", "rbstop", "rbremove", "rbrename"} => run[r].before \in Named(run[r].old)
  /\ run[r].pc = "gate" => New(r) \in exists
  /\ run[r].pc = "rbstart" => run[r].before \in Named(Live(Owner))
  /\ Active(r) /\ run[r].verdict \in {"timeout", "crashed"} /\ run[r].pc \notin RollbackSteps
       => run[r].before \in Serving(Owner)

BeforeInv == \A r \in Runs : BeforeSound(r)

LEMMA Remembers ==
  ASSUME TypeOK, NEW r \in Runs, Step(r) \/ Kill(r)
  PROVE  /\ run[r].pc # "inspect" => run'[r].before = run[r].before
         /\ run[r].pc = "inspect" =>
              \/ run'[r].pc = "done" /\ run'[r].outcome # "skipped"
              \/ run'[r].pc = "pull" /\ run'[r].before \in Named(Live(Owner))
         /\ run'[r].pc = "create" => run'[r].archive = Candidate(r)
         /\ run'[r].pc = "start" => run'[r].archive = run[r].archive
         /\ run'[r].pc = "gate" => run'[r].old = run[r].archive
         /\ run[r].pc \in {"gate"} \cup RollbackSteps => run'[r].old = run[r].old
<1>1. /\ {"pc", "verdict", "outcome", "faulted", "subject", "archive", "old", "before", "tries"}
           \subseteq DOMAIN run[r]
      /\ r \in DOMAIN run
  BY DEF TypeOK, RunState
<1>. USE <1>1 DEF Set, SetFaulted, To, Over, Call, Attempt, ReadFails, RollbackSteps
<1>2. CASE Kill(r)
  BY <1>2 DEF Kill
<1>3. CASE Begin(r)
  BY <1>3 DEF Begin
<1>4. CASE Inspect(r)
  BY <1>4, ZenonT(60) DEF Inspect
<1>5. CASE Pull(r)
  BY <1>5, ZenonT(60) DEF Pull
<1>6. CASE Hook(r)
  BY <1>6, ZenonT(60) DEF Hook
<1>7. CASE ListDependents(r)
  BY <1>7, ZenonT(60) DEF ListDependents
<1>8. /\ \A step : Set(r, To(r, step)) \/ SetFaulted(r, To(r, step))
           => /\ run'[r].pc = step /\ run'[r].before = run[r].before
              /\ run'[r].archive = run[r].archive /\ run'[r].old = run[r].old
      /\ Set(r, SwapFailed(r)) \/ SetFaulted(r, SwapFailed(r))
           => run'[r].pc \in {"done", "repair", "undoname"} /\ run'[r].before = run[r].before
  <2>1. \A step : Set(r, To(r, step)) \/ SetFaulted(r, To(r, step))
          => /\ run'[r].pc = step /\ run'[r].before = run[r].before
             /\ run'[r].archive = run[r].archive /\ run'[r].old = run[r].old
    OBVIOUS
  <2>2. Set(r, Over(r, "error")) \/ SetFaulted(r, Over(r, "error"))
          => run'[r].pc = "done" /\ run'[r].before = run[r].before
    OBVIOUS
  <2>3. Set(r, SwapFailed(r)) \/ SetFaulted(r, SwapFailed(r))
          => run'[r].pc \in {"done", "repair", "undoname"} /\ run'[r].before = run[r].before
    <3> HIDE DEF Set, SetFaulted, To, Over
    <3> QED
      BY <2>1, <2>2 DEF SwapFailed
  <2> QED
    BY <2>1, <2>3
<1>9. CASE Stop(r)
  <2>1. /\ run[r].pc = "stop"
        /\ Set(r, To(r, "probe")) \/ Set(r, SwapFailed(r)) \/ SetFaulted(r, SwapFailed(r))
    BY <1>9 DEF Stop
  <2> HIDE DEF Set, SetFaulted
  <2> QED
    BY <1>8, <2>1
<1>10. CASE Probe(r)
  BY <1>10 DEF Probe
<1>11. CASE Rename(r)
  <2>1. /\ run[r].pc = "rename"
        /\ \/ Set(r, [To(r, "create") EXCEPT !.archive = Candidate(r)])
           \/ Set(r, SwapFailed(r)) \/ SetFaulted(r, SwapFailed(r))
    BY <1>11 DEF Rename
  <2>2. Set(r, [To(r, "create") EXCEPT !.archive = Candidate(r)])
          => run'[r].pc = "create" /\ run'[r].archive = Candidate(r) /\ run'[r].before = run[r].before
    OBVIOUS
  <2> HIDE DEF Set, SetFaulted
  <2> QED
    BY <1>8, <2>1, <2>2
<1>12. CASE Create(r)
  <2>1. /\ run[r].pc = "create"
        /\ Set(r, To(r, "start")) \/ Set(r, SwapFailed(r)) \/ SetFaulted(r, SwapFailed(r))
    BY <1>12 DEF Create
  <2> HIDE DEF Set, SetFaulted
  <2> QED
    BY <1>8, <2>1
<1>13. CASE Start(r)
  <2>1. /\ run[r].pc = "start"
        /\ \/ Set(r, [To(r, "gate") EXCEPT !.old = run[r].archive]) \/ Set(r, To(r, "rmarchive"))
           \/ Set(r, SwapFailed(r)) \/ SetFaulted(r, SwapFailed(r))
    BY <1>13 DEF Start
  <2>2. Set(r, [To(r, "gate") EXCEPT !.old = run[r].archive])
          => run'[r].pc = "gate" /\ run'[r].old = run[r].archive /\ run'[r].before = run[r].before
    OBVIOUS
  <2> HIDE DEF Set, SetFaulted
  <2> QED
    BY <1>8, <2>1, <2>2
<1>14. CASE Gate(r) \/ OneShotGate(r)
  BY <1>14, ZenonT(60) DEF Gate, OneShotGate, Accept, Reject
<1>15. CASE RepairNext(r)
  BY <1>15, ZenonT(60) DEF RepairNext
<1>16. CASE RepairsOver(r) \/ RepairImage(r)
  BY <1>16, ZenonT(60) DEF RepairsOver, RepairImage
<1>17. CASE RepairInspect(r)
  BY <1>17, ZenonT(60) DEF RepairInspect
<1>18. CASE RemoveDependentArchive(r) \/ RemoveOld(r) \/ UndoRename(r) \/ UndoStart(r)
  BY <1>18, ZenonT(60) DEF RemoveDependentArchive, RemoveOld, RemoveNamed, UndoRename, UndoStart, StartNamed
<1>19. CASE PostHook(r) \/ CleanImage(r) \/ Prune(r)
  BY <1>19, ZenonT(60) DEF PostHook, CleanImage, Prune
<1>20. CASE RollbackStop(r) \/ RollbackRemove(r) \/ RollbackRename(r) \/ RollbackStart(r)
  BY <1>20, ZenonT(60) DEF RollbackStop, RollbackRemove, RollbackRename, RollbackStart, StartNamed
<1>. QED
  BY <1>2, <1>3, <1>4, <1>5, <1>6, <1>7, <1>9, <1>10, <1>11, <1>12, <1>13, <1>14, <1>15,
     <1>16, <1>17, <1>18, <1>19, <1>20 DEF Step

\* What is under a name stays there unless it is renamed or removed.
LEMMA StaysNamed ==
  ASSUME TypeOK, NEW b, NEW nm, b \in Named(nm),
         \/ Same
         \/ \E c \in Ids : Halted(c) \/ Launched(c)
         \/ \E m : \E c \in Ids : Made(c, m)
         \/ \E m : \E c \in Ids \ {b} : Moved(c, m)
         \/ \E c \in Ids \ {b} : Gone(c)
  PROVE  b \in exists' /\ name'[b] = nm
<1>1. b \in exists /\ name[b] = nm /\ b \in Ids /\ name \in [Ids -> Names]
  BY DEF Named, TypeOK, DockerTypeOK
<1>2. CASE Same \/ \E c \in Ids : Halted(c) \/ Launched(c)
  BY <1>1, <1>2 DEF Same, Halted, Launched
<1>3. CASE \E m : \E c \in Ids : Made(c, m)
  BY <1>1, <1>3 DEF Made, Created
<1>4. CASE \E m : \E c \in Ids \ {b} : Moved(c, m)
  BY <1>1, <1>4 DEF Moved, Renamed
<1>5. CASE \E c \in Ids \ {b} : Gone(c)
  BY <1>1, <1>5 DEF Gone, Removed
<1> QED
  BY <1>2, <1>3, <1>4, <1>5

LEMMA BeforeStep ==
  ASSUME ~Overlap, TypeOK, IInv, OwnerInv, BeforeInv, NEW r \in Runs, Step(r) \/ Kill(r)
  PROVE  BeforeSound(r)'
<1> DEFINE b == run[r].before
<1>1. /\ NamesSound /\ PhasesSound /\ OwnerSound(r) /\ BeforeSound(r) /\ New(r)' = New(r)
      /\ New(r) \in Ids
  BY Footing DEF IInv, OwnerInv, BeforeInv, New
<1>2. CASE run'[r].pc = "done"
  BY <1>2 DEF BeforeSound, Active, RollbackSteps
<1>3. run'[r].verdict = "healthy" /\ run'[r].pc \notin {"gate"} \cup RollbackSteps => BeforeSound(r)'
  BY DEF BeforeSound, RollbackSteps
<1>4. CASE Prepares(r)
  <2>1. Same /\ run'[r].verdict = "none" /\ run'[r].pc \in {"inspect", "pull", "hook", "list", "stop", "done"}
    BY <1>1, <1>4, Footing DEF Prepares, PhaseSound, Stays, Keeps, Goes, Ends
  <2>2. CASE run[r].pc = "idle"
    BY <1>4, <2>1, <2>2 DEF Prepares, Goes, BeforeSound, RollbackSteps
  <2>3. CASE run[r].pc = "inspect"
    <3>1. CASE run'[r].before \in Named(Live(Owner))
      BY <2>1, <3>1 DEF BeforeSound, Named, Same, Live, RollbackSteps
    <3> QED
      BY <1>2, <2>3, <3>1, Remembers
  <2>4. CASE run[r].pc \in {"pull", "hook", "list"}
    <3>1. b \in Named(Live(Owner)) /\ run'[r].before = b
      BY <1>1, <1>4, <2>4, Remembers, Footing DEF BeforeSound, PhaseSound
    <3> QED
      BY <2>1, <3>1 DEF BeforeSound, Named, Same, Live, RollbackSteps
  <2> QED
    BY <1>4, <2>2, <2>3, <2>4 DEF Prepares
<1>5. CASE Swaps(r) /\ run[r].verdict = "none"
  <2>1. /\ run[r].subject = Owner /\ run'[r].verdict = "none" /\ Replacement(r) = New(r)
        /\ run'[r].before = b
    BY <1>1, <1>5, Remembers, Footing DEF Swaps, PhaseSound, Stays, Keeps, SwapSteps
  <2>2. \A c \in Named(Live(Owner)) : c \in Ids
    BY <1>1, Footing
  <2>3. CASE run'[r].pc \in {"probe", "rename"}
    <3>1. b \in Named(Live(Owner)) /\ (Same \/ \E c \in Ids : Halted(c))
      BY <1>1, <1>5, <2>1, <2>2, <2>3 DEF BeforeSound, Swaps, Goes, Fails, Ends
    <3>2. b \in exists' /\ name'[b] = Live(Owner)
      BY <3>1, StaysNamed
    <3> QED
      BY <2>1, <2>3, <3>2 DEF BeforeSound, Named, Live, RollbackSteps
  <2>4. CASE run'[r].pc = "create"
    <3>1. run[r].pc = "rename" /\ \E c \in Named(Live(Owner)) : Moved(c, Candidate(r))
      BY <1>5, <2>1, <2>4 DEF Swaps, Goes, Fails, Ends
    <3>2. Moved(b, Candidate(r)) /\ b \in exists /\ b \in Ids
      BY <1>1, <1>5, <3>1, Footing DEF BeforeSound
    <3>3. b \in exists' /\ name'[b] = run'[r].archive
      BY <1>1, <2>4, <3>2, Remembers, Footing DEF Moved, Renamed, Named
    <3> QED
      BY <2>1, <2>4, <3>3 DEF BeforeSound, Named, RollbackSteps
  <2>5. CASE run'[r].pc = "start"
    <3>1. run[r].pc = "create" /\ Made(New(r), Live(Owner))
      BY <1>5, <2>1, <2>5 DEF Swaps, Goes, Fails, Ends
    <3>2. b \in exists' /\ name'[b] = run[r].archive
      BY <1>1, <1>5, <3>1, StaysNamed DEF BeforeSound
    <3> QED
      BY <2>1, <2>5, <3>2, Remembers DEF BeforeSound, Named, RollbackSteps
  <2>6. CASE run'[r].pc = "gate"
    <3>1. run[r].pc = "start" /\ Launched(New(r))
      BY <1>5, <2>1, <2>6 DEF Swaps, Goes, Fails, Ends
    <3>2. b \in exists' /\ name'[b] = run[r].archive
      BY <1>1, <1>5, <3>1, StaysNamed DEF BeforeSound
    <3>3. New(r) \in exists'
      BY <3>1 DEF Launched
    <3> QED
      BY <1>1, <2>1, <2>6, <3>2, <3>3, Remembers DEF BeforeSound, Named, RollbackSteps
  <2> QED
    BY <1>2, <1>5, <2>1, <2>3, <2>4, <2>5, <2>6 DEF Swaps, Goes, Fails, Ends
<1>6. CASE (Repairs(r) \/ Swaps(r)) /\ run[r].verdict # "none"
  <2>1. OwnersSame /\ run'[r].verdict = run[r].verdict /\ Active(r)
    BY <1>1, <1>6, OwnersUntouched DEF Repairs, Swaps, Stays, Keeps, Active
  <2>2. run'[r].before = b /\ run[r].pc \notin RollbackSteps
    BY <1>6, Remembers DEF Repairs, Swaps, RollbackSteps
  <2>3. run'[r].pc \notin {"gate", "rbstop", "rbremove", "rbrename", "rbstart"}
    <3>1. CASE Repairs(r)
      BY <3>1 DEF Repairs, Goes, Ends
    <3>2. CASE Swaps(r)
      <4>1. run[r].subject # Owner
        BY <1>1, <1>6, <3>2, Footing DEF PhaseSound, Swaps, SwapSteps
      <4> QED
        BY <3>2, <4>1 DEF Swaps, Goes, Fails
    <3> QED
      BY <1>6, <3>1, <3>2
  <2>4. ASSUME run[r].verdict \in {"timeout", "crashed"} PROVE b \in Serving(Owner)'
    <3>1. b \in exists /\ name[b] = Live(Owner) /\ up[b]
      BY <1>1, <2>1, <2>2, <2>4 DEF BeforeSound, Serving, Named
    <3>2. b \in Ids /\ b[2] = Owner
      BY <1>1, <3>1, Footing
    <3> QED
      BY <2>1, <3>1, <3>2 DEF OwnersSame, Serving, Named, Live
  <2> QED
    BY <1>6, <2>1, <2>2, <2>3, <2>4 DEF BeforeSound
<1>7. CASE Decides(r)
  <2>1. run[r].pc = "gate" /\ Same
    BY <1>7 DEF Decides
  <2>2. b \in Named(run[r].old) /\ run'[r].before = b /\ run'[r].old = run[r].old
    BY <1>1, <2>1, Remembers DEF BeforeSound
  <2>3. CASE run'[r].pc = "rbstop" /\ run'[r].verdict \in {"crashed", "timeout"}
    BY <2>1, <2>2, <2>3 DEF BeforeSound, Named, Same, RollbackSteps
  <2> QED
    BY <1>2, <1>3, <1>7, <2>3 DEF Decides, Goes, Ends, RollbackSteps
<1>8. CASE Finishes(r)
  <2>1. run'[r].verdict = "healthy"
    BY <1>1, <1>8, Footing DEF Finishes, PhaseSound, Stays, Keeps
  <2> QED
    BY <1>2, <1>3, <1>8, <2>1 DEF Finishes, Goes, Ends, RollbackSteps
<1>9. CASE RollsBack(r)
  <2>1. /\ run[r].pc \in RollbackSteps /\ run'[r].before = b /\ run'[r].old = run[r].old
        /\ run'[r].verdict \in {"timeout", "crashed"}
    <3>1. run[r].pc \in RollbackSteps
      BY <1>9 DEF RollsBack, RollbackSteps
    <3> QED
      BY <1>1, <1>9, <3>1, Remembers, Footing DEF RollsBack, RollbackSteps, Stays, Keeps, PhaseSound
  <2>2. CASE run'[r].pc \in {"rbremove", "rbrename"}
    <3>1. b \in Named(run[r].old)
      BY <1>1, <1>9, <2>2 DEF RollsBack, Goes, Ends, BeforeSound
    <3>2. b # New(r)
      <4>1. name[b] # Live(Owner)
        BY <1>1, <3>1, Footing, Archives
      <4>2. b \in exists /\ Active(r)
        BY <3>1, <2>1 DEF Named, Active, RollbackSteps
      <4> QED
        BY <4>1, <4>2 DEF IInv, ReplacementSound
    <3>3. Same \/ Halted(New(r)) \/ Gone(New(r))
      BY <1>9, <2>2 DEF RollsBack, Goes, Ends
    <3>4. b \in exists' /\ name'[b] = run[r].old
      BY <1>1, <3>1, <3>2, <3>3, StaysNamed
    <3> QED
      BY <2>1, <2>2, <3>4 DEF BeforeSound, Named, RollbackSteps
  <2>3. CASE run'[r].pc = "rbstart"
    <3>1. run[r].pc = "rbrename" /\ \E c \in Named(run[r].old) : Moved(c, Live(Owner))
      BY <1>9, <2>3 DEF RollsBack, Goes, Ends
    <3>2. Moved(b, Live(Owner)) /\ b \in exists /\ b \in Ids
      BY <1>1, <3>1, Footing DEF BeforeSound
    <3>3. b \in exists' /\ name'[b] = Live(Owner)
      BY <1>1, <3>2, Footing DEF Moved, Renamed
    <3> QED
      BY <2>1, <2>3, <3>3 DEF BeforeSound, Named, Live, RollbackSteps
  <2>4. CASE run'[r].pc = "repair"
    <3>1. run[r].pc = "rbstart" /\ \E c \in Named(Live(Owner)) : Launched(c)
      BY <1>9, <2>4 DEF RollsBack, Goes, Ends
    <3>2. Launched(b) /\ b \in exists /\ b \in Ids /\ name[b] = Live(Owner)
      BY <1>1, <3>1, Footing DEF BeforeSound
    <3>3. b \in Serving(Owner)'
      BY <1>1, <3>2, Footing DEF Launched, Serving, Named, Live
    <3> QED
      BY <2>1, <2>4, <3>3 DEF BeforeSound, RollbackSteps
  <2> QED
    BY <1>2, <1>9, <2>2, <2>3, <2>4 DEF RollsBack, Goes, Ends
<1>10. CASE Dies(r)
  BY <1>2, <1>10 DEF Dies, Ends
<1>11. Repairs(r) => run[r].verdict # "none"
  BY <1>1, Footing DEF Repairs, PhaseSound, RepairSteps
<1> QED
  BY <1>1, <1>4, <1>5, <1>6, <1>7, <1>8, <1>9, <1>10, <1>11, Effects

LEMMA BeforeInvariant == ASSUME ~Overlap PROVE Spec => []BeforeInv
<1>1. Init => BeforeInv
  <2> SUFFICES ASSUME Init PROVE BeforeInv
    OBVIOUS
  <2>1. \A r \in Runs : run[r].pc = "idle"
    BY DEF Init, Fresh
  <2> QED
    BY <2>1 DEF BeforeInv, BeforeSound, Active, RollbackSteps
<1>2. TypeOK /\ IInv /\ OwnerInv /\ BeforeInv /\ [Next]_vars => BeforeInv'
  <2> SUFFICES ASSUME TypeOK, IInv, OwnerInv, BeforeInv, [Next]_vars PROVE BeforeInv'
    OBVIOUS
  <2>1. ASSUME NEW r \in Runs, Step(r) \/ Kill(r) PROVE BeforeInv'
    <3>1. ASSUME NEW s \in Runs \ {r} PROVE BeforeSound(s)'
      <4>1. run'[s].pc \in {"idle", "done"}
        BY <2>1, OnlyActive DEF IInv, Active
      <4> QED
        BY <4>1 DEF BeforeSound, Active
    <3> QED
      BY <2>1, <3>1, BeforeStep DEF BeforeInv
  <2>2. ASSUME NEW c \in Ids, Exit(c), NEW r \in Runs PROVE BeforeSound(r)'
    <3>1. UNCHANGED <<exists, name, oneShot, run>> /\ up' = [up EXCEPT ![c] = FALSE]
      BY <2>2 DEF Exit, StopContainer
    <3>2. ~(Active(r) /\ run[r].verdict \in {"timeout", "crashed"})
      <4> SUFFICES ASSUME Active(r), run[r].verdict \in {"timeout", "crashed"} PROVE FALSE
        OBVIOUS
      <4>1. ~oneShot
        BY DEF OwnerInv, OwnerSound
      <4>2. PICK s \in Runs : run[s].pc = "gate"
        BY <2>2, <4>1 DEF Exit
      <4>3. r = s
        BY <4>2 DEF IInv, OneAtATime, Active
      <4> QED
        BY <4>2, <4>3 DEF IInv, PhasesSound, PhaseSound
    <3> QED
      BY <3>1, <3>2 DEF BeforeInv, BeforeSound, Active, Named, New, Live
  <2>3. CASE UNCHANGED vars
    BY <2>3 DEF vars, docker, BeforeInv, BeforeSound, Active, Named, New, Live, Serving
  <2> QED
    BY <2>1, <2>2, <2>3 DEF Next, BeforeInv
<1> QED
  BY <1>1, <1>2, TypeCorrect, SerialInvariant, OwnerInvariant, PTL DEF Spec

\* What an update of a service that is no one-shot reports is what there is.
\* (OutcomeTruthful of the run.)
THEOREM ReportsTrue ==
  ASSUME ~Overlap, TRUE \notin OneShots
  PROVE  Spec => OutcomeTruthful
<1> DEFINE Truthful == \A r \in Runs : run'[r].outcome # run[r].outcome =>
             /\ run'[r].outcome = "recreated" => (Serving(Owner))' = {New(r)}
             /\ run'[r].outcome = "rolledback" => (Serving(Owner))' = {run[r].before}
             /\ run'[r].outcome = "skipped" => Named(Live(Owner))' = {run[r].before}
<1>1. Init => ~oneShot
  BY DEF Init
<1>2. ~oneShot /\ [Next]_vars => ~oneShot'
  BY KindKept DEF Next, Exit, vars
<1>3. ~oneShot /\ TypeOK /\ IInv /\ OwnerInv /\ BeforeInv /\ [Next]_vars => [Truthful]_vars
  <2> SUFFICES ASSUME ~oneShot, TypeOK, IInv, OwnerInv, BeforeInv, Next PROVE Truthful
    OBVIOUS
  <2>1. CASE \E c \in Ids : Exit(c)
    BY <2>1 DEF Exit
  <2>2. ASSUME NEW r \in Runs, Step(r) \/ Kill(r) PROVE Truthful
    <3>1. \A s \in Runs \ {r} : run'[s] = run[s]
      BY <2>2, OthersUntouched
    <3>2. NamesSound /\ PhasesSound /\ OwnerSound(r) /\ BeforeSound(r)
      BY DEF IInv, OwnerInv, BeforeInv
    <3>3. \A c \in exists : name[c] = Live(Owner) => Named(Live(Owner)) = {c}
      BY <3>2, Footing DEF Named
    <3>4. Same => /\ \A S : Named(Live(Owner)) = S => Named(Live(Owner))' = S
                  /\ \A S : Serving(Owner) = S => Serving(Owner)' = S
      BY DEF Same, Serving, Named, Live
    <3>5. CASE run'[r].outcome = "recreated" /\ run[r].outcome # "recreated"
      <4>1. run[r].pc = "prune" /\ Same
        BY <2>2, <3>2, <3>5, Effects
        DEF Prepares, Swaps, Decides, Repairs, Finishes, RollsBack, Dies, Goes, Ends, Fails
      <4>2. run[r].verdict = "healthy" /\ Active(r)
        BY <3>2, <4>1, Footing DEF PhaseSound, Active
      <4>3. New(r) \in exists /\ name[New(r)] = Live(Owner) /\ up[New(r)]
        BY <3>2, <4>2 DEF IInv, ReplacementSound, OwnerSound
      <4>4. Serving(Owner) = {New(r)}
        BY <3>3, <4>3 DEF Serving
      <4> QED
        BY <3>1, <3>4, <3>5, <4>1, <4>4
    <3>6. CASE run'[r].outcome = "rolledback" /\ run[r].outcome # "rolledback"
      <4>1. run[r].pc = "repair" /\ Same /\ run[r].verdict # "healthy"
        BY <2>2, <3>2, <3>6, Effects
        DEF Prepares, Swaps, Decides, Repairs, Finishes, RollsBack, Dies, Goes, Ends, Fails
      <4>2. run[r].verdict \in {"timeout", "crashed"} /\ Active(r)
        BY <3>2, <4>1, Footing DEF PhaseSound, RepairSteps, RunState, Verdicts, Active
      <4>3. run[r].before \in Serving(Owner)
        BY <3>2, <4>1, <4>2 DEF BeforeSound, RollbackSteps
      <4>4. Serving(Owner) = {run[r].before}
        BY <3>3, <4>3 DEF Serving, Named
      <4> QED
        BY <3>1, <3>4, <3>6, <4>1, <4>4
    <3>7. CASE run'[r].outcome = "skipped" /\ run[r].outcome # "skipped"
      <4>1. run[r].pc \in {"inspect", "pull", "hook"} /\ Same /\ run'[r].pc = "done"
        BY <2>2, <3>2, <3>7, Effects
        DEF Prepares, Swaps, Decides, Repairs, Finishes, RollsBack, Dies, Goes, Ends, Fails
      <4>2. run[r].pc # "inspect"
        BY <2>2, <3>7, <4>1, Remembers
      <4>3. run[r].before \in Named(Live(Owner))
        BY <3>2, <4>1, <4>2, Footing DEF BeforeSound, PhaseSound
      <4>4. Named(Live(Owner)) = {run[r].before}
        BY <3>3, <4>3 DEF Named
      <4> QED
        BY <3>1, <3>4, <3>7, <4>1, <4>4
    <3> QED
      BY <3>1, <3>5, <3>6, <3>7
  <2> QED
    BY <2>1, <2>2 DEF Next
<1> QED
  BY <1>1, <1>2, <1>3, TypeCorrect, SerialInvariant, OwnerInvariant, BeforeInvariant, PTL
  DEF Spec, OutcomeTruthful

\* A one-shot that failed leaves its container and its predecessor's, whatever else fails.
\* (FailureEvidenceKept of the run.)
THEOREM EvidenceStays == ASSUME ~Overlap PROVE Spec => FailureEvidenceKept
<1> DEFINE Left == \A r \in Runs : run'[r].outcome = "failed" /\ run[r].outcome # "failed" =>
             {New(r), run[r].before} \subseteq exists'
<1>1. TypeOK /\ IInv /\ BeforeInv /\ [Next]_vars => [Left]_vars
  <2> SUFFICES ASSUME TypeOK, IInv, BeforeInv, Next PROVE Left
    OBVIOUS
  <2>1. CASE \E c \in Ids : Exit(c)
    BY <2>1 DEF Exit
  <2>2. ASSUME NEW r \in Runs, Step(r) \/ Kill(r) PROVE Left
    <3>1. \A s \in Runs \ {r} : run'[s] = run[s]
      BY <2>2, OthersUntouched
    <3>2. CASE run'[r].outcome = "failed" /\ run[r].outcome # "failed"
      <4>1. run[r].pc = "gate" /\ Same
        BY <2>2, <3>2, Effects
        DEF Prepares, Swaps, Decides, Repairs, Finishes, RollsBack, Dies, Goes, Ends, Fails
      <4>2. New(r) \in exists /\ run[r].before \in exists
        BY <4>1 DEF BeforeInv, BeforeSound, Named
      <4> QED
        BY <3>1, <3>2, <4>1, <4>2 DEF Same
    <3> QED
      BY <3>1, <3>2
  <2> QED
    BY <2>1, <2>2 DEF Next
<1> QED
  BY <1>1, TypeCorrect, SerialInvariant, BeforeInvariant, PTL DEF Spec, FailureEvidenceKept
-----------------------------------------------------------------------------
(* What follows from the promise alone, whatever keeps it.                 *)

\* An accepted version is kept until another one retires it, which is then kept.
AcceptedKept == \A u \in Runs : UpdateStages[u] = "accepted" => u \in OwnersKept

OneUnderWay ==
  \A u, v \in Runs :
    UpdateStages[u] \in Promise!Under /\ UpdateStages[v] \in Promise!Under => u = v

AbstractInv == Promise!AbstractTypeOK /\ AcceptedKept /\ OneUnderWay /\ Promise!AlwaysRecoverable

LEMMA AbstractInitially == Promise!AbstractInit => AbstractInv
BY DEF Promise!AbstractInit, AbstractInv, Promise!AbstractTypeOK, AcceptedKept, OneUnderWay,
       Promise!AlwaysRecoverable, Promise!Versions, Promise!Stages, Promise!Under

\* Every step keeps the types, the one update under way, and a version to return to.
LEMMA AbstractStep ==
  ASSUME AbstractInv, [Promise!AbstractNext]_(Promise!abstract)
  PROVE  AbstractInv'
<1> USE DEF AbstractInv, Promise!AbstractTypeOK, AcceptedKept, OneUnderWay, Promise!AlwaysRecoverable,
            Promise!Stages, Promise!Under, Promise!To
<1>1. CASE UNCHANGED Promise!abstract
  BY <1>1 DEF Promise!abstract
<1>2. CASE Promise!AbstractNext
  <2> SUFFICES ASSUME NEW u \in Runs,
                      \/ Promise!Prepare(u) \/ Promise!Replace(u) \/ Promise!TakeDown(u)
                      \/ Promise!Launch(u) \/ Promise!Crash(u) \/ Promise!Accept(u)
                      \/ Promise!Reject(u) \/ Promise!Withdraw(u) \/ Promise!Restore(u)
                      \/ Promise!Report(u) \/ Promise!Abandon(u)
                      \/ \E v \in Promise!Versions : Promise!Retire(u, v)
               PROVE  AbstractInv'
    BY <1>2 DEF Promise!AbstractNext
  <2>1. CASE Promise!Prepare(u) BY <2>1 DEF Promise!Prepare
  <2>2. CASE Promise!Replace(u) BY <2>2 DEF Promise!Replace
  <2>3. CASE Promise!TakeDown(u) BY <2>3 DEF Promise!TakeDown
  <2>4. CASE Promise!Launch(u) BY <2>4 DEF Promise!Launch, Promise!Versions
  <2>5. CASE Promise!Crash(u) BY <2>5 DEF Promise!Crash
  <2>6. CASE Promise!Accept(u) BY <2>6 DEF Promise!Accept, Promise!Versions
  <2>7. CASE Promise!Reject(u) BY <2>7 DEF Promise!Reject
  <2>8. CASE Promise!Withdraw(u) BY <2>8 DEF Promise!Withdraw
  <2>9. CASE Promise!Restore(u) BY <2>9 DEF Promise!Restore
  <2>10. CASE Promise!Report(u) BY <2>10 DEF Promise!Report
  <2>11. CASE Promise!Abandon(u) BY <2>11 DEF Promise!Abandon
  <2>12. CASE \E v \in Promise!Versions : Promise!Retire(u, v)
    <3> PICK v \in Promise!Versions : Promise!Retire(u, v)
      BY <2>12
    <3>1. u \in OwnersKept /\ u # v
      BY DEF Promise!Retire
    <3>2. \A w \in Runs : UpdateStages[w] = "accepted" => w = u
      BY DEF Promise!Retire
    <3> QED
      BY <3>1, <3>2 DEF Promise!Retire
  <2> QED
    BY <2>1, <2>2, <2>3, <2>4, <2>5, <2>6, <2>7, <2>8, <2>9, <2>10, <2>11, <2>12
<1> QED
  BY <1>1, <1>2

\* What keeps the promise can be recovered at any time: a version known to work is
\* there, and one version at most runs.
THEOREM Recoverable == Promise!AbstractSpec => []Promise!AlwaysRecoverable
<1>1. Promise!AbstractSpec => []AbstractInv
  BY AbstractInitially, AbstractStep, PTL DEF Promise!AbstractSpec
<1>2. AbstractInv => Promise!AlwaysRecoverable
  BY DEF AbstractInv
<1> QED
  BY <1>1, <1>2, PTL
=============================================================================
