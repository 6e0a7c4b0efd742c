----------------------------- MODULE InputsProofs -----------------------------
(***************************************************************************)
(* What freshdock reads, whatever it is.  The labels: for every set of     *)
(* modes, timeouts and commands, and however far a migration has come, the *)
(* two readers of the labels agree.  The schedules: for every expression   *)
(* and every calendar, what the two loops of cron.rs compute, and so when  *)
(* a schedule fires.  The configuration, the answers to `check`, the       *)
(* containers' specs and the image references: for all that can be read,   *)
(* what they promise.                                                      *)
(***************************************************************************)
EXTENDS MCInputs, WellFoundedInduction, NaturalsInduction, SequenceTheorems, FiniteSetTheorems, TLAPS

-----------------------------------------------------------------------------
(* The labels, as they are migrated.                                       *)

TypeInv == labels \in Labelling /\ defaults \in PolicyDefaults

\* A migration keeps labels and defaults among the possible ones.
LEMMA TypeStep ==
  ASSUME TypeInv, [Next]_vars
  PROVE  TypeInv'
<1>. USE DEF TypeInv, Labelling, Optional
<1>1. CASE UNCHANGED vars
  BY <1>1 DEF vars
<1>2. ASSUME NEW key \in DOMAIN Fallback, Adopt(key)
      PROVE  TypeInv'
  <2>1. /\ labels' = [labels EXCEPT ![key] = Translated(key, labels[Fallback[key]])]
        /\ labels[Fallback[key]] \notin {Absent, Junk} /\ defaults' = defaults
    BY <1>2 DEF Adopt
  <2>2. CASE key = "enable"
    BY <2>1, <2>2 DEF Fallback, Translated
  <2>3. CASE key = "mode"
    BY <2>1, <2>3, LabelsAssumption DEF Fallback, Translated
  <2>4. CASE key = "command"
    BY <2>1, <2>4 DEF Fallback, Translated
  <2>5. CASE key = "timeout"
    <3>1. labels.wtTimeout \in Minutes
      BY <2>1, <2>5 DEF Fallback
    <3>2. 60 * labels.wtTimeout \in Timeouts
      BY <3>1, LabelsAssumption
    <3>. QED
      BY <2>1, <2>5, <3>2 DEF Fallback, Translated
  <2>. QED
    BY <2>2, <2>3, <2>4, <2>5 DEF Fallback
<1>3. ASSUME NEW key \in DOMAIN Fallback, Retire(key)
      PROVE  TypeInv'
  <2>1. /\ labels' = [labels EXCEPT ![Fallback[key]] = Absent]
        /\ defaults' = defaults
    BY <1>3 DEF Retire
  <2>2. CASE key = "enable"
    BY <2>1, <2>2 DEF Fallback
  <2>3. CASE key = "mode"
    BY <2>1, <2>3 DEF Fallback
  <2>4. CASE key = "command"
    BY <2>1, <2>4 DEF Fallback
  <2>5. CASE key = "timeout"
    BY <2>1, <2>5 DEF Fallback
  <2>. QED
    BY <2>2, <2>3, <2>4, <2>5 DEF Fallback
<1>. QED
  BY <1>1, <1>2, <1>3 DEF Next

\* A container whose enable label, of the spelling that counts, says no, or whose
\* mode is off, is not updated, be it by hand.
LEMMA LeftToItself ==
  ASSUME NEW l \in Labelling, NEW d \in PolicyDefaults,
         Explicit(l) = FALSE \/ l.mode = "off"
  PROVE  ~Updated(l, d) /\ ~ByHand(l, d)
<1>1. CASE Explicit(l) = FALSE
  <2>1. Or(Explicit(l), d.watchAll) = FALSE
    BY <1>1, LabelsAssumption DEF Or
  <2>2. FALSE # Junk
    BY LabelsAssumption
  <2>3. Policy(l, d) = Disabled
    BY <2>1, <2>2 DEF Policy
  <2>. QED
    BY <2>3 DEF Updated, ByHand, Disabled
<1>2. CASE l.mode = "off" /\ Explicit(l) # FALSE
  <2>1. "off" # Absent
    BY <1>2, LabelsAssumption DEF Labelling, Optional
  <2>2. Mode(l, d) = "off"
    BY <1>2, <2>1 DEF Mode, Or
  <2>. QED
    BY <2>2 DEF Updated, ByHand, Policy, Disabled
<1>. QED
  BY <1>1, <1>2

\* The two readers agree on every labelling, whatever the defaults.
LEMMA Agreement ==
  ASSUME TypeInv
  PROVE  OptOutsAgree
<1>1. ASSUME Explicit(labels) = FALSE \/ labels.mode = "off"
      PROVE  OptsOut(labels)
  BY <1>1 DEF Explicit, Or, OptsOut
<1>2. ASSUME OptsOut(labels), "wtEnable" \notin Notes(labels)
      PROVE  Explicit(labels) = FALSE \/ labels.mode = "off"
  <2>1. CASE labels.enable = FALSE
    BY <2>1, LabelsAssumption DEF Explicit, Or
  <2>2. CASE labels.wtEnable = FALSE
    <3>1. FALSE # Absent
      BY LabelsAssumption
    <3>2. labels.enable = Absent \/ labels.enable = FALSE
      BY <1>2, <2>2, <3>1 DEF Notes
    <3>. QED
      BY <2>1, <2>2, <3>2 DEF Explicit, Or
  <2>. QED
    BY <1>2, <2>1, <2>2 DEF OptsOut
<1>. QED
  BY <1>1, <1>2, LeftToItself DEF TypeInv, OptOutsAgree, Involved, Repaired

\* explicitly_opts_out and parse_policy never part ways unreported: what the one
\* spares the other does not update, whatever the labels and the defaults.
THEOREM OptOutsRespected == Spec => []OptOutsAgree
<1>1. Init => TypeInv
  BY DEF Init, TypeInv
<1>2. TypeInv /\ [Next]_vars => TypeInv'
  BY TypeStep
<1>3. TypeInv => OptOutsAgree
  BY Agreement
<1>. QED
  BY <1>1, <1>2, <1>3, PTL DEF Spec
-----------------------------------------------------------------------------
(* What a labelling is treated by: five readings of it.                    *)

\* The labels that are read of an enabled container, unreadable?
Unreadable(l) == Junk \in {l.monitorOnly, l.mode, l.other, Timeout(l)}

\* A policy is made of the enable label, the readability of the others, the mode and
\* the hook.
LEMMA PolicyReads ==
  ASSUME NEW l, NEW m, NEW d,
         Or(Explicit(l), d.watchAll) = Or(Explicit(m), d.watchAll),
         (Explicit(l) = Absent) <=> (Explicit(m) = Absent),
         Unreadable(l) <=> Unreadable(m),
         ~Unreadable(l) => Mode(l, d) = Mode(m, d) /\ Hook(l) = Hook(m)
  PROVE  Policy(l, d) = Policy(m, d)
<1>. DEFINE enabled(k) == Or(Explicit(k), d.watchAll)
            read(k) == [enabled |-> TRUE, mode |-> Mode(k, d), hook |-> Hook(k), auto |-> Explicit(k) = Absent]
            policy(k) == IF enabled(k) = Junk THEN Invalid
                         ELSE IF ~enabled(k) THEN Disabled
                         ELSE IF Unreadable(k) THEN Invalid ELSE read(k)
<1>1. Policy(l, d) = policy(l) /\ Policy(m, d) = policy(m)
  BY DEF Policy, Unreadable
<1>2. enabled(l) = enabled(m)
  OBVIOUS
<1>3. ~Unreadable(l) => read(l) = read(m)
  BY Zenon
<1>4. CASE Unreadable(l)
  <2>1. policy(l) = (IF enabled(l) = Junk THEN Invalid ELSE IF ~enabled(l) THEN Disabled ELSE Invalid)
    BY <1>4, Zenon
  <2>2. policy(m) = (IF enabled(m) = Junk THEN Invalid ELSE IF ~enabled(m) THEN Disabled ELSE Invalid)
    BY <1>4, Zenon
  <2>. HIDE DEF enabled, read, policy
  <2>. QED
    BY <1>1, <1>2, <2>1, <2>2, Zenon
<1>5. CASE ~Unreadable(l)
  <2>1. policy(l) = (IF enabled(l) = Junk THEN Invalid ELSE IF ~enabled(l) THEN Disabled ELSE read(l))
    BY <1>5, Zenon
  <2>2. policy(m) = (IF enabled(m) = Junk THEN Invalid ELSE IF ~enabled(m) THEN Disabled ELSE read(m))
    BY <1>5, Zenon
  <2>. HIDE DEF enabled, read, policy
  <2>. QED
    BY <1>1, <1>2, <1>3, <1>5, <2>1, <2>2, Zenon
<1>. QED
  BY <1>4, <1>5

\* How a container is treated depends on its policy and its opt-out alone.
LEMMA TreatmentReads ==
  ASSUME NEW l, NEW m, NEW d,
         Policy(l, d) = Policy(m, d), OptsOut(l) <=> OptsOut(m)
  PROVE  Treatment(l, d) = Treatment(m, d)
<1>1. ByHand(l, d) <=> ByHand(m, d)
  BY Zenon DEF ByHand
<1>2. Involved(l, d) <=> Involved(m, d)
  BY Zenon DEF Involved
<1>3. Repaired(l) <=> Repaired(m)
  BY DEF Repaired
<1>4. ByHand(l, d) = ByHand(m, d) /\ Involved(l, d) = Involved(m, d) /\ Repaired(l) = Repaired(m)
  BY <1>1, <1>2, <1>3, Zenon DEF ByHand, Involved, Repaired
<1>. QED
  BY <1>4, Zenon DEF Treatment
-----------------------------------------------------------------------------
(* The migration.                                                          *)

\* What Absent and Junk are not, spelled out.
LEMMA Distinct ==
  /\ Absent # Junk /\ Absent \notin BOOLEAN /\ Junk \notin BOOLEAN
  /\ Junk \notin Minutes /\ Absent \notin Minutes
  /\ Junk \notin Timeouts /\ Absent \notin Timeouts
  /\ "watch" # Junk /\ "watch" # Absent
  /\ \A m \in Minutes : Seconds(m) \in Timeouts /\ Seconds(m) = 60 * m
  /\ Seconds(Absent) = Absent /\ Seconds(Junk) = Junk
BY LabelsAssumption DEF Seconds

\* A freshdock label that says what watchtower's said.
LEMMA AdoptionUnnoticed ==
  ASSUME TypeInv, NEW key \in DOMAIN Fallback, Adopt(key)
  PROVE  Treatment(labels', defaults) = Treatment(labels, defaults)
<1>1. /\ labels' = [labels EXCEPT ![key] = Translated(key, labels[Fallback[key]])]
      /\ labels[key] = Absent /\ labels[Fallback[key]] \notin {Absent, Junk}
      /\ labels \in Labelling
  BY DEF Adopt, TypeInv
<1>2. CASE key = "enable"
  <2>1. /\ labels' = [labels EXCEPT !.enable = labels.wtEnable]
        /\ labels.enable = Absent /\ labels.wtEnable \notin {Absent, Junk}
    BY <1>1, <1>2 DEF Fallback, Translated
  <2>2. Explicit(labels') = Explicit(labels)
    BY <1>1, <2>1 DEF Explicit, Or, Labelling
  <2>3. /\ Mode(labels', defaults) = Mode(labels, defaults) /\ Hook(labels') = Hook(labels)
        /\ Unreadable(labels') <=> Unreadable(labels)
    BY <1>1, <2>1 DEF Mode, Hook, Timeout, Unreadable, Labelling
  <2>4. OptsOut(labels') <=> OptsOut(labels)
    BY <1>1, <2>1, Distinct DEF OptsOut, Labelling
  <2>. QED
    BY <2>2, <2>3, <2>4, PolicyReads, TreatmentReads
<1>3. CASE key = "mode"
  <2>1. /\ labels' = [labels EXCEPT !.mode = IF labels.monitorOnly = TRUE THEN "watch" ELSE Absent]
        /\ labels.mode = Absent /\ labels.monitorOnly \notin {Absent, Junk}
    BY <1>1, <1>3 DEF Fallback, Translated
  <2>2. Explicit(labels') = Explicit(labels)
    BY <1>1, <2>1 DEF Explicit, Or, Labelling
  <2>3. Hook(labels') = Hook(labels) /\ Timeout(labels') = Timeout(labels)
    BY <1>1, <2>1 DEF Hook, Timeout, Labelling
  <2>4. Mode(labels', defaults) = Mode(labels, defaults)
    BY <1>1, <2>1, Distinct DEF Mode, Or, Labelling
  <2>5. Unreadable(labels') <=> Unreadable(labels)
    BY <1>1, <2>1, <2>3, Distinct DEF Unreadable, Labelling
  <2>6. OptsOut(labels') <=> OptsOut(labels)
    <3>1. labels.mode # "off" /\ labels'.mode # "off"
      BY <1>1, <2>1, LabelsAssumption DEF Labelling
    <3>. QED
      BY <1>1, <2>1, <3>1 DEF OptsOut, Labelling
  <2>. QED
    BY <2>2, <2>3, <2>4, <2>5, <2>6, PolicyReads, TreatmentReads
<1>4. CASE key = "command"
  <2>1. /\ labels' = [labels EXCEPT !.command = labels.wtCommand]
        /\ labels.command = Absent /\ labels.wtCommand # Absent
    BY <1>1, <1>4 DEF Fallback, Translated
  <2>2. Explicit(labels') = Explicit(labels) /\ Mode(labels', defaults) = Mode(labels, defaults)
    BY <1>1, <2>1 DEF Explicit, Mode, Or, Labelling
  <2>3. Timeout(labels') = Timeout(labels)
    BY <1>1, <2>1 DEF Timeout, Labelling
  <2>4. Or(labels'.command, labels'.wtCommand) = Or(labels.command, labels.wtCommand)
    BY <1>1, <2>1 DEF Or, Labelling
  <2>5. Hook(labels') = Hook(labels)
    BY <2>3, <2>4 DEF Hook
  <2>6. /\ Unreadable(labels') <=> Unreadable(labels)
        /\ OptsOut(labels') <=> OptsOut(labels)
    BY <1>1, <2>1, <2>3 DEF Unreadable, OptsOut, Labelling
  <2>. QED
    BY <2>2, <2>5, <2>6, PolicyReads, TreatmentReads
<1>5. CASE key = "timeout"
  <2>1. /\ labels' = [labels EXCEPT !.timeout = 60 * labels.wtTimeout]
        /\ labels.timeout = Absent /\ labels.wtTimeout \notin {Absent, Junk}
    BY <1>1, <1>5 DEF Fallback, Translated
  <2>2. labels.wtTimeout \in Minutes
    BY <1>1, <2>1 DEF Labelling, Optional
  <2>3. labels'.timeout = Seconds(labels.wtTimeout) /\ Seconds(labels.wtTimeout) # Absent
    BY <1>1, <2>1, <2>2, Distinct DEF Labelling
  <2>4. Timeout(labels') = Timeout(labels)
    BY <1>1, <2>1, <2>3 DEF Timeout, Or
  <2>5. Explicit(labels') = Explicit(labels) /\ Mode(labels', defaults) = Mode(labels, defaults)
    BY <1>1, <2>1 DEF Explicit, Mode, Or, Labelling
  <2>6. Hook(labels') = Hook(labels)
    BY <1>1, <2>1, <2>4 DEF Hook, Labelling
  <2>7. /\ Unreadable(labels') <=> Unreadable(labels)
        /\ OptsOut(labels') <=> OptsOut(labels)
    BY <1>1, <2>1, <2>4 DEF Unreadable, OptsOut, Labelling
  <2>. QED
    BY <2>5, <2>6, <2>7, PolicyReads, TreatmentReads
<1>. QED
  BY <1>2, <1>3, <1>4, <1>5 DEF Fallback

\* A watchtower label that a freshdock label overrides without a note.
LEMMA RetirementUnnoticed ==
  ASSUME TypeInv, ~Careless, NEW key \in DOMAIN Fallback, Retire(key)
  PROVE  Treatment(labels', defaults) = Treatment(labels, defaults)
<1>1. /\ labels' = [labels EXCEPT ![Fallback[key]] = Absent]
      /\ labels[key] # Absent /\ labels[Fallback[key]] \notin {Absent, Junk}
      /\ Fallback[key] \notin Notes(labels)
      /\ labels \in Labelling
  BY DEF Retire, TypeInv
<1>2. CASE key = "enable"
  <2>1. /\ labels' = [labels EXCEPT !.wtEnable = Absent]
        /\ labels.enable # Absent /\ labels.wtEnable # Absent /\ "wtEnable" \notin Notes(labels)
    BY <1>1, <1>2 DEF Fallback
  <2>2. labels.enable = labels.wtEnable
    BY <2>1 DEF Notes
  <2>3. Explicit(labels') = Explicit(labels)
    BY <1>1, <2>1 DEF Explicit, Or, Labelling
  <2>4. /\ Mode(labels', defaults) = Mode(labels, defaults) /\ Hook(labels') = Hook(labels)
        /\ Unreadable(labels') <=> Unreadable(labels)
    BY <1>1, <2>1 DEF Mode, Hook, Timeout, Unreadable, Labelling
  <2>5. OptsOut(labels') <=> OptsOut(labels)
    BY <1>1, <2>1, <2>2, Distinct DEF OptsOut, Labelling
  <2>. QED
    BY <2>3, <2>4, <2>5, PolicyReads, TreatmentReads
<1>3. CASE key = "mode"
  <2>1. /\ labels' = [labels EXCEPT !.monitorOnly = Absent]
        /\ labels.mode # Absent /\ labels.monitorOnly \notin {Absent, Junk}
    BY <1>1, <1>3 DEF Fallback
  <2>2. /\ Explicit(labels') = Explicit(labels) /\ Mode(labels', defaults) = Mode(labels, defaults)
        /\ Hook(labels') = Hook(labels) /\ Timeout(labels') = Timeout(labels)
    BY <1>1, <2>1 DEF Explicit, Mode, Hook, Timeout, Or, Labelling
  <2>3. /\ Unreadable(labels') <=> Unreadable(labels)
        /\ OptsOut(labels') <=> OptsOut(labels)
    BY <1>1, <2>1, <2>2, Distinct DEF Unreadable, OptsOut, Labelling
  <2>. QED
    BY <2>2, <2>3, PolicyReads, TreatmentReads
<1>4. CASE key = "command"
  <2>1. labels' = [labels EXCEPT !.wtCommand = Absent] /\ labels.command # Absent
    BY <1>1, <1>4 DEF Fallback
  <2>2. Explicit(labels') = Explicit(labels) /\ Mode(labels', defaults) = Mode(labels, defaults)
    BY <1>1, <2>1 DEF Explicit, Mode, Or, Labelling
  <2>3. Timeout(labels') = Timeout(labels)
    BY <1>1, <2>1 DEF Timeout, Labelling
  <2>4. Or(labels'.command, labels'.wtCommand) = Or(labels.command, labels.wtCommand)
    BY <1>1, <2>1 DEF Or, Labelling
  <2>5. Hook(labels') = Hook(labels)
    BY <2>3, <2>4 DEF Hook
  <2>6. /\ Unreadable(labels') <=> Unreadable(labels)
        /\ OptsOut(labels') <=> OptsOut(labels)
    BY <1>1, <2>1, <2>3 DEF Unreadable, OptsOut, Labelling
  <2>. QED
    BY <2>2, <2>5, <2>6, PolicyReads, TreatmentReads
<1>5. CASE key = "timeout"
  <2>1. labels' = [labels EXCEPT !.wtTimeout = Absent] /\ labels.timeout # Absent
    BY <1>1, <1>5 DEF Fallback
  <2>2. Explicit(labels') = Explicit(labels) /\ Mode(labels', defaults) = Mode(labels, defaults)
    BY <1>1, <2>1 DEF Explicit, Mode, Or, Labelling
  <2>3. Timeout(labels') = Timeout(labels)
    BY <1>1, <2>1 DEF Timeout, Or, Labelling
  <2>4. Hook(labels') = Hook(labels)
    BY <1>1, <2>1, <2>3 DEF Hook, Labelling
  <2>5. /\ Unreadable(labels') <=> Unreadable(labels)
        /\ OptsOut(labels') <=> OptsOut(labels)
    BY <1>1, <2>1, <2>3 DEF Unreadable, OptsOut, Labelling
  <2>. QED
    BY <2>2, <2>4, <2>5, PolicyReads, TreatmentReads
<1>. QED
  BY <1>2, <1>3, <1>4, <1>5 DEF Fallback

\* Nobody sees a container migrated, label by label in any order: as long as a
\* watchtower label is removed only where watchtower_diagnostics notes no conflict and
\* the label parses, parse_policy and explicitly_opts_out read the same before and after.
THEOREM MigrationHarmless == ~Careless => (Spec => MigrationUnnoticed)
<1>. SUFFICES ASSUME ~Careless
              PROVE  Spec => MigrationUnnoticed
  OBVIOUS
<1>1. Init => TypeInv
  BY DEF Init, TypeInv
<1>2. TypeInv /\ [Next]_vars => TypeInv'
  BY TypeStep
<1>3. TypeInv /\ [Next]_vars => [Treatment(labels', defaults) = Treatment(labels, defaults)]_vars
  BY AdoptionUnnoticed, RetirementUnnoticed DEF Next
<1>. QED
  BY <1>1, <1>2, <1>3, PTL DEF Spec, MigrationUnnoticed
-----------------------------------------------------------------------------
(* The notes.                                                              *)

\* Labels without note: taking away the freshdock label changes nothing, or taking away
\* watchtower's as well changes nothing more.
LEMMA NotedIfOverridden ==
  ASSUME TypeInv
  PROVE  OverridesNoted
<1>. DEFINE Without(k) == [labels EXCEPT ![k] = Absent]
            Neither(k) == [Without(k) EXCEPT ![Fallback[k]] = Absent]
            Of(l) == Policy(l, defaults)
<1>0. labels \in Labelling /\ defaults \in PolicyDefaults
  BY DEF TypeInv
<1>. SUFFICES ASSUME NEW key \in DOMAIN Fallback, Fallback[key] \notin Notes(labels)
              PROVE  Of(labels) = Of(Without(key)) \/ Of(Without(key)) = Of(Neither(key))
  BY DEF OverridesNoted
<1>1. CASE key = "enable"
  <2>. DEFINE l == Without("enable")
              m == Neither("enable")
  <2>1. l = [labels EXCEPT !.enable = Absent] /\ m = [l EXCEPT !.wtEnable = Absent]
    BY <1>0 DEF Fallback
  <2>2. labels.enable = Absent \/ labels.wtEnable = Absent \/ labels.enable = labels.wtEnable
    BY <1>1 DEF Notes, Fallback
  <2>3. CASE labels.enable = Absent
    BY <1>0, <1>1, <2>1, <2>3, ZenonT(60) DEF Labelling
  <2>4. CASE labels.wtEnable = Absent
    BY <1>0, <1>1, <2>1, <2>4, ZenonT(60) DEF Labelling
  <2>5. CASE labels.enable = labels.wtEnable
    <3>1. Explicit(labels) = Explicit(l)
      BY <1>0, <2>1, <2>5 DEF Explicit, Or, Labelling
    <3>2. /\ Mode(labels, defaults) = Mode(l, defaults) /\ Hook(labels) = Hook(l)
          /\ Unreadable(labels) <=> Unreadable(l)
      BY <1>0, <2>1 DEF Mode, Hook, Timeout, Unreadable, Labelling
    <3>. HIDE DEF l
    <3>3. Of(labels) = Of(l)
      BY <3>1, <3>2, PolicyReads
    <3>. QED
      BY <1>1, <3>3 DEF l
  <2>. QED
    BY <2>2, <2>3, <2>4, <2>5
<1>2. CASE key = "mode"
  <2>. DEFINE l == Without("mode")
              m == Neither("mode")
  <2>1. l = [labels EXCEPT !.mode = Absent] /\ m = [l EXCEPT !.monitorOnly = Absent]
    BY <1>0 DEF Fallback
  <2>2. labels.mode = Absent \/ (labels.mode = "watch" /\ labels.monitorOnly = TRUE) \/ labels.monitorOnly # TRUE
    BY <1>2 DEF Notes, Fallback
  <2>3. /\ Explicit(labels) = Explicit(l) /\ Explicit(l) = Explicit(m)
        /\ Hook(labels) = Hook(l) /\ Hook(l) = Hook(m)
        /\ Timeout(labels) = Timeout(l) /\ Timeout(l) = Timeout(m)
    BY <1>0, <2>1 DEF Explicit, Hook, Timeout, Labelling
  <2>4. CASE labels.mode = Absent
    BY <1>0, <1>2, <2>1, <2>4, ZenonT(60) DEF Labelling
  <2>5. CASE labels.mode = "watch" /\ labels.monitorOnly = TRUE
    <3>1. Mode(labels, defaults) = Mode(l, defaults)
      BY <1>0, <2>1, <2>5, Distinct DEF Mode, Or, Labelling
    <3>2. Unreadable(labels) <=> Unreadable(l)
      BY <1>0, <2>1, <2>3, <2>5, Distinct DEF Unreadable, Labelling
    <3>. HIDE DEF l, m
    <3>3. Of(labels) = Of(l)
      BY <2>3, <3>1, <3>2, PolicyReads
    <3>. QED
      BY <1>2, <3>3 DEF l
  <2>6. CASE labels.monitorOnly = Junk
    <3>1. Unreadable(labels) /\ Unreadable(l)
      BY <1>0, <2>1, <2>6 DEF Unreadable, Labelling
    <3>. HIDE DEF l, m
    <3>2. Of(labels) = Of(l)
      BY <2>3, <3>1, PolicyReads
    <3>. QED
      BY <1>2, <3>2 DEF l
  <2>7. CASE labels.monitorOnly \notin {TRUE, Junk}
    <3>1. Mode(l, defaults) = Mode(m, defaults)
      BY <1>0, <2>1, <2>7, Distinct DEF Mode, Or, Labelling
    <3>2. Unreadable(l) <=> Unreadable(m)
      BY <1>0, <2>1, <2>3, <2>7, Distinct DEF Unreadable, Labelling
    <3>. HIDE DEF l, m
    <3>3. Of(l) = Of(m)
      BY <2>3, <3>1, <3>2, PolicyReads
    <3>. QED
      BY <1>2, <3>3 DEF l, m
  <2>. QED
    BY <2>2, <2>4, <2>5, <2>6, <2>7
<1>3. CASE key = "command"
  <2>. DEFINE l == Without("command")
              m == Neither("command")
  <2>1. l = [labels EXCEPT !.command = Absent] /\ m = [l EXCEPT !.wtCommand = Absent]
    BY <1>0 DEF Fallback
  <2>2. labels.command = Absent \/ labels.wtCommand = Absent \/ labels.command = labels.wtCommand
    BY <1>3 DEF Notes, Fallback
  <2>3. CASE labels.command = Absent
    BY <1>0, <1>3, <2>1, <2>3 DEF Labelling
  <2>4. CASE labels.wtCommand = Absent
    BY <1>0, <1>3, <2>1, <2>4 DEF Labelling
  <2>5. CASE labels.command = labels.wtCommand
    <3>1. /\ Explicit(labels) = Explicit(l) /\ Mode(labels, defaults) = Mode(l, defaults)
          /\ Timeout(labels) = Timeout(l)
      BY <1>0, <2>1 DEF Explicit, Mode, Timeout, Labelling
    <3>2. Or(labels.command, labels.wtCommand) = Or(l.command, l.wtCommand)
      BY <1>0, <2>1, <2>5 DEF Or, Labelling
    <3>3. Unreadable(labels) <=> Unreadable(l)
      BY <1>0, <2>1, <3>1 DEF Unreadable, Labelling
    <3>. HIDE DEF l
    <3>4. Hook(labels) = Hook(l)
      BY <3>1, <3>2 DEF Hook
    <3>5. Of(labels) = Of(l)
      BY <3>1, <3>3, <3>4, PolicyReads
    <3>. QED
      BY <1>3, <3>5 DEF l
  <2>. QED
    BY <2>2, <2>3, <2>4, <2>5
<1>4. CASE key = "timeout"
  <2>. DEFINE l == Without("timeout")
              m == Neither("timeout")
  <2>1. l = [labels EXCEPT !.timeout = Absent] /\ m = [l EXCEPT !.wtTimeout = Absent]
    BY <1>0 DEF Fallback
  <2>2. labels.timeout = Absent \/ labels.wtTimeout = Absent \/ labels.timeout = Seconds(labels.wtTimeout)
    BY <1>4 DEF Notes, Fallback, SameTimeout
  <2>3. CASE labels.timeout = Absent
    BY <1>0, <1>4, <2>1, <2>3 DEF Labelling
  <2>4. CASE labels.wtTimeout = Absent
    BY <1>0, <1>4, <2>1, <2>4, ZenonT(60) DEF Labelling
  <2>5. CASE labels.timeout = Seconds(labels.wtTimeout)
    <3>1. Explicit(labels) = Explicit(l) /\ Mode(labels, defaults) = Mode(l, defaults)
      BY <1>0, <2>1 DEF Explicit, Mode, Labelling
    <3>2. Timeout(labels) = Timeout(l)
      BY <1>0, <2>1, <2>5 DEF Timeout, Or, Labelling
    <3>3. Hook(labels) = Hook(l) /\ (Unreadable(labels) <=> Unreadable(l))
      BY <1>0, <2>1, <3>2 DEF Hook, Unreadable, Labelling
    <3>. HIDE DEF l
    <3>4. Of(labels) = Of(l)
      BY <3>1, <3>3, PolicyReads
    <3>. QED
      BY <1>4, <3>4 DEF l
  <2>. QED
    BY <2>2, <2>3, <2>4, <2>5
<1>. QED
  BY <1>1, <1>2, <1>3, <1>4 DEF Fallback

\* watchtower_diagnostics is complete: where a watchtower label would have decided the
\* policy, and the freshdock label in front of it decides otherwise, there is a note.
THEOREM NotesComplete == Spec => []OverridesNoted
<1>1. Init => TypeInv
  BY DEF Init, TypeInv
<1>2. TypeInv /\ [Next]_vars => TypeInv'
  BY TypeStep
<1>3. TypeInv => OverridesNoted
  BY NotedIfOverridden
<1>. QED
  BY <1>1, <1>2, <1>3, PTL DEF Spec

-----------------------------------------------------------------------------
(* The schedules: what the two loops of cron.rs compute.                   *)

\* A set of numbers has a least one.
LEMMA LeastNat ==
  ASSUME NEW T \in SUBSET Nat, T # {}
  PROVE  \E n \in T : \A m \in T : n <= m
<1>1. PICK n \in T : \A m \in T : ~(<<m, n>> \in OpToRel(<, Nat))
  BY NatLessThanWellFounded, WFMin
<1>2. ASSUME NEW m \in T, m < n PROVE FALSE
  BY <1>1, <1>2 DEF OpToRel
<1>3. n \in Nat /\ \A m \in T : m \in Nat /\ ~(m < n)
  BY <1>2
<1>. QED
  BY <1>3

\* The search of next_after finds the next minute that matches, unless it is beyond the horizon.
LEMMA SearchFinds ==
  ASSUME NEW s, NEW m \in Nat
  PROVE  LET found == {i \in m .. m + Horizon - 1 : MatchesAt(s, i)}
         IN  IF found = {} THEN Search(s, m) = Never
             ELSE Search(s, m) \in found /\ \A i \in found : Search(s, m) <= i
<1>. DEFINE D == m .. m + Horizon
            M(i) == MatchesAt(s, i)
            On(i) == {j \in i .. m + Horizon - 1 : M(j)}
            Least(i) == IF On(i) = {} THEN Never ELSE CHOOSE j \in On(i) : \A k \in On(i) : j <= k
            IsSearch(f) == f = [i \in D |-> IF i = m + Horizon THEN Never ELSE IF M(i) THEN i ELSE f[i + 1]]
            g == [i \in D |-> Least(i)]
<1>1. Horizon \in Nat /\ m \in D /\ D \subseteq Nat
  BY CronAssumption
<1>2. Search(s, m) = (CHOOSE f : IsSearch(f))[m]
  BY DEF Search
<1>. HIDE DEF M
<1>3. ASSUME NEW i \in D, On(i) # {}
      PROVE  Least(i) \in On(i) /\ \A k \in On(i) : Least(i) <= k
  <2>1. On(i) \in SUBSET Nat
    BY <1>1
  <2>. HIDE DEF On
  <2>2. \E j \in On(i) : \A k \in On(i) : j <= k
    BY <1>3, <2>1, LeastNat
  <2>. QED
    BY <1>3, <2>2
<1>4. ASSUME NEW i \in D
      PROVE  Least(i) = IF i = m + Horizon THEN Never ELSE IF M(i) THEN i ELSE Least(i + 1)
  <2>1. CASE i = m + Horizon
    BY <1>1, <2>1
  <2>2. CASE i # m + Horizon /\ M(i)
    <3>1. i \in On(i) /\ \A k \in On(i) : i <= k
      BY <1>1, <2>2
    <3>2. Least(i) \in On(i) /\ Least(i) <= i
      BY <1>3, <3>1
    <3>. HIDE DEF Least
    <3>3. Least(i) >= i /\ Least(i) \in Int /\ i \in Int
      BY <1>1, <3>1, <3>2
    <3>. QED
      BY <2>2, <3>2, <3>3
  <2>3. CASE i # m + Horizon /\ ~M(i)
    <3>1. On(i) = On(i + 1)
      <4>1. \A j \in i .. m + Horizon - 1 : j = i \/ j \in i + 1 .. m + Horizon - 1
        BY <1>1
      <4>. QED
        BY <1>1, <2>3, <4>1
    <3>. HIDE DEF On
    <3>2. Least(i) = Least(i + 1)
      BY <3>1
    <3>. QED
      BY <2>3, <3>2
  <2>. QED
    BY <2>1, <2>2, <2>3
<1>. HIDE DEF Least, On
<1>5. IsSearch(g)
  <2>1. \A i \in D : i # m + Horizon => i + 1 \in D
    BY <1>1
  <2>. QED
    BY <1>4, <2>1
<1>6. ASSUME NEW f, IsSearch(f), NEW i \in D PROVE f[i] = Least(i)
  <2>. DEFINE Wrong == {k \in 0 .. Horizon : f[m + Horizon - k] # Least(m + Horizon - k)}
  <2>1. \A j \in D : f[j] = IF j = m + Horizon THEN Never ELSE IF M(j) THEN j ELSE f[j + 1]
    BY <1>6
  <2>2. Wrong = {}
    <3>. SUFFICES ASSUME Wrong # {} PROVE FALSE
      OBVIOUS
    <3>1. PICK k \in Wrong : \A l \in Wrong : k <= l
      <4>1. Wrong \in SUBSET Nat
        BY <1>1
      <4>. HIDE DEF Wrong
      <4>. QED
        BY <4>1, LeastNat
    <3>. DEFINE j == m + Horizon - k
    <3>2. k \in 0 .. Horizon /\ j \in D /\ f[j] # Least(j)
      BY <1>1, <3>1
    <3>3. f[j] = IF j = m + Horizon THEN Never ELSE IF M(j) THEN j ELSE f[j + 1]
      BY <2>1, <3>2
    <3>4. j # m + Horizon /\ ~M(j) /\ f[j + 1] # Least(j + 1)
      BY <1>4, <3>2, <3>3
    <3>5. k - 1 \in 0 .. Horizon /\ j + 1 = m + Horizon - (k - 1) /\ ~(k <= k - 1)
      BY <1>1, <3>2, <3>4
    <3>6. k - 1 \in Wrong
      BY <3>4, <3>5
    <3>. QED
      BY <3>1, <3>5, <3>6
  <2>3. m + Horizon - i \in 0 .. Horizon /\ m + Horizon - (m + Horizon - i) = i
    BY <1>1
  <2>. QED
    BY <2>2, <2>3
<1>7. Search(s, m) = Least(m)
  <2>. HIDE DEF IsSearch, g
  <2>1. IsSearch(CHOOSE f : IsSearch(f))
    BY <1>5
  <2>. QED
    BY <1>1, <1>2, <1>6, <2>1
<1>8. On(m) = {} => Least(m) = Never
  BY DEF Least
<1>9. On(m) = {i \in m .. m + Horizon - 1 : MatchesAt(s, i)}
  BY DEF On, M
<1>. QED
  BY <1>1, <1>3, <1>7, <1>8, <1>9

\* The loop `i += step` collects the numbers of its range that are whole steps from its start,
\* as long as a step from within the range does not leave the word.
LEMMA WalkCollects ==
  ASSUME NEW start \in Nat, NEW end \in Nat, NEW step \in Nat \ {0},
         start < WordSize, end + step < WordSize
  PROVE  Walk(start, end, step) = {v \in start .. end : \E k \in 0 .. end : v = start + k * step}
<1>. DEFINE D == 0 .. WordSize - 1
            Reach(i) == {v \in i .. end : \E k \in 0 .. end : v = i + k * step}
            IsWalk(f) == f = [i \in D |-> IF i > end THEN {} ELSE {i} \cup f[(i + step) % WordSize]]
            g == [i \in D |-> Reach(i)]
<1>1. WordSize \in Nat /\ start \in D /\ D \subseteq Nat
  BY CronAssumption
<1>2. Walk(start, end, step) = (CHOOSE f : IsWalk(f))[start]
  BY DEF Walk
<1>3. \A i \in D : i <= end => (i + step) % WordSize = i + step /\ i + step \in D
  BY <1>1
<1>4. \A k \in Int : (k - 1) * step = k * step - step /\ (k + 1) * step = k * step + step
  OBVIOUS
<1>5. \A k \in Nat : k * step \in Nat /\ k * step >= k
  OBVIOUS
<1>6. ASSUME NEW i \in D
      PROVE  Reach(i) = IF i > end THEN {} ELSE {i} \cup Reach(i + step)
  <2>1. CASE i > end
    BY <1>1, <2>1
  <2>2. CASE i <= end
    <3>1. ASSUME NEW v \in Reach(i), v # i PROVE v \in Reach(i + step)
      <4>1. PICK k \in 0 .. end : v = i + k * step
        BY <3>1
      <4>2. k # 0
        <5>1. 0 * step = 0
          OBVIOUS
        <5>. QED
          BY <1>1, <3>1, <4>1, <5>1
      <4>3. k - 1 \in 0 .. end /\ v = (i + step) + (k - 1) * step /\ (k - 1) * step \in Nat
        BY <1>1, <1>4, <1>5, <4>1, <4>2
      <4>4. v \in i .. end
        OBVIOUS
      <4>5. v \in i + step .. end
        BY <1>1, <4>3, <4>4
      <4>. QED
        BY <4>3, <4>5
    <3>2. ASSUME NEW v \in Reach(i + step) PROVE v \in Reach(i)
      <4>1. PICK k \in 0 .. end : v = (i + step) + k * step
        OBVIOUS
      <4>2. v \in i + step .. end
        OBVIOUS
      <4>3. k + 1 \in Nat /\ v = i + (k + 1) * step /\ (k + 1) * step >= k + 1 /\ v \in i .. end
        BY <1>1, <1>4, <1>5, <4>1, <4>2
      <4>4. k + 1 \in 0 .. end
        BY <1>1, <4>3
      <4>. QED
        BY <4>3, <4>4
    <3>3. i \in Reach(i)
      <4>1. i = i + 0 * step /\ 0 \in 0 .. end /\ i \in i .. end
        BY <1>1, <2>2
      <4>. QED
        BY <4>1
    <3>. HIDE DEF Reach
    <3>. QED
      BY <1>1, <2>2, <3>1, <3>2, <3>3
  <2>3. i > end \/ i <= end
    BY <1>1
  <2>. HIDE DEF Reach
  <2>. QED
    BY <2>1, <2>2, <2>3
<1>. HIDE DEF Reach
<1>7. IsWalk(g)
  BY <1>3, <1>6, <1>1
<1>8. ASSUME NEW f, IsWalk(f) PROVE f[start] = Reach(start)
  <2>1. \A i \in D : f[i] = IF i > end THEN {} ELSE {i} \cup f[(i + step) % WordSize]
    BY <1>8
  <2>. HIDE DEF IsWalk
  <2>. DEFINE Wrong == {k \in 0 .. end : end - k \in D /\ f[end - k] # Reach(end - k)}
  <2>2. Wrong = {}
    <3>. SUFFICES ASSUME Wrong # {} PROVE FALSE
      OBVIOUS
    <3>1. PICK k \in Wrong : \A l \in Wrong : k <= l
      <4>1. Wrong \in SUBSET Nat
        OBVIOUS
      <4>. HIDE DEF Wrong
      <4>. QED
        BY <4>1, LeastNat
    <3>. DEFINE i == end - k
    <3>2. k \in 0 .. end /\ i \in D /\ i <= end /\ f[i] # Reach(i)
      BY <1>1, <3>1
    <3>3. i + step \in D /\ f[i + step] # Reach(i + step)
      BY <1>1, <1>3, <1>6, <2>1, <3>2
    <3>4. i + step <= end
      <4>1. i + step > end => f[i + step] = {} /\ Reach(i + step) = {}
        BY <1>6, <2>1, <3>3
      <4>2. ~(i + step > end)
        BY <3>3, <4>1
      <4>3. i \in Nat
        BY <1>1, <3>2
      <4>. QED
        BY <4>2, <4>3
    <3>5. k - step \in 0 .. end /\ end - (k - step) = i + step /\ ~(k <= k - step)
      BY <1>1, <3>2, <3>4
    <3>6. k - step \in Wrong
      BY <3>3, <3>5
    <3>. QED
      BY <3>1, <3>5, <3>6
  <2>3. CASE start > end
    BY <1>1, <1>6, <2>1, <2>3
  <2>4. CASE start <= end
    <3>1. end - start \in 0 .. end /\ end - (end - start) = start
      BY <1>1, <2>4
    <3>. QED
      BY <1>1, <2>2, <3>1
  <2>. QED
    BY <1>1, <2>3, <2>4
<1>9. Walk(start, end, step) = Reach(start)
  <2>. HIDE DEF IsWalk, g
  <2>1. IsWalk(CHOOSE f : IsWalk(f))
    BY <1>7
  <2>. QED
    BY <1>2, <1>8, <2>1
<1>. QED
  BY <1>9 DEF Reach

-----------------------------------------------------------------------------
(* The fields of an expression.                                            *)

\* The parts of a comma list, as they are written.
AnyPart ==
  {p \in [range : Seq(Nat \cup {Malformed}), step : Nat \cup {NoStep, Malformed}] : Len(p.range) <= 2}

\* What the calendar's assumption says of one field.
LEMMA FieldRange ==
  ASSUME NEW f \in FieldNames
  PROVE  /\ Low(f) \in {0, 1} /\ High(f) \in Nat /\ Low(f) < High(f) /\ High(f) < 64 /\ 64 < WordSize
         /\ WordSize \in Nat /\ Unit[f] = <<Low(f), High(f)>> /\ 0 \notin {Malformed, NoStep}
         /\ Malformed \notin Nat /\ NoStep \notin Nat /\ Low("dow") = 0 /\ Malformed # NoStep
BY CronAssumption DEF Low, High

\* A part's range is nothing, a value or two; its step is written out or is 1.
LEMMA PartShape ==
  ASSUME NEW part \in AnyPart
  PROVE  /\ part.range \in Seq(Nat \cup {Malformed}) /\ Len(part.range) \in 0 .. 2
         /\ Len(part.range) = 0 <=> part.range = <<>>
         /\ DOMAIN part.range = 1 .. Len(part.range)
         /\ \A i \in DOMAIN part.range : part.range[i] \in Nat \cup {Malformed}
<1>. DEFINE S == Nat \cup {Malformed}
<1>1. part.range \in Seq(S) /\ Len(part.range) <= 2
  BY DEF AnyPart
<1>. HIDE DEF S
<1>2. /\ Len(part.range) \in Nat /\ DOMAIN part.range = 1 .. Len(part.range)
      /\ \A i \in DOMAIN part.range : part.range[i] \in S
  BY <1>1
<1>3. Len(part.range) = 0 <=> part.range = <<>>
  BY <1>1, EmptySeq
<1>4. Len(part.range) \in 0 .. 2
  <2>. DEFINE n == Len(part.range)
  <2>1. n \in Nat /\ n <= 2
    BY <1>1, <1>2
  <2>. HIDE DEF n
  <2>2. n \in 0 .. 2
    BY <2>1
  <2>. QED
    BY <2>2 DEF n
<1>. QED
  BY <1>1, <1>2, <1>3, <1>4, Zenon DEF S

\* A part that is valid stands for some of the field's values, and the loop collects just them.
\* A part that FieldSet::parse accepts stands for the values that its loop walks over.
LEMMA ValidPart ==
  ASSUME NEW f \in FieldNames, NEW part \in AnyPart, PartValid(part, f), Step(part) < WordSize - High(f)
  PROVE  /\ Documented(part, f) # {} /\ Documented(part, f) \subseteq Low(f) .. High(f)
         /\ Walk(Bounds(part, f)[1], Bounds(part, f)[2], Step(part)) = Documented(part, f)
<1>. DEFINE r == part.range
            lo == Bounds(part, f)[1]
            hi == Bounds(part, f)[2]
<1>1. Step(part) \in Nat \ {0}
  BY FieldRange DEF AnyPart, PartValid, Step
<1>2. r \in Seq(Nat \cup {Malformed}) /\ Len(r) \in 0 .. 2 /\ (Len(r) = 0 <=> r = <<>>)
  BY PartShape
<1>3. \A i \in 1 .. Len(r) : r[i] \in Low(f) .. High(f)
  <2>1. \A i \in 1 .. Len(r) : r[i] \in Nat \cup {Malformed} /\ Number(r[i], f)
    BY <1>2 DEF PartValid
  <2>. QED
    BY <2>1, FieldRange DEF Number
<1>4. /\ lo = IF r = <<>> THEN Low(f) ELSE r[1]
      /\ hi = IF Len(r) = 2 THEN r[2]
              ELSE IF Len(r) = 1 /\ (part.step = NoStep \/ part.step = 1) THEN lo ELSE High(f)
  <2>1. part.step = NoStep \/ part.step = 1 <=> Step(part) = 1
    BY DEF Step
  <2>2. CASE Len(r) = 0
    BY <1>2, <2>2, FieldRange DEF Bounds
  <2>3. CASE Len(r) = 1
    BY <1>2, <2>1, <2>3 DEF Bounds
  <2>4. CASE Len(r) = 2
    BY <1>2, <2>4 DEF Bounds
  <2>. QED
    BY <1>2, <2>2, <2>3, <2>4
<1>5. lo \in Low(f) .. High(f) /\ hi \in Low(f) .. High(f) /\ lo <= hi
  <2>1. CASE Len(r) = 0
    BY <1>2, <1>4, <2>1, FieldRange
  <2>2. CASE Len(r) = 1
    BY <1>2, <1>3, <1>4, <2>2, FieldRange
  <2>3. CASE Len(r) = 2
    BY <1>2, <1>3, <1>4, <2>3, FieldRange DEF PartValid
  <2>. QED
    BY <1>2, <2>1, <2>2, <2>3
<1>. HIDE DEF lo, hi
<1>6. Documented(part, f) = {v \in lo .. hi : \E k \in 0 .. hi : v = lo + k * Step(part)}
  BY <1>4 DEF Documented
<1>7. Walk(lo, hi, Step(part)) = Documented(part, f)
  <2>1. lo \in Nat /\ hi \in Nat /\ lo < WordSize /\ hi + Step(part) < WordSize
    BY <1>1, <1>5, FieldRange
  <2>. QED
    BY <1>1, <1>6, <2>1, WalkCollects
<1>8. lo \in Documented(part, f)
  <2>1. 0 * Step(part) = 0
    BY <1>1
  <2>2. lo \in lo .. hi /\ 0 \in 0 .. hi /\ lo = lo + 0 * Step(part)
    BY <1>5, <2>1, FieldRange
  <2>. QED
    BY <1>6, <2>2
<1>9. Documented(part, f) \subseteq Low(f) .. High(f)
  BY <1>5, <1>6, FieldRange
<1>. QED
  BY <1>7, <1>8, <1>9 DEF lo, hi

\* What FieldReads calls broken: a part that stands for nothing, or for what is no value.
Broken(part, f) ==
  \/ Malformed \in {part.step} \cup {part.range[i] : i \in DOMAIN part.range}
  \/ part.step = 0
  \/ Documented(part, f) = {} \/ ~(Documented(part, f) \subseteq Low(f) .. High(f))
  \/ \E i \in DOMAIN part.range : part.range[i] > High(f)

\* A part that it refuses stands for nothing, or for what is no value of the field.
LEMMA InvalidPart ==
  ASSUME NEW f \in FieldNames, NEW part \in AnyPart, ~PartValid(part, f)
  PROVE  Broken(part, f)
<1>. DEFINE r == part.range
<1>1. r \in Seq(Nat \cup {Malformed}) /\ Len(r) \in 0 .. 2 /\ (Len(r) = 0 <=> r = <<>>)
      /\ DOMAIN r = 1 .. Len(r) /\ \A i \in DOMAIN r : r[i] \in Nat \cup {Malformed}
  BY PartShape
<1>2. CASE part.step = Malformed \/ \E i \in DOMAIN r : r[i] = Malformed
  BY <1>2 DEF Broken
<1>3. CASE part.step # Malformed /\ \A i \in DOMAIN r : r[i] \in Nat
  <2>1. CASE Step(part) = 0
    BY <2>1 DEF Step, Broken
  <2>2. CASE \E i \in DOMAIN r : r[i] > High(f)
    BY <2>2 DEF Broken
  <2>3. CASE /\ Step(part) # 0 /\ \A i \in DOMAIN r : r[i] <= High(f)
             /\ Len(r) = 2 /\ r[1] > r[2]
    <3>1. r[1] .. r[2] = {}
      BY <1>1, <1>3, <2>3
    <3>. QED
      BY <1>1, <2>3, <3>1 DEF Documented, Broken
  <2>4. CASE /\ Step(part) # 0 /\ \A i \in DOMAIN r : r[i] <= High(f)
             /\ (Len(r) = 2 => r[1] <= r[2]) /\ \E i \in DOMAIN r : r[i] < Low(f)
    <3>1. Len(r) # 0 /\ r[1] = 0 /\ Low(f) = 1
      BY <1>1, <1>3, <2>4, FieldRange
    <3>. DEFINE hi == IF Len(r) = 2 THEN r[2]
                      ELSE IF Len(r) = 1 /\ (part.step = NoStep \/ part.step = 1) THEN 0 ELSE High(f)
    <3>2. hi \in Nat /\ Step(part) \in Nat
      BY <1>1, <1>3, <3>1, FieldRange DEF AnyPart, Step
    <3>3. Documented(part, f) = {v \in 0 .. hi : \E k \in 0 .. hi : v = 0 + k * Step(part)}
      BY <1>1, <3>1 DEF Documented
    <3>. HIDE DEF hi
    <3>4. 0 * Step(part) = 0
      BY <3>2
    <3>5. 0 \in Documented(part, f)
      BY <3>2, <3>3, <3>4
    <3>6. 0 \notin Low(f) .. High(f)
      BY <3>1, FieldRange
    <3>. QED
      BY <3>5, <3>6 DEF Broken
  <2>5. (\A i \in DOMAIN r : Low(f) <= r[i] /\ r[i] <= High(f)) /\ Step(part) # 0
          => Len(r) = 2 /\ r[1] > r[2]
    <3>1. \A i \in DOMAIN r : Low(f) <= r[i] /\ r[i] <= High(f) => Number(r[i], f)
      BY <1>3, FieldRange DEF Number
    <3>. QED
      BY <1>1, <1>3, <3>1 DEF PartValid
  <2>. QED
    BY <1>1, <1>3, <2>1, <2>2, <2>3, <2>4, <2>5, FieldRange
<1>. QED
  BY <1>1, <1>2, <1>3

\* For every field, its range and its comma list, whatever the numbers in it: FieldSet::parse accepts
\* it if it means something, and reads what docs/scheduling.md says.
LEMMA FieldsReadRight ==
  ASSUME NEW f \in FieldNames, NEW field \in Seq(AnyPart)
  PROVE  FieldReads(field, f)
<1>. SUFFICES ASSUME \A i \in DOMAIN field : Step(field[i]) # Malformed => Step(field[i]) < WordSize - High(f)
              PROVE  IF FieldSet(field, f) = Malformed THEN \E i \in DOMAIN field : Broken(field[i], f)
                     ELSE /\ \A i \in DOMAIN field : ~Broken(field[i], f)
                          /\ FieldSet(field, f).mask = UNION {Documented(field[i], f) : i \in DOMAIN field}
  BY DEF FieldReads, Broken
<1>1. \A i \in DOMAIN field : field[i] \in AnyPart
  OBVIOUS
<1>2. CASE \E i \in DOMAIN field : ~PartValid(field[i], f)
  <2>1. FieldSet(field, f) = Malformed
    BY <1>2 DEF FieldSet
  <2>. QED
    BY <1>1, <1>2, <2>1, InvalidPart
<1>3. CASE \A i \in DOMAIN field : PartValid(field[i], f)
  <2>1. \A i \in DOMAIN field :
          /\ Documented(field[i], f) # {} /\ Documented(field[i], f) \subseteq Low(f) .. High(f)
          /\ Walk(Bounds(field[i], f)[1], Bounds(field[i], f)[2], Step(field[i])) = Documented(field[i], f)
    <3>1. \A i \in DOMAIN field : Step(field[i]) # Malformed
      BY <1>3, FieldRange DEF PartValid, Step
    <3>. QED
      BY <1>1, <1>3, <3>1, ValidPart
  <2>2. \A i \in DOMAIN field : ~Broken(field[i], f)
    <3>1. ASSUME NEW i \in DOMAIN field PROVE ~Broken(field[i], f)
      <4>1. /\ PartValid(field[i], f) /\ field[i] \in AnyPart
        BY <1>1, <1>3
      <4>2. \A j \in DOMAIN field[i].range : field[i].range[j] \in Nat \cup {Malformed}
        BY <4>1 DEF AnyPart
      <4>. QED
        BY <2>1, <4>1, <4>2, FieldRange DEF Broken, PartValid, Number, Step
    <3>. QED
      BY <3>1
  <2>. DEFINE mask == UNION {Walk(Bounds(field[i], f)[1], Bounds(field[i], f)[2], Step(field[i])) :
                               i \in DOMAIN field}
              star == field = << [range |-> <<>>, step |-> NoStep] >>
  <2>3. FieldSet(field, f) = [mask |-> mask, star |-> star]
    BY <1>3 DEF FieldSet
  <2>4. mask = UNION {Documented(field[i], f) : i \in DOMAIN field}
    BY <2>1
  <2>5. mask \in SUBSET Nat /\ star \in BOOLEAN
    <3>1. \A i \in DOMAIN field : Documented(field[i], f) \in SUBSET Nat
      BY <2>1, FieldRange
    <3>. QED
      BY <2>4, <3>1
  <2>. HIDE DEF mask, star
  <2>6. FieldSet(field, f) # Malformed
    <3>1. [mask |-> mask, star |-> star] \in [mask : SUBSET Nat, star : BOOLEAN]
      BY <2>5
    <3>. QED
      BY <2>3, <3>1, CronAssumption
  <2>. QED
    BY <2>2, <2>3, <2>4, <2>6
<1>. QED
  BY <1>2, <1>3

-----------------------------------------------------------------------------
(* The windows.                                                            *)

\* A day that is not restricted is any day.
StarsFull(s) == \A d \in {"dom", "dow"} : s[d].star => s[d].mask = Low(d) .. High(d)

\* So it is in every expression that is parsed.
LEMMA ParsedStars ==
  ASSUME NEW expr, Parsed(expr) # Malformed
  PROVE  StarsFull(Parsed(expr))
<1>. SUFFICES ASSUME NEW d \in {"dom", "dow"}, Parsed(expr)[d].star
              PROVE  Parsed(expr)[d].mask = Low(d) .. High(d)
  BY DEF StarsFull
<1>. DEFINE any == [range |-> <<>>, step |-> NoStep]
<1>1. Parsed(expr)[d] = FieldSet(expr[d], d) /\ FieldSet(expr[d], d) # Malformed /\ d \in FieldNames
  BY DEF Parsed, FieldNames
<1>2. expr[d] = <<any>>
  <2>. DEFINE mask == UNION {Walk(Bounds(expr[d][i], d)[1], Bounds(expr[d][i], d)[2], Step(expr[d][i])) :
                               i \in DOMAIN expr[d]}
              star == expr[d] = <<any>>
  <2>1. FieldSet(expr[d], d) = [mask |-> mask, star |-> star]
    BY <1>1 DEF FieldSet
  <2>. HIDE DEF mask, star
  <2>2. FieldSet(expr[d], d).star = star
    BY <2>1
  <2>. QED
    BY <1>1, <2>2 DEF star
<1>3. FieldSet(<<any>>, d).mask
        = UNION {Walk(Bounds(<<any>>[i], d)[1], Bounds(<<any>>[i], d)[2], Step(<<any>>[i])) : i \in DOMAIN <<any>>}
  BY <1>1, <1>2 DEF FieldSet
<1>4. DOMAIN <<any>> = {1} /\ <<any>>[1] = any
  OBVIOUS
<1>5. Bounds(any, d) = <<Low(d), High(d)>> /\ Step(any) = 1
  BY <1>1, FieldRange DEF Bounds, Step
<1>. HIDE DEF any
<1>6. FieldSet(<<any>>, d).mask = Walk(Low(d), High(d), 1)
  BY <1>3, <1>4, <1>5
<1>7. Walk(Low(d), High(d), 1) = {v \in Low(d) .. High(d) : \E k \in 0 .. High(d) : v = Low(d) + k * 1}
  <2>1. Low(d) \in Nat /\ High(d) \in Nat /\ 1 \in Nat \ {0} /\ Low(d) < WordSize /\ High(d) + 1 < WordSize
    BY <1>1, FieldRange
  <2>. QED
    BY <2>1, WalkCollects
<1>8. \A v \in Low(d) .. High(d) : v - Low(d) \in 0 .. High(d) /\ v = Low(d) + (v - Low(d)) * 1
  BY <1>1, FieldRange
<1>. QED
  BY <1>1, <1>2, <1>6, <1>7, <1>8

\* What division leaves.
LEMMA Remainder ==
  ASSUME NEW a \in Nat, NEW b \in Nat \ {0}
  PROVE  a % b \in 0 .. b - 1 /\ a \div b \in Nat
OBVIOUS

\* Every minute is on a day of the calendar.
LEMMA DaysOfCalendar ==
  ASSUME NEW m \in Nat
  PROVE  FieldsAt(m).dom \in Low("dom") .. High("dom") /\ FieldsAt(m).dow \in Low("dow") .. High("dow")
<1>. DEFINE hours == Local(m) \div Size("minute")
            days == hours \div Size("hour")
<1>1. \A f \in FieldNames : Size(f) \in Nat \ {0} /\ High(f) = Low(f) + Size(f) - 1 /\ Low(f) \in Nat
  BY FieldRange DEF Size
<1>2. {"minute", "hour", "dom", "dow"} \subseteq FieldNames
  BY DEF FieldNames
<1>3. Local(m) \in Nat
  BY CronAssumption DEF Local
<1>4. hours \in Nat
  BY <1>1, <1>2, <1>3, Remainder
<1>5. days \in Nat
  <2>. HIDE DEF hours
  <2>. QED
    BY <1>1, <1>2, <1>4, Remainder
<1>6. FieldsAt(m).dom = Low("dom") + (days % Size("dom")) /\ FieldsAt(m).dow = days % Size("dow")
  BY DEF FieldsAt
<1>. HIDE DEF days
<1>7. days % Size("dom") \in 0 .. Size("dom") - 1 /\ days % Size("dow") \in 0 .. Size("dow") - 1
  BY <1>1, <1>2, <1>5, Remainder
<1>8. Low("dow") = 0
  BY <1>2, FieldRange
<1>. QED
  BY <1>1, <1>2, <1>6, <1>7, <1>8

\* matches, with its rule for the two days, is what a window is.
LEMMA WindowsMatch ==
  ASSUME NEW s, s # Malformed => StarsFull(s), NEW m \in Nat
  PROVE  MatchesAt(s, m) <=> WindowAt(s, m)
<1>. DEFINE at == FieldsAt(m)
            restricted == {d \in {"dom", "dow"} : ~s[d].star}
<1>1. at["dom"] \in Low("dom") .. High("dom") /\ at["dow"] \in Low("dow") .. High("dow")
  BY DaysOfCalendar
<1>. HIDE DEF at
<1>2. ASSUME s # Malformed
      PROVE  DayMatches(s, at) <=> (restricted = {} \/ \E d \in restricted : at[d] \in s[d].mask)
  BY <1>1, <1>2 DEF DayMatches, StarsFull
<1>. HIDE DEF restricted
<1>. USE DEF at
<1>3. MatchesAt(s, m) <=> /\ s # Malformed
                          /\ at["minute"] \in s["minute"].mask /\ at["hour"] \in s["hour"].mask
                          /\ at["month"] \in s["month"].mask /\ DayMatches(s, at)
  BY DEF MatchesAt
<1>4. WindowAt(s, m) <=> /\ s # Malformed
                         /\ \A f \in {"minute", "hour", "month"} : at[f] \in s[f].mask
                         /\ restricted = {} \/ \E d \in restricted : at[d] \in s[d].mask
  BY DEF WindowAt, restricted
<1>. HIDE DEF at
<1>. QED
  BY <1>2, <1>3, <1>4

\* The next fire is after the minute that has begun and is a window, and none is before it.
LEMMA NextIsNext ==
  ASSUME NEW s, s # Malformed => StarsFull(s), NEW now \in Nat, NEW next, next = NextAfter(s, now)
  PROVE  /\ next # Never => next \in Nat /\ now < 2 * next /\ WindowAt(s, next)
         /\ \A m \in 0 .. LastMinute :
              ~Ambiguous(now \div 2) /\ now < 2 * m /\ WindowAt(s, m) => next # Never /\ next <= m
<1>. DEFINE from == now \div 2 + 1
            found == {i \in from .. from + Horizon - 1 : MatchesAt(s, i)}
<1>1. from \in Nat /\ Horizon \in Nat /\ LastMinute \in Nat /\ LastMinute <= Horizon /\ Never \notin Nat
  BY CronAssumption
<1>2. \A m \in Nat : now < 2 * m <=> from <= m
  OBVIOUS
<1>3. IF found = {} THEN Search(s, from) = Never
      ELSE Search(s, from) \in found /\ \A i \in found : Search(s, from) <= i
  BY <1>1, SearchFinds
<1>4. found \in SUBSET Nat /\ \A i \in found : from <= i /\ WindowAt(s, i)
  BY <1>1, WindowsMatch
<1>5. \A m \in 0 .. LastMinute : now < 2 * m /\ WindowAt(s, m) => m \in found /\ s # Malformed
  <2>1. ASSUME NEW m \in 0 .. LastMinute, now < 2 * m, WindowAt(s, m) PROVE m \in found /\ s # Malformed
    <3>1. m \in Nat /\ from <= m
      BY <1>1, <1>2, <2>1
    <3>2. m \in from .. from + Horizon - 1
      BY <1>1, <3>1
    <3>. QED
      BY <2>1, <3>1, <3>2, WindowsMatch DEF WindowAt
  <2>. QED
    BY <2>1
<1>6. next = IF s = Malformed \/ Ambiguous(now \div 2) THEN Never ELSE Search(s, from)
  BY DEF NextAfter
<1>. HIDE DEF from, found
<1>7. ASSUME next # Never
      PROVE  next \in Nat /\ now < 2 * next /\ WindowAt(s, next)
  <2>1. next \in found
    BY <1>3, <1>6, <1>7
  <2>. QED
    BY <1>2, <1>4, <2>1
<1>8. ASSUME NEW m \in 0 .. LastMinute, ~Ambiguous(now \div 2), now < 2 * m, WindowAt(s, m)
      PROVE  next # Never /\ next <= m
  <2>1. m \in found /\ s # Malformed
    BY <1>5, <1>8
  <2>2. next \in found /\ next <= m
    BY <1>3, <1>6, <1>8, <2>1
  <2>. QED
    BY <1>1, <1>4, <2>2
<1>. QED
  BY <1>7, <1>8

-----------------------------------------------------------------------------
(* The scheduler's clock.                                                  *)

\* Any container's schedule, from any moment on.
Scheduled ==
  /\ \E expr, now \in 0 .. 2 * LastMinute : Seed(expr, now)
  /\ [][CronNext]_cronVars

\* What is to fire next was computed at some moment before now, and is still to come.
ClockInv ==
  /\ clock \in 0 .. 2 * LastMinute /\ asked \in 0 .. clock
  /\ schedule # Malformed => StarsFull(schedule)
  /\ nextFire = NextAfter(schedule, asked)
  /\ nextFire # Never => clock < 2 * nextFire

\* A seed is due at the first window after it.
LEMMA ClockStarts == (\E expr, now \in 0 .. 2 * LastMinute : Seed(expr, now)) => ClockInv
<1>. SUFFICES ASSUME NEW expr, NEW now \in 0 .. 2 * LastMinute, Seed(expr, now) PROVE ClockInv
  OBVIOUS
<1>1. schedule = Parsed(expr) /\ clock = now /\ asked = now /\ nextFire = NextAfter(schedule, now)
  BY DEF Seed
<1>2. schedule # Malformed => StarsFull(schedule)
  BY <1>1, ParsedStars
<1>3. now \in Nat
  BY CronAssumption
<1>. QED
  BY <1>1, <1>2, <1>3, NextIsNext DEF ClockInv

\* A tick fires if and only if a window has opened since the one before.
LEMMA ClockStep ==
  ASSUME ClockInv, NEW gap \in 1 .. MaxGap, CronTick(gap)
  PROVE  /\ ClockInv'
         /\ ~Ambiguous(asked \div 2) =>
              (asked' # asked <=> \E m \in 0 .. LastMinute :
                                    clock < 2 * m /\ 2 * m <= clock' /\ WindowAt(schedule, m))
<1>1. /\ clock \in Nat /\ clock' \in Nat /\ clock < clock' /\ clock' <= 2 * LastMinute
      /\ asked \in Nat /\ asked <= clock /\ schedule' = schedule /\ LastMinute \in Nat /\ Never \notin Nat
  BY CronAssumption DEF ClockInv, CronTick
<1>2. schedule # Malformed => StarsFull(schedule)
  BY DEF ClockInv
<1>3. /\ nextFire # Never => nextFire \in Nat /\ clock < 2 * nextFire /\ WindowAt(schedule, nextFire)
      /\ \A m \in 0 .. LastMinute :
           ~Ambiguous(asked \div 2) /\ asked < 2 * m /\ WindowAt(schedule, m) => nextFire # Never /\ nextFire <= m
  BY <1>1, <1>2, NextIsNext DEF ClockInv
<1>4. CASE Due(clock')
  <2>1. nextFire' = NextAfter(schedule, clock') /\ asked' = clock'
    BY <1>4 DEF CronTick
  <2>2. nextFire' # Never => nextFire' \in Nat /\ clock' < 2 * nextFire'
    BY <1>1, <1>2, <2>1, NextIsNext
  <2>3. ClockInv'
    BY <1>1, <1>2, <2>1, <2>2 DEF ClockInv
  <2>4. nextFire # Never /\ 2 * nextFire <= clock' /\ nextFire \in 0 .. LastMinute
    BY <1>1, <1>3, <1>4 DEF Due
  <2>5. asked' # asked
    BY <1>1, <2>1
  <2>. QED
    BY <1>3, <2>3, <2>4, <2>5
<1>5. CASE ~Due(clock')
  <2>1. nextFire' = nextFire /\ asked' = asked
    BY <1>5 DEF CronTick
  <2>2. nextFire = Never \/ clock' < 2 * nextFire
    BY <1>1, <1>3, <1>5 DEF Due
  <2>3. ClockInv'
    BY <1>1, <1>2, <2>1, <2>2 DEF ClockInv
  <2>4. ASSUME NEW m \in 0 .. LastMinute, clock < 2 * m, 2 * m <= clock', WindowAt(schedule, m),
               ~Ambiguous(asked \div 2)
        PROVE  FALSE
    BY <1>1, <1>3, <2>2, <2>4
  <2>. QED
    BY <2>1, <2>3, <2>4
<1>. QED
  BY <1>4, <1>5

\* Whatever the expression, the calendar and the two changes of the clock, however long the ticks: a
\* schedule fires at the first tick after one of its windows has opened, once, and at no other
\* (next_after, and the check of next_fire in run_tick).
THEOREM WindowsFire == Scheduled => EveryWindow
<1>1. (\E expr, now \in 0 .. 2 * LastMinute : Seed(expr, now)) => ClockInv
  BY ClockStarts
<1>2. ClockInv /\ [CronNext]_cronVars => ClockInv'
  BY ClockStep DEF CronNext, cronVars, ClockInv
<1>3. ClockInv /\ [CronNext]_cronVars
        => [~Ambiguous(asked \div 2) /\ clock' # clock =>
              (asked' # asked <=> \E m \in 0 .. LastMinute :
                                     clock < 2 * m /\ 2 * m <= clock' /\ WindowAt(schedule, m))]_cronVars
  <2>1. ClockInv /\ CronNext
        => (~Ambiguous(asked \div 2) /\ clock' # clock =>
              (asked' # asked <=> \E m \in 0 .. LastMinute :
                                     clock < 2 * m /\ 2 * m <= clock' /\ WindowAt(schedule, m)))
    BY ClockStep DEF CronNext
  <2>. QED
    BY <2>1
<1>. QED
  BY <1>1, <1>2, <1>3, PTL DEF Scheduled, EveryWindow

-----------------------------------------------------------------------------
(* What is read once.                                                      *)

\* A behaviour is about one input, from its start on.
OneInput == input \in Inputs \/ input.of \in {"labels", "schedule"}

\* A behaviour begins with an input of the run, labels or a schedule.
LEMMA InputStarts == InputInit => OneInput
BY DEF InputInit, ReadLabels, ReadSchedule, ReadOther, OneInput

\* No step changes an input that is only read.
LEMMA InputStays == OneInput /\ [InputNext]_<<vars, cronVars, input>> => OneInput'
BY DEF OneInput, InputNext

\* Any list of parts, in any field of an expression: FieldSet::parse accepts it if it means something,
\* and reads what the documentation says, for steps that do not overflow.
THEOREM EveryField ==
  ASSUME input.of = "field" => input.value \in Seq(AnyPart) \X FieldNames
  PROVE  FieldsRead
BY FieldsReadRight DEF FieldsRead

\* The texts of the run are fields.
LEMMA TextsAreFields == Texts \X {"minute", "dom"} \subseteq Seq(AnyPart) \X FieldNames
<1>1. Parts \subseteq AnyPart
  <2>1. ASSUME NEW p \in Parts PROVE p \in AnyPart
    <3>. DEFINE S == Nat \cup {Malformed}
    <3>1. p = [range |-> p.range, step |-> p.step] /\ p.step \in Nat \cup {NoStep, Malformed}
      BY DEF Parts
    <3>2. \/ p.range = <<>>
          \/ \E v \in S : p.range = <<v>>
          \/ \E a, b \in S : p.range = <<a, b>>
      <4>1. \/ p.range = <<>>
            \/ \E v \in {0, 1, 3, 4, Malformed} : p.range = <<v>>
            \/ \E a \in {0, 1, 2, Malformed}, b \in {0, 1, 3, 4, Malformed} : p.range = <<a, b>>
        <5>1. p.range \in {<<>>} \cup {<<v>> : v \in {0, 1, 3, 4, Malformed}}
                          \cup {<<a, b>> : a \in {0, 1, 2, Malformed}, b \in {0, 1, 3, 4, Malformed}}
          BY DEF Parts
        <5>. QED
          BY <5>1
      <4>2. {0, 1, 2, 3, 4, Malformed} \subseteq S
        OBVIOUS
      <4>. QED
        BY <4>1, <4>2
    <3>3. p.range \in Seq(S) /\ Len(p.range) <= 2
      <4>1. CASE p.range = <<>>
        BY <4>1
      <4>2. ASSUME NEW v \in S, p.range = <<v>> PROVE p.range \in Seq(S) /\ Len(p.range) <= 2
        BY <4>2
      <4>3. ASSUME NEW a \in S, NEW b \in S, p.range = <<a, b>> PROVE p.range \in Seq(S) /\ Len(p.range) <= 2
        BY <4>3
      <4>. QED
        BY <3>2, <4>1, <4>2, <4>3
    <3>. HIDE DEF S
    <3>4. p \in [range : Seq(S), step : Nat \cup {NoStep, Malformed}]
      BY <3>1, <3>3
    <3>. QED
      BY <3>3, <3>4 DEF AnyPart, S
  <2>. QED
    BY <2>1
<1>2. At(1)[1] \in AnyPart /\ At(4)[1] \in AnyPart /\ Every(2)[1] \in AnyPart
  <2>. DEFINE S == Nat \cup {Malformed}
              T == Nat \cup {NoStep, Malformed}
  <2>1. \A v \in S : [range |-> <<v>>, step |-> NoStep] \in AnyPart
    <3>1. \A v \in S : <<v>> \in Seq(S) /\ Len(<<v>>) <= 2
      OBVIOUS
    <3>. HIDE DEF S
    <3>2. NoStep \in T
      OBVIOUS
    <3>. HIDE DEF T
    <3>3. AnyPart = {p \in [range : Seq(S), step : T] : Len(p.range) <= 2}
      BY DEF AnyPart, S, T
    <3>. QED
      BY <3>1, <3>2, <3>3
  <2>2. \A n \in T : [range |-> <<>>, step |-> n] \in AnyPart
    <3>1. <<>> \in Seq(S) /\ Len(<<>>) <= 2
      OBVIOUS
    <3>. HIDE DEF S, T
    <3>2. AnyPart = {p \in [range : Seq(S), step : T] : Len(p.range) <= 2}
      BY DEF AnyPart, S, T
    <3>. QED
      BY <3>1, <3>2
  <2>3. 1 \in S /\ 4 \in S /\ 2 \in T
    OBVIOUS
  <2>. QED
    BY <2>1, <2>2, <2>3 DEF At, Every
<1>3. \A p, q \in AnyPart : <<p>> \in Seq(AnyPart) /\ <<p, q>> \in Seq(AnyPart)
  OBVIOUS
<1>4. Texts \subseteq Seq(AnyPart)
  <2>. DEFINE Q == {At(1)[1], At(4)[1], Every(2)[1]}
  <2>1. Q \subseteq AnyPart
    BY <1>2
  <2>. HIDE DEF Q
  <2>2. {<<p>> : p \in Parts} \subseteq Seq(AnyPart) /\ {<<p, q>> : p \in Parts, q \in Q} \subseteq Seq(AnyPart)
    <3>1. \A p \in Parts : <<p>> \in Seq(AnyPart)
      BY <1>1, <1>3
    <3>2. \A p \in Parts, q \in Q : <<p, q>> \in Seq(AnyPart)
      BY <1>1, <1>3, <2>1
    <3>. DEFINE Z == Seq(AnyPart)
    <3>. HIDE DEF Z
    <3>3. {<<p>> : p \in Parts} \subseteq Z
      BY <3>1 DEF Z
    <3>4. {<<p, q>> : p \in Parts, q \in Q} \subseteq Z
      <4>. SUFFICES ASSUME NEW t \in {<<p, q>> : p \in Parts, q \in Q} PROVE t \in Z
        OBVIOUS
      <4>1. PICK p \in Parts, q \in Q : t = <<p, q>>
        OBVIOUS
      <4>2. <<p, q>> \in Z
        BY <3>2 DEF Z
      <4>. QED
        BY <4>1, <4>2
    <3>. QED
      BY <3>3, <3>4 DEF Z
  <2>3. Texts = {<<p>> : p \in Parts} \cup {<<p, q>> : p \in Parts, q \in Q}
    BY DEF Texts, Q
  <2>. QED
    BY <2>2, <2>3
<1>. QED
  BY <1>4 DEF FieldNames

\* So do the fields of the run, whatever the constants.
THEOREM FieldsReadAlways == InputSpec => []FieldsRead
<1>1. OneInput => FieldsRead
  <2>1. OneInput /\ input.of = "field" => input.value \in Texts \X {"minute", "dom"}
    BY DEF OneInput, Inputs
  <2>. QED
    BY <2>1, TextsAreFields, EveryField
<1>. QED
  BY <1>1, InputStarts, InputStays, PTL DEF InputSpec

-----------------------------------------------------------------------------
(* The configuration.                                                      *)

\* Any file and any environment, with values of V.
AnySettings(V) == [mode : V, cleanup : V, composeAware : V, oneShotTimeout : V]
AnyLoad(V) == [found : {"missing", "unreadable", "read"}, explicit : BOOLEAN,
               file : AnySettings(V), env : AnySettings(V)]

\* A variable of a setting that does not parse is as good as none.
LEMMA TyposIgnored ==
  ASSUME NEW V, NEW c \in AnyLoad(V)
  PROVE  TypoIgnored(c)
<1>. DEFINE file == IF c.found = "missing" THEN [s \in DOMAIN c.file |-> Unset] ELSE c.file
            without == [s \in DOMAIN c.env |-> IF c.env[s] = Bad THEN Unset ELSE c.env[s]]
            fails == \/ c.found = "unreadable" \/ (c.found = "missing" /\ c.explicit)
                     \/ c.found = "read" /\ Bad \in {c.file.cleanup, c.file.composeAware, c.file.oneShotTimeout}
            Names == {"mode", "cleanup", "composeAware", "oneShotTimeout"}
<1>1. DOMAIN c.env = Names
  BY DEF AnyLoad, AnySettings
<1>2. \A e : Load(c.found, c.explicit, c.file, e) = IF fails THEN Refused ELSE ResolvedSettings(file, e)
  BY DEF Load
<1>3. ResolvedSettings(file, c.env) = ResolvedSettings(file, without)
  <2>1. \A s \in Names : without[s] = IF c.env[s] = Bad THEN Unset ELSE c.env[s]
    BY <1>1
  <2>2. without.mode = without["mode"] /\ without.cleanup = without["cleanup"]
        /\ without.composeAware = without["composeAware"] /\ without.oneShotTimeout = without["oneShotTimeout"]
    OBVIOUS
  <2>. HIDE DEF without, file
  <2>. QED
    BY <2>1, <2>2, SettingsAssumption DEF ResolvedSettings, Layered
<1>4. \A s \in Names :
        /\ c.env[s] \notin {Unset, Bad} => ResolvedSettings(file, c.env)[s] = c.env[s]
        /\ ResolvedSettings(file, c.env)[s] # Bad
  <2>. HIDE DEF file
  <2>. DEFINE r == ResolvedSettings(file, c.env)
              Holds(s) == (c.env[s] \notin {Unset, Bad} => r[s] = c.env[s]) /\ r[s] # Bad
  <2>1. \A e, f, d : d # Bad => /\ e \notin {Unset, Bad} => Layered(e, f, d) = e
                               /\ Layered(e, f, d) # Bad
    BY DEF Layered
  <2>2. Unset # Bad /\ TRUE # Bad /\ FALSE # Bad /\ 600 # Bad
    <3>1. Bad \notin BOOLEAN
      BY SettingsAssumption
    <3>. QED
      BY <3>1, SettingsAssumption
  <2>3. Holds("mode")
    <3>1. r["mode"] = Layered(c.env["mode"], file.mode, Unset)
      BY DEF ResolvedSettings
    <3>. QED
      BY <2>1, <2>2, <3>1
  <2>4. Holds("cleanup")
    <3>1. \E d : d # Bad /\ r["cleanup"] = Layered(c.env["cleanup"], file.cleanup, d)
      <4>1. r["cleanup"] = Layered(c.env["cleanup"], file.cleanup, FALSE)
        BY DEF ResolvedSettings
      <4>. QED
        BY <4>1, <2>2
    <3>. QED
      BY <2>1, <3>1
  <2>5. Holds("composeAware")
    <3>1. \E d : d # Bad /\ r["composeAware"] = Layered(c.env["composeAware"], file.composeAware, d)
      <4>1. r["composeAware"] = Layered(c.env["composeAware"], file.composeAware, TRUE)
        BY DEF ResolvedSettings
      <4>. QED
        BY <4>1, <2>2
    <3>. QED
      BY <2>1, <3>1
  <2>6. Holds("oneShotTimeout")
    <3>1. r["oneShotTimeout"] = Layered(c.env["oneShotTimeout"], file.oneShotTimeout, 600)
      BY DEF ResolvedSettings
    <3>. QED
      BY <2>1, <2>2, <3>1
  <2>. HIDE DEF Holds
  <2>. QED
    BY <2>3, <2>4, <2>5, <2>6 DEF Holds
<1>. HIDE DEF file, fails, Names, without
<1>5. Load(c.found, c.explicit, c.file, c.env) = Load(c.found, c.explicit, c.file, without)
  BY <1>2, <1>3
<1>. QED
  BY <1>1, <1>2, <1>4, <1>5 DEF TypoIgnored, without

\* Any credentials of any registries, the environment's with parts missing.
AnyLogins(V) ==
  {c \in [file : UNION {[D -> [username : V, token : V]] : D \in SUBSET V},
          env : UNION {[D -> [username : V, token : V]] : D \in SUBSET V}] :
     \A k \in DOMAIN c.file : c.file[k].token # Unset}

\* A registry's login is the environment's, part by part, or else a single entry's of the file.
LEMMA CredentialsMerge ==
  ASSUME NEW V, Unset \in V, Refused \notin [username : V, token : V], NEW c \in AnyLogins(V)
  PROVE  CredentialsMeet(c)
<1>. DEFINE Pairs == [username : V, token : V]
<1>1. /\ \A k \in DOMAIN c.file : c.file[k] \in Pairs /\ c.file[k].token # Unset
      /\ \A k \in DOMAIN c.env : c.env[k] \in Pairs
  BY DEF AnyLogins
<1>. SUFFICES ASSUME NEW host, NEW found \in CredentialsOf(c.file, c.env, host)
     PROVE LET fromEnv(part) == {c.env[k][part] : k \in NamesFor(c.env, host)} \ {Unset}
               entries == {c.file[k] : k \in NamesFor(c.file, host)}
               tokens == fromEnv("token") \cup {e.token : e \in entries}
           IN IF tokens = {} THEN found = Refused
              ELSE /\ found # Refused
                   /\ fromEnv("token") # {} => found.token \in fromEnv("token")
                   /\ fromEnv("username") # {} => found.username \in fromEnv("username")
                   /\ entries # {} => \E e \in entries :
                        /\ fromEnv("token") = {} => found.token = e.token
                        /\ fromEnv("username") = {} => found.username = e.username
  BY DEF CredentialsMeet
<1>. DEFINE fromEnv(part) == {c.env[k][part] : k \in NamesFor(c.env, host)} \ {Unset}
            entries == {c.file[k] : k \in NamesFor(c.file, host)}
            tokens == fromEnv("token") \cup {e.token : e \in entries}
            one(part) == IF fromEnv(part) = {} THEN {Unset} ELSE fromEnv(part)
<1>2. EnvCredentials(c.env, host) = {[username |-> u, token |-> t] : u \in one("username"), t \in one("token")}
  BY DEF EnvCredentials
<1>3. \A part \in {"username", "token"} : Unset \notin fromEnv(part) /\ fromEnv(part) \subseteq V
  <2>1. \A k \in NamesFor(c.env, host) : c.env[k].username \in V /\ c.env[k].token \in V
    BY <1>1 DEF NamesFor
  <2>2. \A k \in NamesFor(c.env, host) : c.env[k].username = c.env[k]["username"] /\ c.env[k].token = c.env[k]["token"]
    OBVIOUS
  <2>. QED
    BY <2>1, <2>2
<1>4. entries \subseteq Pairs /\ \A e \in entries : e.token # Unset
  BY <1>1 DEF NamesFor
<1>5. NamesFor(c.file, host) = {} <=> entries = {}
  OBVIOUS
<1>. HIDE DEF fromEnv
<1>6. \A e \in EnvCredentials(c.env, host) :
        /\ e \in Pairs
        /\ IF fromEnv("token") = {} THEN e.token = Unset ELSE e.token \in fromEnv("token")
        /\ IF fromEnv("username") = {} THEN e.username = Unset ELSE e.username \in fromEnv("username")
  <2>1. ASSUME NEW u \in one("username"), NEW t \in one("token"), NEW e, e = [username |-> u, token |-> t]
        PROVE  /\ e \in Pairs
               /\ IF fromEnv("token") = {} THEN e.token = Unset ELSE e.token \in fromEnv("token")
               /\ IF fromEnv("username") = {} THEN e.username = Unset ELSE e.username \in fromEnv("username")
    <3>1. u \in V /\ t \in V
      BY <1>3
    <3>. QED
      BY <2>1, <3>1
  <2>. QED
    BY <1>2, <2>1
<1>7. CASE entries # {}
  <2>1. \E k \in NamesFor(c.file, host), e \in EnvCredentials(c.env, host) :
          found = [username |-> IF e.username # Unset THEN e.username ELSE c.file[k].username,
                   token |-> IF e.token # Unset THEN e.token ELSE c.file[k].token]
    BY <1>5, <1>7 DEF CredentialsOf
  <2>2. PICK entry \in entries, e \in EnvCredentials(c.env, host) :
          found = [username |-> IF e.username # Unset THEN e.username ELSE entry.username,
                   token |-> IF e.token # Unset THEN e.token ELSE entry.token]
    BY <2>1
  <2>3. /\ found.username = IF e.username # Unset THEN e.username ELSE entry.username
        /\ found.token = IF e.token # Unset THEN e.token ELSE entry.token
    BY <2>2
  <2>4. entry.username \in V /\ entry.token \in V /\ e.username \in V /\ e.token \in V
    BY <1>4, <1>6
  <2>5. found \in Pairs
    BY <2>2, <2>4
  <2>6. tokens # {}
    BY <1>7
  <2>. HIDE DEF entries, tokens, Pairs
  <2>7. found # Refused
    BY <2>5 DEF Pairs
  <2>8. /\ fromEnv("token") # {} => found.token \in fromEnv("token")
        /\ fromEnv("username") # {} => found.username \in fromEnv("username")
        /\ fromEnv("token") = {} => found.token = entry.token
        /\ fromEnv("username") = {} => found.username = entry.username
    BY <1>3, <1>6, <2>3
  <2>. QED
    BY <2>6, <2>7, <2>8 DEF tokens, entries, fromEnv
<1>8. CASE entries = {}
  <2>1. \E e \in EnvCredentials(c.env, host) : found = IF e.token # Unset THEN e ELSE Refused
    BY <1>5, <1>8 DEF CredentialsOf
  <2>2. tokens = {} <=> fromEnv("token") = {}
    BY <1>8
  <2>3. Refused \notin Pairs
    OBVIOUS
  <2>. HIDE DEF entries, tokens, Pairs
  <2>. QED
    BY <1>3, <1>6, <1>8, <2>1, <2>2, <2>3 DEF tokens, entries, fromEnv
<1>. QED
  BY <1>7, <1>8

\* Any targets in the file, and any variables of the environment, each given once.  That the secrets
\* differ, and from what the file has, says where each has gone.
Secrets == {"BOT_TOKEN", "PASSWORD"}
AnyName(V) == [base : V, case : {"lower", "upper"}, sep : {"none", "dash", "underscore"}]
AnyTargets(V) ==
  {c \in [file : UNION {[D -> [origin : {"file"}, kind : V, secret : {"declared"}, triggers : V]] :
                          D \in SUBSET AnyName(V)},
          env : SUBSET [name : AnyName(V), tail : {"URL", "TRIGGERS"} \cup Secrets, value : V \ {Unset}]] :
     /\ IsFiniteSet(DOMAIN c.file) /\ IsFiniteSet(c.env)
     /\ \A v, w \in c.env : v.name = w.name /\ v.tail = w.tail => v = w
     /\ \A v, w \in c.env : {v.tail, w.tail} \subseteq Secrets /\ v.value = w.value => v = w
     /\ \A v \in c.env : v.tail \in Secrets => v.value # "declared"}

\* The values that a function takes on a finite set are finitely many.
LEMMA FiniteImage ==
  ASSUME NEW S, IsFiniteSet(S), NEW f, DOMAIN f = S, f = [x \in S |-> f[x]]
  PROVE  IsFiniteSet({f[x] : x \in S})
<1>. DEFINE T == {f[x] : x \in S}
<1>1. f \in Surjection(S, T)
  BY DEF Surjection
<1>. HIDE DEF T
<1>2. IsFiniteSet(T)
  BY <1>1, FS_Surjection
<1>. QED
  BY <1>2 DEF T

\* What a variable gives is its one value, and nothing if it is not there.
LEMMA GivenOnce ==
  ASSUME NEW V, NEW c \in AnyTargets(V), NEW name, NEW tail
  PROVE  /\ Given(c.env, name, tail) # Unset
              => \E v \in c.env : v.name = name /\ v.tail = tail /\ v.value = Given(c.env, name, tail)
         /\ \A v \in c.env : v.name = name /\ v.tail = tail
              => v.value = Given(c.env, name, tail) /\ v.value # Unset
         /\ Given(c.env, name, tail) \in V \cup {Unset}
<1>. DEFINE set == {v \in c.env : v.name = name /\ v.tail = tail}
<1>1. \A v, w \in set : v = w
  BY DEF AnyTargets
<1>2. Given(c.env, name, tail) = IF set = {} THEN Unset ELSE (CHOOSE v \in set : TRUE).value
  BY DEF Given
<1>3. \A v \in c.env : v.value \in V \ {Unset}
  BY DEF AnyTargets
<1>4. set \subseteq c.env
  OBVIOUS
<1>5. \A v \in set : (CHOOSE w \in set : TRUE) = v
  BY <1>1
<1>6. \A v \in c.env : v.name = name /\ v.tail = tail <=> v \in set
  OBVIOUS
<1>. HIDE DEF set
<1>7. CASE set = {}
  BY <1>2, <1>6, <1>7
<1>8. CASE set # {}
  <2>1. PICK v \in set : TRUE
    BY <1>8
  <2>2. Given(c.env, name, tail) = v.value /\ \A w \in set : w = v
    BY <1>1, <1>2, <1>5, <1>8, <2>1
  <2>. QED
    BY <1>3, <1>4, <1>6, <2>1, <2>2
<1>. QED
  BY <1>7, <1>8

\* A name that the environment stands for is the lower case of none of the file's.
LEMMA NamesOfFile ==
  ASSUME NEW V, NEW n \in AnyName(V), NEW w \in AnyName(V), w = EnvName(w), n = Lowered(w)
  PROVE  EnvName(n) = w
<1>1. n = [base |-> w.base, case |-> "lower", sep |-> w.sep]
  BY DEF AnyName, Lowered
<1>2. w.case = "upper" /\ w.sep # "dash"
  <2>1. EnvName(w).case = "upper"
    BY DEF EnvName, AnyName
  <2>2. EnvName(w).sep # "dash"
    BY DEF EnvName, AnyName
  <2>. QED
    BY <2>1, <2>2
<1>3. n.base = w.base /\ n.sep = w.sep
  BY <1>1
<1>4. EnvName(n) \in AnyName(V)
  BY DEF EnvName, AnyName
<1>5. EnvName(n).base = n.base /\ EnvName(n).case = "upper" /\ EnvName(n).sep = IF n.sep = "dash" THEN "underscore" ELSE n.sep
  BY DEF EnvName, AnyName
<1>6. \A a, b \in AnyName(V) : a.base = b.base /\ a.case = b.case /\ a.sep = b.sep => a = b
  BY DEF AnyName
<1>. QED
  BY <1>2, <1>3, <1>4, <1>5, <1>6

\* The targets that declare_env_targets makes: the file's, and those of variables with new names.
LEMMA TargetsDeclared ==
  ASSUME NEW V, NEW c \in AnyTargets(V), NEW t \in Declared(c.file, c.env)
  PROVE  /\ DOMAIN c.file \subseteq DOMAIN t /\ DOMAIN t \subseteq AnyName(V) /\ IsFiniteSet(DOMAIN t)
         /\ \A k \in DOMAIN t : t[k] \in [origin : {"file", "env"}, kind : V \cup {Unset}, secret : {"declared"},
                                          triggers : V \cup {Unset}]
         /\ (\A v \in c.env : v.name = EnvName(v.name)) => \A n \in DOMAIN c.file : t[n] = c.file[n]
         /\ \A v \in c.env :
              v.tail = "URL" /\ v.value # Bad /\ v.name = EnvName(v.name)
              /\ v.name \notin {EnvName(n) : n \in DOMAIN c.file} => Lowered(v.name) \in DOMAIN t
<1>. DEFINE wanted == {n \in {v.name : v \in c.env} \ FileNames(c.file) :
                         Given(c.env, n, "URL") \notin {Unset, Bad}}
            target(n) == [origin |-> "env", kind |-> Given(c.env, n, "URL"), secret |-> "declared",
                          triggers |-> Given(c.env, n, "TRIGGERS")]
            from(W, k) == CHOOSE w \in W : Lowered(w) = k
            Lower(W) == {Lowered(w) : w \in W}
            Made(W) == [k \in DOMAIN c.file \cup Lower(W) |->
                          IF k \in Lower(W) THEN target(from(W, k)) ELSE c.file[k]]
            Wins(W) == W \subseteq wanted /\ \A n \in wanted : Cardinality({w \in W : Lowered(w) = Lowered(n)}) = 1
<1>1. PICK W : Wins(W) /\ t = Made(W)
  <2>1. \E W \in {W \in SUBSET wanted :
                    \A n \in wanted : Cardinality({w \in W : Lowered(w) = Lowered(n)}) = 1} : t = Made(W)
    BY DEF Declared
  <2>. QED
    BY <2>1
<1>2. wanted \subseteq {v.name : v \in c.env} /\ \A v \in c.env : v.name \in AnyName(V)
  BY DEF AnyTargets
<1>3. W \subseteq AnyName(V)
  BY <1>1, <1>2
<1>4. \A k \in DOMAIN c.file : /\ k \in AnyName(V)
        /\ c.file[k] \in [origin : {"file"}, kind : V, secret : {"declared"}, triggers : V]
  BY DEF AnyTargets
<1>5. \A w \in AnyName(V) : Lowered(w) \in AnyName(V)
  BY DEF AnyName, Lowered
<1>6. IsFiniteSet(DOMAIN c.file) /\ IsFiniteSet(Lower(W))
  <2>. DEFINE N == {v.name : v \in c.env}
  <2>1. IsFiniteSet(DOMAIN c.file) /\ IsFiniteSet(c.env)
    BY DEF AnyTargets
  <2>2. IsFiniteSet(N)
    <3>. DEFINE f == [v \in c.env |-> v.name]
    <3>1. IsFiniteSet({f[v] : v \in c.env})
      <4>1. DOMAIN f = c.env /\ f = [v \in c.env |-> f[v]]
        OBVIOUS
      <4>. HIDE DEF f
      <4>. QED
        BY <2>1, <4>1, FiniteImage
    <3>2. {f[v] : v \in c.env} = N
      OBVIOUS
    <3>. QED
      BY <3>1, <3>2
  <2>3. W \in SUBSET N
    BY <1>1, <1>2
  <2>. HIDE DEF N
  <2>4. IsFiniteSet(W)
    BY <2>2, <2>3, FS_Subset
  <2>5. IsFiniteSet({Lowered(w) : w \in W})
    <3>. DEFINE f == [w \in W |-> Lowered(w)]
    <3>1. IsFiniteSet({f[w] : w \in W})
      <4>1. DOMAIN f = W /\ f = [w \in W |-> f[w]]
        OBVIOUS
      <4>. HIDE DEF f
      <4>. QED
        BY <2>4, <4>1, FiniteImage
    <3>2. {f[w] : w \in W} = {Lowered(w) : w \in W}
      OBVIOUS
    <3>. QED
      BY <3>1, <3>2
  <2>. QED
    BY <2>1, <2>5
<1>7. \A n : target(n) \in [origin : {"file", "env"}, kind : V \cup {Unset}, secret : {"declared"},
                            triggers : V \cup {Unset}]
  BY GivenOnce
<1>8. DOMAIN t = DOMAIN c.file \cup Lower(W)
  BY <1>1
<1>9. \A k \in DOMAIN t : t[k] = IF k \in Lower(W) THEN target(from(W, k)) ELSE c.file[k]
  BY <1>1
<1>10. Lower(W) \subseteq AnyName(V)
  BY <1>3, <1>5
<1>11. \A k \in DOMAIN t : t[k] \in [origin : {"file", "env"}, kind : V \cup {Unset}, secret : {"declared"},
                                     triggers : V \cup {Unset}]
  <2>. HIDE DEF target, Lower, from
  <2>. QED
    BY <1>4, <1>7, <1>8, <1>9
<1>12. IsFiniteSet(DOMAIN t)
  <2>. HIDE DEF Lower
  <2>. QED
    BY <1>6, <1>8, FS_Union
<1>13. ASSUME \A v \in c.env : v.name = EnvName(v.name), NEW n \in DOMAIN c.file
       PROVE  t[n] = c.file[n]
  <2>1. ASSUME NEW w \in W, n = Lowered(w) PROVE FALSE
    <3>1. w = EnvName(w) /\ w \in AnyName(V) /\ w \notin FileNames(c.file)
      BY <1>1, <1>2, <1>3, <1>13
    <3>2. EnvName(n) = w
      BY <1>4, <2>1, <3>1, NamesOfFile
    <3>. QED
      BY <3>1, <3>2 DEF FileNames
  <2>2. n \notin Lower(W)
    BY <2>1
  <2>. QED
    BY <1>8, <1>9, <2>2
<1>14. ASSUME NEW v \in c.env, v.tail = "URL", v.value # Bad, v.name \notin {EnvName(n) : n \in DOMAIN c.file}
       PROVE  Lowered(v.name) \in DOMAIN t
  <2>1. Given(c.env, v.name, "URL") = v.value /\ v.value # Unset
    BY <1>14, GivenOnce
  <2>2. v.name \in wanted
    BY <1>14, <2>1 DEF FileNames
  <2>. DEFINE S == {w \in W : Lowered(w) = Lowered(v.name)}
  <2>3. Cardinality(S) = 1
    BY <1>1, <2>2
  <2>. HIDE DEF S
  <2>4. S # {}
    BY <2>3, FS_EmptySet
  <2>. QED
    BY <1>8, <2>4 DEF S
<1>. QED
  BY <1>4, <1>8, <1>10, <1>11, <1>12, <1>13, <1>14

\* The overlay changes the secret of a target only, to that of the target's name and kind, and of all
\* the targets that share a name in the environment for one.
LEMMA SecretsOverlaid ==
  ASSUME NEW V, NEW c \in AnyTargets(V), NEW t \in Declared(c.file, c.env), NEW targets \in Overlaid(t, c.env)
  PROVE  /\ DOMAIN targets = DOMAIN t
         /\ \A k \in DOMAIN t : /\ [targets[k] EXCEPT !.secret = "declared"] = t[k]
                                /\ targets[k].kind = t[k].kind
         /\ \A k \in DOMAIN t : targets[k].secret = "declared"
              \/ (targets[k].secret = Given(c.env, EnvName(k), SecretTail(t[k].kind)) /\ targets[k].secret # Unset)
         /\ \A k, l \in DOMAIN t :
              EnvName(k) = EnvName(l) /\ targets[k].secret # "declared" /\ targets[l].secret # "declared" => k = l
         /\ \A k \in DOMAIN t :
              (\A l \in DOMAIN t : EnvName(l) = EnvName(k) => l = k)
              /\ Given(c.env, EnvName(k), SecretTail(t[k].kind)) # Unset
                => targets[k].secret = Given(c.env, EnvName(k), SecretTail(t[k].kind))
<1>. DEFINE secret(k) == Given(c.env, EnvName(k), SecretTail(t[k].kind))
            Same(I, k) == {i \in I : EnvName(i) = EnvName(k)}
            T == [origin : {"file", "env"}, kind : V \cup {Unset}, secret : {"declared"}, triggers : V \cup {Unset}]
            Over(I) == [k \in DOMAIN t |-> IF k \in I /\ secret(k) # Unset
                                           THEN [t[k] EXCEPT !.secret = secret(k)] ELSE t[k]]
            Indexed(I) == I \subseteq DOMAIN t /\ \A k \in DOMAIN t : Cardinality(Same(I, k)) = 1
<1>1. PICK I : Indexed(I) /\ targets = Over(I)
  <2>1. \E I \in {I \in SUBSET DOMAIN t :
                    \A k \in DOMAIN t : Cardinality({i \in I : EnvName(i) = EnvName(k)}) = 1} : targets = Over(I)
    BY DEF Overlaid
  <2>. QED
    BY <2>1
<1>2. IsFiniteSet(DOMAIN t) /\ \A k \in DOMAIN t : t[k] \in T
  BY TargetsDeclared
<1>3. ASSUME NEW k \in DOMAIN t PROVE \E i : Same(I, k) = {i}
  <2>1. IsFiniteSet(I)
    BY <1>1, <1>2, FS_Subset
  <2>2. Same(I, k) \in SUBSET I /\ Cardinality(Same(I, k)) = 1
    BY <1>1
  <2>. HIDE DEF Same
  <2>3. IsFiniteSet(Same(I, k))
    BY <2>1, <2>2, FS_Subset
  <2>. QED
    BY <2>2, <2>3, FS_Singleton
<1>. HIDE DEF secret
<1>4. DOMAIN targets = DOMAIN t /\ \A k \in DOMAIN t :
        targets[k] = IF k \in I /\ secret(k) # Unset THEN [t[k] EXCEPT !.secret = secret(k)] ELSE t[k]
  BY <1>1
<1>5. \A r \in T : \A s : /\ [[r EXCEPT !.secret = s] EXCEPT !.secret = "declared"] = r
                      /\ [r EXCEPT !.secret = "declared"] = r /\ r.secret = "declared"
                      /\ [r EXCEPT !.secret = s].kind = r.kind /\ [r EXCEPT !.secret = s].secret = s
  OBVIOUS
<1>. HIDE DEF T, Indexed, Over, Same
<1>6. ASSUME NEW k \in DOMAIN t
      PROVE  /\ [targets[k] EXCEPT !.secret = "declared"] = t[k] /\ targets[k].kind = t[k].kind
             /\ targets[k].secret = IF k \in I /\ secret(k) # Unset THEN secret(k) ELSE "declared"
  <2>1. CASE k \in I /\ secret(k) # Unset
    <3>. DEFINE s == secret(k)
    <3>1. targets[k] = [t[k] EXCEPT !.secret = s] /\ t[k] \in T
      BY <1>2, <1>4, <2>1
    <3>. HIDE DEF s
    <3>2. /\ [[t[k] EXCEPT !.secret = s] EXCEPT !.secret = "declared"] = t[k]
          /\ [t[k] EXCEPT !.secret = s].kind = t[k].kind /\ [t[k] EXCEPT !.secret = s].secret = s
      BY <1>5, <3>1
    <3>3. [targets[k] EXCEPT !.secret = "declared"] = t[k] /\ targets[k].kind = t[k].kind /\ targets[k].secret = s
      BY <3>1, <3>2, Zenon
    <3>. QED
      BY <2>1, <3>3 DEF s
  <2>2. CASE ~(k \in I /\ secret(k) # Unset)
    BY <1>2, <1>4, <1>5, <2>2
  <2>. QED
    BY <2>1, <2>2
<1>7. \A k, l \in DOMAIN t : EnvName(k) = EnvName(l) /\ k \in I /\ l \in I => k = l
  BY <1>3 DEF Same
<1>8. \A k \in DOMAIN t : (\A l \in DOMAIN t : EnvName(l) = EnvName(k) => l = k) => k \in I
  <2>1. I \subseteq DOMAIN t
    BY <1>1 DEF Indexed
  <2>. QED
    BY <1>3, <2>1 DEF Same
<1>9. \A k \in DOMAIN t : targets[k].secret = "declared" \/ (targets[k].secret = secret(k) /\ secret(k) # Unset)
  BY <1>6
<1>10. \A k \in DOMAIN t : targets[k].secret # "declared" => k \in I
  BY <1>6
<1>11. \A k \in DOMAIN t : k \in I /\ secret(k) # Unset => targets[k].secret = secret(k)
  BY <1>6
<1>. QED
  BY <1>4, <1>6, <1>7, <1>8, <1>9, <1>10, <1>11 DEF secret

\* A target of the file keeps all but its secret.
LEMMA TargetsStay ==
  ASSUME NEW V, NEW c \in AnyTargets(V)
  PROVE  FileTargetsStay(c)
<1>. SUFFICES ASSUME \A v \in c.env : v.name = EnvName(v.name), NEW targets \in Notifications(c.file, c.env),
                     NEW n \in DOMAIN c.file
              PROVE  [targets[n] EXCEPT !.secret = "declared"] = c.file[n]
  BY DEF FileTargetsStay
<1>1. PICK t \in Declared(c.file, c.env) : targets \in Overlaid(t, c.env)
  BY DEF Notifications
<1>2. n \in DOMAIN t /\ t[n] = c.file[n]
  BY TargetsDeclared
<1>. QED
  BY <1>1, <1>2, SecretsOverlaid

\* A secret reaches the one target that its name and kind stand for.
LEMMA SecretsArrive ==
  ASSUME NEW V, NEW c \in AnyTargets(V)
  PROVE  SecretsReach(c)
<1>. SUFFICES ASSUME NEW targets \in Notifications(c.file, c.env)
     PROVE /\ \A v \in {v \in c.env : v.tail \in {"BOT_TOKEN", "PASSWORD"}} :
                LET meant == {n \in DOMAIN targets : EnvName(n) = v.name /\ SecretTail(targets[n].kind) = v.tail}
                    reached == {n \in DOMAIN targets : targets[n].secret = v.value}
                IN /\ reached \subseteq meant /\ Cardinality(reached) <= 1
                   /\ Cardinality({n \in DOMAIN targets : EnvName(n) = v.name}) = 1 => reached = meant
           /\ \A v \in {v \in c.env : v.tail = "URL" /\ v.value # Bad} :
                v.name = EnvName(v.name) /\ v.name \notin {EnvName(n) : n \in DOMAIN c.file} =>
                  \E n \in DOMAIN targets : EnvName(n) = v.name
  BY DEF SecretsReach
<1>1. PICK t \in Declared(c.file, c.env) : targets \in Overlaid(t, c.env)
  BY DEF Notifications
<1>2. DOMAIN targets = DOMAIN t /\ IsFiniteSet(DOMAIN t) /\ DOMAIN t \subseteq AnyName(V)
  BY <1>1, TargetsDeclared, SecretsOverlaid
<1>3. ASSUME NEW v \in c.env, v.tail \in Secrets
      PROVE  LET meant == {n \in DOMAIN targets : EnvName(n) = v.name /\ SecretTail(targets[n].kind) = v.tail}
                 reached == {n \in DOMAIN targets : targets[n].secret = v.value}
             IN /\ reached \subseteq meant /\ Cardinality(reached) <= 1
                /\ Cardinality({n \in DOMAIN targets : EnvName(n) = v.name}) = 1 => reached = meant
  <2>. DEFINE meant == {n \in DOMAIN targets : EnvName(n) = v.name /\ SecretTail(targets[n].kind) = v.tail}
              reached == {n \in DOMAIN targets : targets[n].secret = v.value}
              named == {n \in DOMAIN targets : EnvName(n) = v.name}
  <2>1. v.value # "declared" /\ v.value # Unset
    BY <1>3 DEF AnyTargets
  <2>2. ASSUME NEW n \in reached PROVE n \in meant
    <3>1. /\ targets[n].secret = v.value /\ n \in DOMAIN t
          /\ targets[n].secret = Given(c.env, EnvName(n), SecretTail(t[n].kind)) /\ targets[n].kind = t[n].kind
      BY <1>1, <1>2, <2>1, SecretsOverlaid
    <3>2. PICK w \in c.env : w.name = EnvName(n) /\ w.tail = SecretTail(t[n].kind) /\ w.value = v.value
      BY <2>1, <3>1, GivenOnce
    <3>3. w.tail \in Secrets
      <4>1. w.tail \in Secrets \cup {"URL", "TRIGGERS"}
        BY DEF AnyTargets
      <4>2. SecretTail(t[n].kind) \in Secrets \cup {Unset}
        BY DEF SecretTail, Secrets
      <4>3. Unset \notin Secrets \cup {"URL", "TRIGGERS"}
        BY SettingsAssumption DEF Secrets
      <4>. QED
        BY <3>2, <4>1, <4>2, <4>3
    <3>4. w = v
      BY <1>3, <3>2, <3>3 DEF AnyTargets
    <3>. QED
      BY <1>2, <3>1, <3>2, <3>4
  <2>3. \A m, n \in reached : m = n
    <3>1. \A n \in reached : n \in DOMAIN t /\ EnvName(n) = v.name /\ targets[n].secret # "declared"
      BY <1>2, <2>1, <2>2
    <3>. HIDE DEF reached
    <3>. QED
      BY <1>1, <3>1, SecretsOverlaid
  <2>4. Cardinality(reached) <= 1
    <3>. HIDE DEF reached
    <3>1. CASE reached = {}
      <4>1. Cardinality(reached) = 0
        BY <3>1, FS_EmptySet
      <4>. QED
        BY <4>1
    <3>2. CASE reached # {}
      <4>1. PICK n \in reached : TRUE
        BY <3>2
      <4>2. reached = {n}
        BY <2>3, <4>1
      <4>3. Cardinality({n}) = 1
        BY FS_Singleton
      <4>. QED
        BY <4>2, <4>3
    <3>. QED
      BY <3>1, <3>2
  <2>5. ASSUME Cardinality(named) = 1, NEW n \in meant PROVE n \in reached
    <3>1. PICK x : named = {x}
      <4>1. named \in SUBSET DOMAIN t
        BY <1>2
      <4>. HIDE DEF named
      <4>2. IsFiniteSet(named)
        BY <1>2, <4>1, FS_Subset
      <4>. QED
        BY <2>5, <4>2, FS_Singleton
    <3>2. \A l \in DOMAIN t : EnvName(l) = EnvName(n) => l = n
      BY <1>2, <3>1
    <3>3. n \in DOMAIN t /\ EnvName(n) = v.name /\ SecretTail(t[n].kind) = v.tail
      BY <1>1, <1>2, SecretsOverlaid
    <3>4. Given(c.env, EnvName(n), SecretTail(t[n].kind)) = v.value
      BY <3>3, GivenOnce
    <3>5. targets[n].secret = v.value
      BY <1>1, <2>1, <3>2, <3>3, <3>4, SecretsOverlaid
    <3>. QED
      BY <1>2, <3>3, <3>5
  <2>. QED
    BY <2>2, <2>4, <2>5
<1>4. ASSUME NEW v \in c.env, v.tail = "URL", v.value # Bad, v.name = EnvName(v.name),
             v.name \notin {EnvName(n) : n \in DOMAIN c.file}
      PROVE  \E n \in DOMAIN targets : EnvName(n) = v.name
  <2>1. Lowered(v.name) \in DOMAIN t
    BY <1>4, TargetsDeclared
  <2>2. v.name \in AnyName(V) /\ Lowered(v.name) \in AnyName(V)
    BY <1>2, <2>1 DEF AnyTargets
  <2>3. EnvName(Lowered(v.name)) = v.name
    BY <1>4, <2>2, NamesOfFile
  <2>. QED
    BY <1>2, <2>1, <2>3
<1>. QED
  BY <1>3, <1>4 DEF Secrets

\* Any mail target, be its table or URL complete or not.
TlsModes == {"starttls", "implicit", "none"}
AnyMail(V) ==
  [tls : {Unset, Bad} \cup TlsModes, starttls : {Unset, Bad} \cup BOOLEAN, port : V,
   username : V, password : V, addressed : BOOLEAN]

\* What security the mail goes with, whichever of the two keys asks for it.
LEMMA TlsAsAsked ==
  ASSUME NEW tls \in {Unset} \cup TlsModes, NEW starttls \in {Unset} \cup BOOLEAN
  PROVE  /\ SmtpTls(tls, starttls) \in {Refused} \cup TlsModes
         /\ SmtpTls(tls, starttls) # Refused =>
              /\ SmtpTls(tls, starttls) = "none" <=> tls = "none"
              /\ starttls = FALSE => SmtpTls(tls, starttls) # "starttls"
         /\ tls = "implicit" /\ starttls = FALSE => SmtpTls(tls, starttls) = "implicit"
<1>1. Unset \notin TlsModes /\ Refused \notin TlsModes
  BY SettingsAssumption DEF TlsModes
<1>2. CASE tls = Unset
  BY <1>1, <1>2 DEF SmtpTls, TlsModes
<1>3. CASE tls # Unset /\ starttls = Unset
  <2>1. SmtpTls(tls, starttls) = tls
    BY <1>3 DEF SmtpTls
  <2>2. starttls # FALSE
    BY <1>3, SettingsAssumption
  <2>. QED
    BY <1>3, <2>1, <2>2
<1>4. CASE tls # Unset /\ starttls # Unset
  <2>1. SmtpTls(tls, starttls) = IF <<tls, starttls>> \in {<<"starttls", TRUE>>, <<"implicit", FALSE>>} THEN tls ELSE Refused
    BY <1>4 DEF SmtpTls
  <2>. QED
    BY <1>4, <2>1, <1>1 DEF TlsModes
<1>. QED
  BY <1>2, <1>3, <1>4

\* A mail target is refused or goes out as asked, from a table and a URL alike.
LEMMA MailGoesAsAsked ==
  ASSUME NEW V, Unset \in V, NEW t \in AnyMail(V),
         Refused \notin [tls : TlsModes, port : V \cup Nat, login : V \X V]
  PROVE  MailAsAsked(t)
<1>. DEFINE login == <<t.username, t.password>>
            refused == ~t.addressed \/ (t.username = Unset) # (t.password = Unset)
            port(tls) == IF t.port = Unset THEN DefaultPort[tls] ELSE t.port
            made(tls) == IF refused THEN Refused ELSE [tls |-> tls, port |-> port(tls), login |-> login]
            tls0 == SmtpTls(t.tls, t.starttls)
            tls1 == SmtpTls(t.tls, IF t.starttls = Bad THEN Unset ELSE t.starttls)
            fromFile == IF Bad \in {t.tls, t.starttls} THEN Refused ELSE FromTable(t)
            fromUrl == FromUrl(t, Unset)
            later == FromUrl([t EXCEPT !.password = Unset], t.password)
<1>1. fromFile = IF Bad \in {t.tls, t.starttls} \/ tls0 = Refused THEN Refused ELSE made(tls0)
  BY DEF FromTable, Notifier
<1>2. ASSUME NEW r, NEW tls \in TlsModes, r \in AnyMail(V), r.tls = tls, r.starttls = Unset,
             r.port = t.port, r.username = t.username, r.password = t.password, r.addressed = t.addressed
      PROVE  FromTable(r) = made(tls)
  <2>1. SmtpTls(r.tls, r.starttls) = tls /\ tls # Refused
    <3>1. Unset \notin TlsModes /\ Refused \notin TlsModes
      BY SettingsAssumption DEF TlsModes
    <3>. QED
      BY <1>2, <3>1 DEF SmtpTls
  <2>. QED
    BY <1>2, <2>1 DEF FromTable, Notifier
<1>3. ASSUME NEW u \in AnyMail(V), NEW password, t.password = IF password = Unset THEN u.password ELSE password,
             u.tls = t.tls, u.starttls = t.starttls, u.port = t.port, u.username = t.username,
             u.addressed = t.addressed
      PROVE  FromUrl(u, password) = IF t.tls = Bad \/ tls1 = Refused THEN Refused ELSE made(tls1)
  <2>1. CASE t.tls = Bad \/ tls1 = Refused
    BY <1>3, <2>1 DEF FromUrl
  <2>2. CASE t.tls # Bad /\ tls1 # Refused
    <3>. DEFINE r == [u EXCEPT !.tls = tls1, !.starttls = Unset,
                               !.password = IF password = Unset THEN @ ELSE password]
    <3>1. FromUrl(u, password) = FromTable(r)
      BY <1>3, <2>2 DEF FromUrl
    <3>2. tls1 \in TlsModes
      BY <2>2, TlsAsAsked, SettingsAssumption DEF AnyMail
    <3>3. /\ r \in AnyMail(V) /\ r.tls = tls1 /\ r.starttls = Unset /\ r.port = t.port
          /\ r.username = t.username /\ r.password = t.password /\ r.addressed = t.addressed
      <4>. HIDE DEF tls1
      <4>. QED
        BY <1>3, <3>2 DEF AnyMail
    <3>. HIDE DEF r, tls1, made
    <3>. QED
      BY <1>2, <2>2, <3>1, <3>2, <3>3
  <2>. QED
    BY <2>1, <2>2
<1>4. fromUrl = IF t.tls = Bad \/ tls1 = Refused THEN Refused ELSE made(tls1)
  BY <1>3
<1>5. later = fromUrl
  <2>. DEFINE u == [t EXCEPT !.password = Unset]
  <2>1. /\ u.tls = t.tls /\ u.starttls = t.starttls /\ u.port = t.port /\ u.username = t.username
        /\ u.addressed = t.addressed /\ u.password = Unset /\ u \in AnyMail(V)
    BY DEF AnyMail
  <2>. HIDE DEF u, tls1, made
  <2>2. FromUrl(u, t.password) = IF t.tls = Bad \/ tls1 = Refused THEN Refused ELSE made(tls1)
    BY <1>3, <2>1
  <2>. QED
    BY <1>4, <2>2 DEF u
<1>6. ASSUME NEW tls \in TlsModes, NEW target, target = made(tls), target # Refused,
             tls = "none" <=> t.tls = "none", t.starttls = FALSE => tls # "starttls"
      PROVE  /\ target.tls = "none" <=> t.tls = "none"
             /\ t.starttls = FALSE => target.tls # "starttls"
             /\ target.port \in {t.port, DefaultPort[target.tls]}
             /\ t.port # Unset => target.port = t.port
             /\ target.login = <<t.username, t.password>>
  <2>. HIDE DEF port, login
  <2>1. target.tls = tls /\ target.port = port(tls) /\ target.login = login
    BY <1>6
  <2>2. port(tls) \in {t.port, DefaultPort[tls]} /\ (t.port # Unset => port(tls) = t.port)
    BY DEF port
  <2>. QED
    BY <1>6, <2>1, <2>2 DEF login
<1>7. ASSUME NEW starttls \in {Unset} \cup BOOLEAN, t.tls # Bad, NEW tls, tls = SmtpTls(t.tls, starttls),
             tls # Refused, t.starttls = FALSE => starttls = FALSE
      PROVE  tls \in TlsModes /\ (tls = "none" <=> t.tls = "none") /\ (t.starttls = FALSE => tls # "starttls")
  <2>1. t.tls \in {Unset} \cup TlsModes
    BY <1>7 DEF AnyMail
  <2>. QED
    BY <1>7, <2>1, TlsAsAsked
<1>8. t.starttls \in {Unset, Bad} \cup BOOLEAN /\ Unset \notin BOOLEAN /\ Bad \notin BOOLEAN
  BY SettingsAssumption DEF AnyMail
<1>9. fromUrl # Refused => /\ fromUrl = made(tls1) /\ tls1 \in TlsModes /\ (tls1 = "none" <=> t.tls = "none")
                           /\ (t.starttls = FALSE => tls1 # "starttls")
  <2>. DEFINE starttls == IF t.starttls = Bad THEN Unset ELSE t.starttls
  <2>1. starttls \in {Unset} \cup BOOLEAN /\ (t.starttls = FALSE => starttls = FALSE)
    BY <1>8
  <2>2. tls1 = SmtpTls(t.tls, starttls)
    OBVIOUS
  <2>. HIDE DEF starttls, made, fromUrl, tls1
  <2>. QED
    BY <1>4, <1>7, <2>1, <2>2
<1>10. fromFile # Refused => /\ fromFile = made(tls0) /\ tls0 \in TlsModes /\ (tls0 = "none" <=> t.tls = "none")
                             /\ (t.starttls = FALSE => tls0 # "starttls")
  <2>. HIDE DEF made, fromFile
  <2>. QED
    BY <1>1, <1>7, <1>8
<1>11. Bad \notin {t.tls, t.starttls} => fromFile = fromUrl
  <2>1. t.starttls # Bad => tls0 = tls1
    OBVIOUS
  <2>. HIDE DEF made, fromFile, fromUrl, tls0, tls1
  <2>. QED
    BY <1>1, <1>4, <2>1
<1>12. t.tls = "implicit" /\ t.starttls = FALSE /\ t.addressed /\ Unset \notin {t.username, t.password}
         => fromFile # Refused
  <2>. SUFFICES ASSUME t.tls = "implicit", t.starttls = FALSE, t.addressed, t.username # Unset, t.password # Unset
                PROVE  fromFile # Refused
    OBVIOUS
  <2>1. tls0 = "implicit" /\ "implicit" \in TlsModes /\ Bad # "implicit" /\ Refused # "implicit" /\ Bad # FALSE
    BY TlsAsAsked, SettingsAssumption DEF TlsModes
  <2>2. fromFile = made("implicit")
    <3>. HIDE DEF made, fromFile, tls0
    <3>. QED
      BY <1>1, <2>1
  <2>3. ~refused /\ made("implicit") = [tls |-> "implicit", port |-> port("implicit"), login |-> login]
    OBVIOUS
  <2>4. port("implicit") \in V \cup Nat /\ login \in V \X V
    BY DEF AnyMail, DefaultPort
  <2>. HIDE DEF port, login
  <2>. QED
    BY <2>1, <2>2, <2>3, <2>4
<1>. HIDE DEF fromFile, fromUrl, later, made, tls0, tls1
<1>. QED
  <2>1. MailAsAsked(t) <=>
     /\ \A target \in {fromFile, fromUrl, later} \ {Refused} :
          /\ target.tls = "none" <=> t.tls = "none"
          /\ t.starttls = FALSE => target.tls # "starttls"
          /\ target.port \in {t.port, DefaultPort[target.tls]}
          /\ t.port # Unset => target.port = t.port
          /\ target.login = <<t.username, t.password>>
     /\ Bad \notin {t.tls, t.starttls} => fromFile = fromUrl
     /\ fromUrl = later
     /\ t.tls = "implicit" /\ t.starttls = FALSE /\ t.addressed /\ Unset \notin {t.username, t.password}
          => fromFile # Refused
    BY DEF MailAsAsked, fromFile, fromUrl, later
  <2>. QED
    BY <1>5, <1>6, <1>9, <1>10, <1>11, <1>12, <2>1

\* Any input that is a configuration.
AnyConfiguration(V) ==
  /\ input.of = "load" => input.value \in AnyLoad(V)
  /\ input.of = "login" => input.value \in AnyLogins(V)
  /\ input.of = "targets" => input.value \in AnyTargets(V)
  /\ input.of = "mail" => input.value \in AnyMail(V)

\* Whatever the file and the environment say: a typo in the environment is harmless; credentials meet
\* under all names of a registry and never mix; the file's targets stay, and secrets reach the targets
\* that their names stand for, and no other; mail goes out the way it was asked for (Config::load,
\* build_store, build_notifications, resolve_smtp_tls).
THEOREM EveryConfiguration ==
  ASSUME NEW V, Unset \in V, AnyConfiguration(V), Refused \notin [username : V, token : V],
         Refused \notin [tls : TlsModes, port : V \cup Nat, login : V \X V]
  PROVE  ConfigurationKept
BY TyposIgnored, CredentialsMerge, TargetsStay, SecretsArrive, MailGoesAsAsked
   DEF AnyConfiguration, ConfigurationKept

-----------------------------------------------------------------------------
(* The table of `check`.                                                   *)

\* Any answers of the daemon and the registry about the images I, none of which is the sign for no answer.
AnyWorld(I, V) ==
  [pinned : [I -> BOOLEAN], fetched : [I -> V \ {Unknown}],
   tag : [I -> {FailedCall} \cup [id : V \cup {Unknown}, digests : Seq(V)]]]

\* Any containers, of the images I.
AnyContainer(I, V) ==
  [policy : {"invalid", "auto", "enabled"}, own : BOOLEAN, bareId : BOOLEAN,
   image : I, inspected : I \cup {FailedCall}, running : V \cup {Unknown}]
AnyCheck(I, V) == {x \in [containers : Seq(AnyContainer(I, V)), world : AnyWorld(I, V)] : FailedCall \notin I \cup V}

\* One row by itself.
LEMMA RowHolds ==
  ASSUME NEW I, NEW V, FailedCall \notin I \cup V, NEW world \in AnyWorld(I, V), NEW image \in I, NEW running
  PROVE  LET cells == Cells(ProbeImage(image, world), running)
             tag == world.tag[image]
             lookedUp == ~world.pinned[image] /\ world.fetched[image] \notin Unfetched
             known == tag # FailedCall /\ tag.digests # <<>>
             upToDate == ~BehindTag(running, tag.id) /\ Contains(tag.digests, world.fetched[image])
         IN /\ cells[3] = "?" <=> (lookedUp /\ ~known)
            /\ cells[3] = "no" <=> (lookedUp /\ known /\ upToDate)
            /\ cells[3] = "yes" <=> (lookedUp /\ known /\ ~upToDate)
            /\ cells[3] = "no" <=> cells[1] = cells[2]
            /\ cells[3] = "?" => cells[1] = Unknown
            /\ cells[2] = IF world.pinned[image] THEN "pinned" ELSE world.fetched[image]
<1>. DEFINE cells == Cells(ProbeImage(image, world), running)
            tag == world.tag[image]
            latest == world.fetched[image]
            local == LocalImage(image, world)
            known == tag # FailedCall /\ tag.digests # <<>>
            upToDate == ~BehindTag(running, tag.id) /\ Contains(tag.digests, latest)
<1>1. /\ latest \in V /\ latest # Unknown /\ world.pinned[image] \in BOOLEAN
      /\ tag = FailedCall \/ tag \in [id : V \cup {Unknown}, digests : Seq(V)]
  BY DEF AnyWorld
<1>2. CASE world.pinned[image] \/ latest \in Unfetched
  <2>1. cells = <<IF world.pinned[image] THEN "its own" ELSE Unknown,
                  IF world.pinned[image] THEN "pinned" ELSE latest, Unknown>>
    BY <1>2, CheckAssumption DEF ProbeImage, Cells, Unfetched
  <2>2. Unknown \notin {"no", "yes", "?"} /\ latest # Unknown
    BY <1>1, CheckAssumption
  <2>. HIDE DEF cells, latest
  <2>3. /\ cells[1] = IF world.pinned[image] THEN "its own" ELSE Unknown
        /\ cells[2] = IF world.pinned[image] THEN "pinned" ELSE latest
        /\ cells[3] = Unknown
    BY <2>1
  <2>4. cells[1] # cells[2]
    BY <2>2, <2>3
  <2>. HIDE DEF known, upToDate
  <2>. QED
    BY <1>2, <2>2, <2>3, <2>4 DEF cells, latest, known, upToDate
<1>3. CASE ~world.pinned[image] /\ latest \notin Unfetched
  <2>. DEFINE digests == local.digests
              id == local.id
              behind == BehindTag(running, id)
  <2>1. cells = <<IF behind THEN Unknown ELSE CurrentFor(digests, latest), latest,
                  Verdict(digests, latest, running, id)>>
    <3>1. ProbeImage(image, world) = [kind |-> "fetched", latest |-> latest, local |-> digests, tagged |-> id]
      BY <1>3 DEF ProbeImage
    <3>. HIDE DEF latest, digests, id
    <3>. QED
      BY <3>1 DEF Cells
  <2>2. /\ digests \in Seq(V)
        /\ digests # <<>> <=> known
        /\ known => digests = tag.digests /\ id = tag.id
    BY <1>1 DEF LocalImage
  <2>3. \A i \in DOMAIN digests : i \in 1 .. Len(digests)
    BY <2>2
  <2>4. Contains(digests, latest) <=> \E i \in 1 .. Len(digests) : digests[i] = latest
    BY DEF Contains
  <2>. HIDE DEF digests, id, latest, cells, tag, local
  <2>5. digests = <<>> => ~Contains(digests, latest)
    BY <2>4
  <2>6. digests # <<>> /\ digests[1] = latest => Contains(digests, latest)
    BY <2>2, <2>4
  <2>7. Verdict(digests, latest, running, id) = IF digests = <<>> THEN "?"
                                                ELSE IF behind \/ ~Contains(digests, latest) THEN "yes" ELSE "no"
    BY DEF Verdict
  <2>8. CurrentFor(digests, latest) = IF Contains(digests, latest) THEN latest
                                      ELSE IF digests = <<>> THEN Unknown ELSE digests[1]
    BY DEF CurrentFor
  <2>9. latest # Unknown
    BY <1>1
  <2>10. known => (upToDate <=> (~behind /\ Contains(digests, latest)))
    BY <2>2
  <2>. HIDE DEF behind, upToDate, known
  <2>11. /\ cells[1] = IF behind THEN Unknown ELSE CurrentFor(digests, latest)
         /\ cells[2] = latest /\ cells[3] = Verdict(digests, latest, running, id)
    BY <2>1
  <2>. QED
    BY <1>3, <2>2, <2>5, <2>6, <2>7, <2>8, <2>9, <2>10, <2>11 DEF cells, tag, latest, upToDate, known
<1>. QED
  BY <1>2, <1>3

\* Whatever the containers, the daemon's answers and the registry's: "?" stands exactly where nothing
\* is known of a tag that was looked up, "no" and "yes" exactly beside containers of known tags that
\* are and are not up to date, "no" exactly where the current digest is the latest one (collect_cells,
\* probe_image, update_available_for, current_for).
THEOREM EveryTable ==
  ASSUME NEW I, NEW V, input.of = "check" => input.value \in AnyCheck(I, V)
  PROVE  TableConsistent
<1>. SUFFICES ASSUME NEW x \in AnyCheck(I, V) PROVE RowsHold(x.containers, x.world)
  BY DEF TableConsistent
<1>. DEFINE table == Table(x.containers, x.world)
            world == x.world
            At0(i) == x.containers[i]
<1>1. world \in AnyWorld(I, V) /\ FailedCall \notin I \cup V
  BY DEF AnyCheck
<1>2. \A i \in DOMAIN table : table[i] = Row(At0(i), world) /\ i \in DOMAIN x.containers
  BY DEF Table
<1>3. \A i \in DOMAIN x.containers : At0(i) \in AnyContainer(I, V)
  <2>1. x.containers \in Seq(AnyContainer(I, V))
    BY DEF AnyCheck
  <2>. HIDE DEF AnyContainer
  <2>. QED
    BY <2>1
<1>. HIDE DEF table, world, At0
<1>4. ASSUME NEW i \in DOMAIN table
      PROVE  LET c == table[i].container
                 cells == table[i].cells
                 image == Target(c).image
             IN /\ VerdictIsSo(c, cells[3], world)
                /\ cells[3] = "no" <=> cells[1] = cells[2]
                /\ cells[3] = "?" => cells[1] = Unknown
                /\ Target(c) # FailedCall
                     => cells[2] = IF world.pinned[image] THEN "pinned" ELSE world.fetched[image]
  <2>. DEFINE c == At0(i)
  <2>1. CASE Target(c) = FailedCall
    <3>1. table[i].container = c /\ table[i].cells = <<Unknown, "error", Unknown>>
      BY <1>2, <2>1 DEF Row
    <3>. HIDE DEF c
    <3>2. Unknown \notin {"error", "no", "yes", "?"}
      BY CheckAssumption DEF Unfetched
    <3>. QED
      BY <2>1, <3>1, <3>2 DEF VerdictIsSo, LookedUp
  <2>2. CASE Target(c) # FailedCall
    <3>1. table[i].container = c
          /\ table[i].cells = Cells(ProbeImage(Target(c).image, world), Target(c).running)
      BY <1>2, <2>2 DEF Row
    <3>2. Target(c).image \in I /\ Target(c).running = c.running
      BY <1>2, <1>3, <2>2 DEF Target, ContainerImage, AnyContainer
    <3>. HIDE DEF c
    <3>. QED
      BY <1>1, <2>2, <3>1, <3>2, RowHolds DEF VerdictIsSo, LookedUp, TagKnown, UpToDate
  <2>. QED
    BY <2>1, <2>2
<1>. QED
  BY <1>4 DEF RowsHold, table, world

-----------------------------------------------------------------------------
(* The containers' own specs.                                              *)

\* Any containers, whose names and hostnames are made of the symbols S.
Ids == {id \in Seq(Hex) : Len(id) >= ShortLength}
AnySpec(S) ==
  [id : Ids, name : Seq(S), image : Seq(S), hostname : Seq(S), joins : Seq(S) \cup {Nothing},
   networks : Nat, ports : BOOLEAN, rest : Seq(S), optedOut : BOOLEAN]

\* A short id is told apart from the others' as the ids are.
LEMMA ShortIds ==
  ASSUME NEW id \in Ids
  PROVE  /\ ShortId(id) \in Seq(Hex) /\ Len(ShortId(id)) = ShortLength
         /\ LooksLikeId(ShortId(id))
         /\ \A other \in Ids : IsPrefix(ShortId(id), other) <=> ShortId(other) = ShortId(id)
<1>1. id \in Seq(Hex) /\ Len(id) >= ShortLength /\ ShortLength \in Nat \ {0}
  BY IdentityAssumption DEF Ids
<1>2. /\ ShortId(id) \in Seq(Hex) /\ Len(ShortId(id)) = ShortLength
      /\ \A i \in 1 .. ShortLength : ShortId(id)[i] = id[i]
  BY <1>1 DEF ShortId
<1>3. LooksLikeId(ShortId(id))
  BY <1>1, <1>2 DEF LooksLikeId, ToSet
<1>4. SubSeq(ShortId(id), 1, ShortLength) = ShortId(id)
  BY <1>1, <1>2
<1>5. ASSUME NEW other \in Ids
      PROVE  IsPrefix(ShortId(id), other) <=> ShortId(other) = ShortId(id)
  <2>1. Len(other) >= ShortLength
    BY DEF Ids
  <2>2. ShortLength <= Len(other)
    BY <1>1, <2>1 DEF Ids
  <2>3. IsPrefix(ShortId(id), other) <=>
          ShortLength <= Len(other) /\ SubSeq(ShortId(id), 1, ShortLength) = SubSeq(other, 1, ShortLength)
    BY <1>2 DEF IsPrefix
  <2>. QED
    BY <1>4, <2>2, <2>3 DEF ShortId
<1>. QED
  BY <1>2, <1>3, <1>5

\* A prefix that is no shorter than a short id tells ids apart.
LEMMA PrefixOfItself ==
  ASSUME NEW id \in Ids
  PROVE  IsPrefix(id, id) /\ \A other \in Ids : IsPrefix(id, other) => ShortId(other) = ShortId(id)
<1>1. id \in Seq(Hex) /\ Len(id) >= ShortLength /\ ShortLength \in Nat \ {0} /\ Len(id) \in Nat
  BY IdentityAssumption DEF Ids
<1>2. IsPrefix(id, id)
  BY <1>1 DEF IsPrefix
<1>3. ASSUME NEW other \in Ids, IsPrefix(id, other) PROVE ShortId(other) = ShortId(id)
  <2>1. /\ other \in Seq(Hex) /\ Len(other) \in Nat /\ Len(id) <= Len(other)
        /\ SubSeq(id, 1, Len(id)) = SubSeq(other, 1, Len(id))
    BY <1>3 DEF Ids, IsPrefix
  <2>2. \A i \in 1 .. Len(id) : id[i] = other[i]
    <3>1. \A i \in 1 .. Len(id) : SubSeq(id, 1, Len(id))[i] = id[i] /\ SubSeq(other, 1, Len(id))[i] = other[i]
      BY <1>1, <2>1
    <3>. QED
      BY <2>1, <3>1
  <2>3. \A i \in 1 .. ShortLength : id[i] = other[i]
    BY <1>1, <2>2
  <2>4. /\ ShortId(id) \in Seq(Hex) /\ ShortId(other) \in Seq(Hex)
        /\ Len(ShortId(id)) = ShortLength /\ Len(ShortId(other)) = ShortLength
        /\ \A i \in 1 .. ShortLength : ShortId(id)[i] = id[i] /\ ShortId(other)[i] = other[i]
    BY <1>1, <2>1 DEF ShortId
  <2>. QED
    BY <2>3, <2>4, SeqEqual
<1>. QED
  BY <1>2, <1>3

\* What an update makes of a spec.
LEMMA UpdatedSpec ==
  ASSUME NEW S, "new" \in S, Nothing \notin Seq(S), NEW c \in AnySpec(S), NEW id \in Ids, NEW exposes \in BOOLEAN,
         Hex \subseteq S
  PROVE  LET u == Created(CreateBody(FromInspect(c), <<"new">>), id, exposes)
         IN /\ u \in AnySpec(S) /\ u.id = id /\ u.ports = (c.ports \/ exposes)
            /\ u.hostname = IF DaemonAssigned(c.id, c.hostname) THEN ShortId(id) ELSE c.hostname
            /\ u.name = c.name /\ u.joins = c.joins /\ u.networks = c.networks /\ u.rest = c.rest
            /\ u.optedOut = c.optedOut
<1>. DEFINE host == IF DaemonAssigned(c.id, c.hostname) THEN Nothing ELSE c.hostname
            read == FromInspect(c)
            body == CreateBody(read, <<"new">>)
            u == Created(body, id, exposes)
            Spec9 == [id : Ids, name : Seq(S), image : Seq(S), hostname : Seq(S) \cup {Nothing},
                      joins : Seq(S) \cup {Nothing}, networks : Nat, ports : BOOLEAN, rest : Seq(S),
                      optedOut : BOOLEAN]
<1>1. <<"new">> \in Seq(S) /\ ShortId(id) \in Seq(S)
  <2>1. ShortId(id) \in Seq(Hex)
    BY ShortIds
  <2>2. <<"new">> \in Seq(S)
    OBVIOUS
  <2>. QED
    BY <2>1, <2>2
<1>2. /\ read \in Spec9 /\ read.id = c.id /\ read.hostname = host /\ read.name = c.name /\ read.joins = c.joins
      /\ read.networks = c.networks /\ read.ports = c.ports /\ read.rest = c.rest /\ read.optedOut = c.optedOut
  BY DEF FromInspect, AnySpec
<1>. HIDE DEF read, host
<1>3. /\ body \in Spec9 /\ body.hostname = host /\ body.name = c.name /\ body.joins = c.joins
      /\ body.networks = c.networks /\ body.ports = c.ports /\ body.rest = c.rest /\ body.optedOut = c.optedOut
  BY <1>1, <1>2 DEF CreateBody
<1>. HIDE DEF body
<1>4. /\ u.id = id /\ u.ports = (c.ports \/ exposes)
      /\ u.hostname = IF host = Nothing THEN ShortId(id) ELSE host
      /\ u.name = c.name /\ u.joins = c.joins /\ u.networks = c.networks /\ u.rest = c.rest
      /\ u.optedOut = c.optedOut
  BY <1>3 DEF Created
<1>5. u \in AnySpec(S)
  <2>1. u \in [id : Ids, name : Seq(S), image : Seq(S), hostname : Seq(S),
               joins : Seq(S) \cup {Nothing}, networks : Nat, ports : BOOLEAN, rest : Seq(S), optedOut : BOOLEAN]
    BY <1>1, <1>3 DEF Created
  <2>. QED
    BY <2>1 DEF AnySpec
<1>. HIDE DEF u
<1>6. c.hostname # Nothing
  BY DEF AnySpec
<1>. QED
  BY <1>4, <1>5, <1>6 DEF u, body, read, host

\* Three ids that differ in their short ids, as Docker's do.
Apart(ids) == \A a, b \in ids : ShortId(a) = ShortId(b) => a = b

\* Any container that is updated twice, whose owner, if it chose the hostname, chose no part of an id.
Recreation(x, S) ==
  /\ x.container \in AnySpec(S) /\ x.ids[1] \in Ids /\ x.ids[2] \in Ids /\ x.exposes \in BOOLEAN
  /\ x.container.id # x.ids[1] /\ x.container.id # x.ids[2] /\ x.ids[1] # x.ids[2]
  /\ Apart({x.container.id, x.ids[1], x.ids[2]})
  /\ ~DaemonAssigned(x.container.id, x.container.hostname) =>
       \A id \in {x.container.id, x.ids[1], x.ids[2]} :
         ~(Len(x.container.hostname) >= ShortLength /\ IsPrefix(x.container.hostname, id))

\* A container that is recreated twice keeps what its owner chose.
LEMMA StaysThroughUpdates ==
  ASSUME NEW S, {"new"} \cup Hex \subseteq S, Nothing \notin Seq(S), NEW x, Recreation(x, S)
  PROVE  StaysItself(x)
<1>. DEFINE update(c, id) == Created(CreateBody(FromInspect(c), <<"new">>), id, x.exposes)
            old == x.container
            replaced == update(old, x.ids[1])
            again == update(replaced, x.ids[2])
            chosen == ~DaemonAssigned(old.id, old.hostname)
            spec == FromInspect(old)
            h == old.hostname
<1>1. old \in AnySpec(S) /\ x.ids[1] \in Ids /\ x.ids[2] \in Ids /\ x.exposes \in BOOLEAN
  BY DEF Recreation
<1>2. \A id \in Ids : /\ ShortId(id) # Nothing /\ LooksLikeId(ShortId(id)) /\ DaemonAssigned(id, ShortId(id))
                      /\ \A other \in Ids : IsPrefix(ShortId(id), other) <=> ShortId(other) = ShortId(id)
  <2>1. ASSUME NEW id \in Ids
        PROVE  /\ ShortId(id) \in Seq(S) /\ LooksLikeId(ShortId(id)) /\ Len(ShortId(id)) = ShortLength
               /\ \A other \in Ids : IsPrefix(ShortId(id), other) <=> ShortId(other) = ShortId(id)
    <3>1. ShortId(id) \in Seq(Hex)
      BY ShortIds
    <3>2. ShortId(id) \in Seq(S)
      BY <3>1
    <3>. QED
      BY <3>2, ShortIds
  <2>. QED
    BY <2>1 DEF DaemonAssigned
<1>3. \A id \in {old.id, x.ids[1], x.ids[2]} :
        chosen => ~(Len(h) >= ShortLength /\ IsPrefix(h, id))
  BY DEF Recreation
<1>4. /\ replaced \in AnySpec(S) /\ replaced.id = x.ids[1] /\ replaced.ports = (old.ports \/ x.exposes)
      /\ replaced.hostname = IF chosen THEN h ELSE ShortId(x.ids[1])
      /\ replaced.name = old.name /\ replaced.joins = old.joins /\ replaced.networks = old.networks
      /\ replaced.rest = old.rest /\ replaced.optedOut = old.optedOut
  BY <1>1, UpdatedSpec
<1>. HIDE DEF replaced
<1>5. DaemonAssigned(replaced.id, replaced.hostname) <=> ~chosen
  <2>1. CASE chosen
    <3>1. ~(Len(h) >= ShortLength /\ IsPrefix(h, x.ids[1])) /\ ShortLength >= ShortLength
      BY <1>3, <2>1, IdentityAssumption
    <3>. QED
      BY <1>4, <2>1, <3>1 DEF DaemonAssigned
  <2>2. CASE ~chosen
    BY <1>1, <1>2, <1>4, <2>2
  <2>. QED
    BY <2>1, <2>2
<1>6. /\ again.id = x.ids[2] /\ again.ports = (old.ports \/ x.exposes)
      /\ again.hostname = IF chosen THEN h ELSE ShortId(x.ids[2])
      /\ again.name = old.name /\ again.joins = old.joins /\ again.networks = old.networks
      /\ again.rest = old.rest /\ again.optedOut = old.optedOut
  <2>. DEFINE C == IF DaemonAssigned(replaced.id, replaced.hostname) THEN ShortId(x.ids[2]) ELSE replaced.hostname
  <2>1. /\ again.id = x.ids[2] /\ again.ports = (replaced.ports \/ x.exposes)
        /\ again.hostname = C
        /\ again.name = replaced.name /\ again.joins = replaced.joins /\ again.networks = replaced.networks
        /\ again.rest = replaced.rest /\ again.optedOut = replaced.optedOut
    BY <1>1, <1>4, UpdatedSpec
  <2>2. C = IF chosen THEN h ELSE ShortId(x.ids[2])
    BY <1>4, <1>5
  <2>. HIDE DEF again, C
  <2>3. (replaced.ports \/ x.exposes) <=> (old.ports \/ x.exposes)
    BY <1>4
  <2>4. (replaced.ports \/ x.exposes) = (old.ports \/ x.exposes)
    BY <2>3
  <2>. QED
    BY <1>4, <2>1, <2>2, <2>4
<1>. HIDE DEF again
<1>7. ASSUME NEW c \in {replaced, again}, NEW d \in {old, replaced, again}
      PROVE  IsOwn(OwnPrefix(c.hostname), d.id) <=> ~chosen /\ d = c
  <2>1. c.id \in {x.ids[1], x.ids[2]} /\ d.id \in {old.id, x.ids[1], x.ids[2]} /\ c.id \in Ids /\ d.id \in Ids
    BY <1>1, <1>4, <1>6 DEF AnySpec
  <2>2. c.hostname = IF chosen THEN h ELSE ShortId(c.id)
    BY <1>4, <1>6
  <2>3. d.id = c.id <=> d = c
    BY <1>4, <1>6 DEF Recreation
  <2>4. ShortId(d.id) = ShortId(c.id) <=> d.id = c.id
    BY <2>1 DEF Recreation, Apart
  <2>5. CASE chosen
    BY <1>3, <2>1, <2>2, <2>5 DEF IsOwn, OwnPrefix, LooksLikeId
  <2>6. CASE ~chosen
    BY <1>2, <2>1, <2>2, <2>3, <2>4, <2>6 DEF IsOwn, OwnPrefix
  <2>. QED
    BY <2>5, <2>6
<1>8. Preflight(spec, x.version) /\ x.version # "unreadable" /\ spec.joins = Nothing
        => ~RefusesToCreate(CreateBody(spec, <<"new">>), x.version = "old")
  <2>1. CreateBody(spec, <<"new">>).joins = spec.joins /\ CreateBody(spec, <<"new">>).networks = spec.networks
        /\ spec.networks \in Nat
    BY <1>1 DEF CreateBody, FromInspect, AnySpec
  <2>. HIDE DEF spec
  <2>. QED
    BY <2>1 DEF RefusesToCreate, Preflight, MultiNetworkGuard
<1>9. ASSUME NEW c \in {replaced, again}
      PROVE  /\ \A f \in {"name", "joins", "networks", "rest", "optedOut"} : c[f] = x.container[f]
             /\ c.ports = (x.container.ports \/ x.exposes)
             /\ c.hostname = IF chosen THEN x.container.hostname ELSE ShortId(c.id)
  <2>1. c["name"] = old["name"] /\ c["joins"] = old["joins"] /\ c["networks"] = old["networks"]
        /\ c["rest"] = old["rest"] /\ c["optedOut"] = old["optedOut"]
    BY <1>4, <1>6
  <2>2. c.ports = (old.ports \/ x.exposes)
    BY <1>4, <1>6
  <2>3. c.hostname = IF chosen THEN h ELSE ShortId(c.id)
    BY <1>4, <1>6
  <2>. QED
    BY <2>1, <2>2, <2>3
<1>. HIDE DEF chosen, spec
<1>. QED
  BY <1>7, <1>8, <1>9 DEF StaysItself, replaced, again, chosen, spec

\* What a repair asks for.
BodySpec(S) ==
  [id : Ids, name : Seq(S), image : Seq(S), hostname : Seq(S) \cup {Nothing}, joins : Seq(S) \cup {Nothing},
   networks : Nat, ports : BOOLEAN, rest : Seq(S), optedOut : BOOLEAN]

\* What a repair asks the daemon for: all that the dependent was, its reference rewritten.
LEMMA RepairedBody ==
  ASSUME NEW S, Hex \subseteq S, Nothing \notin Seq(S), NEW c \in AnySpec(S), NEW o \in AnySpec(S),
         NEW n \in Ids \cup {Nothing}, c.joins # Nothing, NEW made, made = RepairBody(c, o, n)
  PROVE  /\ made \in BodySpec(S)
         /\ made.joins = IF n = Nothing \/ c.joins = o.name THEN c.joins ELSE n
         /\ made.joins # Nothing /\ made.hostname = Nothing /\ made.networks = 0 /\ ~made.ports
         /\ made.image = c.image /\ made.rest = c.rest /\ made.name = c.name /\ made.optedOut = c.optedOut
<1>. DEFINE joins == IF n = Nothing \/ c.joins = o.name THEN c.joins ELSE n
            read == FromInspect(c)
            pointed == Repointed(read, o, n)
            stripped == Stripped(pointed)
            body == CreateBody(stripped, c.image)
<1>1. \A id \in Ids : id \in Seq(S) /\ ShortId(id) \in Seq(S)
  <2>1. \A id \in Ids : id \in Seq(Hex) /\ ShortId(id) \in Seq(Hex)
    BY ShortIds DEF Ids
  <2>. QED
    BY <2>1
<1>2. /\ read \in BodySpec(S) /\ read.joins = c.joins /\ read.name = c.name /\ read.image = c.image
      /\ read.rest = c.rest /\ read.optedOut = c.optedOut
  BY DEF FromInspect, AnySpec, BodySpec
<1>. HIDE DEF read
<1>3. c.joins \in Seq(S) /\ joins \in Seq(S) /\ joins # Nothing /\ c.image \in Seq(S)
  BY <1>1 DEF AnySpec
<1>4. /\ pointed \in BodySpec(S) /\ pointed.joins = joins /\ pointed.name = c.name /\ pointed.image = c.image
      /\ pointed.rest = c.rest /\ pointed.optedOut = c.optedOut
  <2>1. CASE n = Nothing \/ c.joins = o.name
    BY <1>2, <2>1 DEF Repointed
  <2>2. CASE ~(n = Nothing \/ c.joins = o.name)
    <3>1. pointed = [read EXCEPT !.joins = n] /\ n \in Seq(S)
      BY <1>1, <1>2, <2>2 DEF Repointed
    <3>. QED
      BY <1>2, <2>2, <3>1 DEF BodySpec
  <2>. QED
    BY <2>1, <2>2
<1>. HIDE DEF pointed, joins
<1>5. /\ stripped \in BodySpec(S) /\ stripped.joins = joins /\ stripped.name = c.name
      /\ stripped.hostname = Nothing /\ stripped.networks = 0 /\ ~stripped.ports
      /\ stripped.rest = c.rest /\ stripped.optedOut = c.optedOut
  BY <1>3, <1>4 DEF Stripped, BodySpec
<1>. HIDE DEF stripped
<1>6. /\ body \in BodySpec(S) /\ body.joins = joins /\ body.name = c.name /\ body.image = c.image
      /\ body.hostname = Nothing /\ body.networks = 0 /\ ~body.ports
      /\ body.rest = c.rest /\ body.optedOut = c.optedOut
  BY <1>3, <1>5 DEF CreateBody, BodySpec
<1>. HIDE DEF body
<1>7. made = body
  BY DEF RepairBody, body, stripped, pointed, read
<1>. QED
  BY <1>3, <1>6, <1>7 DEF joins

\* What the daemon makes of it.
LEMMA RepairedSpec ==
  ASSUME NEW S, Hex \subseteq S, NEW body \in BodySpec(S), body.hostname = Nothing, NEW id \in Ids,
         NEW exposes \in BOOLEAN, NEW made, made = Created(body, id, exposes)
  PROVE  /\ made \in AnySpec(S) /\ made.id = id /\ made.joins = body.joins /\ made.name = body.name
         /\ made.optedOut = body.optedOut
<1>1. ShortId(id) \in Seq(Hex)
  BY ShortIds
<1>2. ShortId(id) \in Seq(S)
  BY <1>1
<1>3. made = [body EXCEPT !.id = id, !.ports = @ \/ exposes, !.hostname = ShortId(id)]
  BY DEF Created
<1>. QED
  BY <1>2, <1>3 DEF AnySpec, BodySpec

\* Any owner and any other container, with ids that are told apart; neither goes by a part of the owner's
\* id or by the archive's name, and freshdock is not the container that the repair creates.
Repair(x, S) ==
  LET owner == x.container
      d == x.dependent
  IN /\ owner \in AnySpec(S) /\ d \in AnySpec(S) /\ x.exposes \in BOOLEAN /\ x.rolledBack \in BOOLEAN
     /\ {x.ids[1], x.ids[2], x.repairedId} \subseteq Ids /\ Apart({owner.id, x.ids[1], x.ids[2]})
     /\ owner.id # x.ids[1] /\ x.ids[1] # <<"archive">>
     /\ owner.name # <<"archive">> /\ owner.name # d.name /\ ~IsPrefix(owner.name, owner.id)
     /\ ~IsOwn(OwnPrefix(x.host), x.repairedId)

\* A dependent is found by its reference, repaired onto the container that serves, and found again.
LEMMA FollowsOwner ==
  ASSUME NEW S, Hex \subseteq S, Nothing \notin Seq(S), NEW x, Repair(x, S)
  PROVE  NamespaceFollows(x)
<1>. DEFINE owner == x.container
            archive == [owner EXCEPT !.name = <<"archive">>]
            newId == IF x.rolledBack THEN Nothing ELSE x.ids[1]
            serving == IF x.rolledBack THEN owner ELSE [owner EXCEPT !.id = x.ids[1]]
            others == IF x.rolledBack THEN {} ELSE {archive}
            d == x.dependent
            body == RepairBody(d, owner, newId)
            repaired == Created(body, x.repairedId, x.exposes)
            next == RepairBody(repaired, serving, x.ids[2])
            found(c, o) == c \in Dependents({c}, o, x.host)
            spared == d.optedOut \/ IsOwn(OwnPrefix(x.host), d.id)
            brief == d.joins # owner.name /\ d.joins # Nothing /\ Len(d.joins) < ShortLength
<1>1. /\ owner \in AnySpec(S) /\ d \in AnySpec(S) /\ x.exposes \in BOOLEAN /\ x.rolledBack \in BOOLEAN
      /\ x.ids[1] \in Ids /\ x.ids[2] \in Ids /\ x.repairedId \in Ids
      /\ owner.name # <<"archive">> /\ owner.name # d.name /\ ~IsPrefix(owner.name, owner.id)
      /\ ~IsOwn(OwnPrefix(x.host), x.repairedId) /\ x.ids[1] # <<"archive">>
      /\ ~IsPrefix(x.ids[1], owner.id)
  <2>1. owner.id \in Ids
    BY DEF Repair, AnySpec
  <2>2. ShortId(x.ids[1]) # ShortId(owner.id) /\ x.ids[1] \in Ids
    BY DEF Repair, Apart
  <2>3. ~IsPrefix(x.ids[1], owner.id)
    BY <2>1, <2>2, PrefixOfItself
  <2>. QED
    BY <2>3 DEF Repair
<1>2. /\ archive.name = <<"archive">> /\ archive.id = owner.id /\ serving.name = owner.name
      /\ serving.id = IF x.rolledBack THEN owner.id ELSE x.ids[1]
  BY <1>1 DEF AnySpec
<1>3. newId \in Ids \cup {Nothing} /\ (newId = Nothing <=> x.rolledBack)
  <2>1. x.ids[1] \in Seq(Hex)
    BY <1>1 DEF Ids
  <2>2. x.ids[1] \in Seq(S)
    BY <2>1
  <2>. QED
    BY <1>1, <2>2
<1>4. \A c, o : found(c, o) <=> /\ Joins(c, o.name, o.id) /\ c.name # o.name
                               /\ ~IsOwn(OwnPrefix(x.host), c.id) /\ ~c.optedOut
  BY DEF Dependents
<1>5. \A id \in Ids : Len(id) >= ShortLength /\ IsPrefix(id, id) /\ id # Nothing
  <2>1. ASSUME NEW id \in Ids PROVE id \in Seq(S)
    <3>1. id \in Seq(Hex)
      BY DEF Ids
    <3>. QED
      BY <3>1
  <2>. QED
    BY <2>1, PrefixOfItself DEF Ids
<1>6. d.joins \in Seq(S) \cup {Nothing} /\ d.optedOut \in BOOLEAN /\ ShortLength \in Nat
  BY <1>1, IdentityAssumption DEF AnySpec
<1>. HIDE DEF found, archive, serving
<1>7. found(d, owner) <=> Means(d.joins, owner) /\ ~spared /\ ~brief
  <2>1. d.joins # Nothing => (Len(d.joins) < ShortLength <=> ~(Len(d.joins) >= ShortLength))
    <3>1. d.joins # Nothing => Len(d.joins) \in Nat
      BY <1>6
    <3>. QED
      BY <1>6, <3>1
  <2>. QED
    BY <1>1, <1>4, <2>1 DEF Means, Joins
<1>8. ASSUME found(d, owner)
      PROVE  /\ ~RefusesToCreate(body, x.version = "old")
             /\ Means(body.joins, serving) /\ \A c \in others : ~Means(body.joins, c)
             /\ body.image = d.image /\ body.rest = d.rest
             /\ found(repaired, serving) /\ Means(next.joins, [serving EXCEPT !.id = x.ids[2]])
  <2>1. Joins(d, owner.name, owner.id) /\ ~d.optedOut
    BY <1>4, <1>8
  <2>2. d.joins # Nothing
    BY <2>1 DEF Joins
  <2>3. /\ body.joins = (IF newId = Nothing \/ d.joins = owner.name THEN d.joins ELSE newId)
        /\ body.joins # Nothing /\ body.hostname = Nothing /\ body.networks = 0 /\ ~body.ports
        /\ body.image = d.image /\ body.rest = d.rest
        /\ repaired \in AnySpec(S) /\ repaired.id = x.repairedId /\ repaired.joins = body.joins
        /\ repaired.name = d.name /\ repaired.optedOut = d.optedOut
    <3>1. owner \in AnySpec(S) /\ d \in AnySpec(S) /\ newId \in Ids \cup {Nothing} /\ d.joins # Nothing /\ x.repairedId \in Ids
          /\ x.exposes \in BOOLEAN
      BY <1>1, <1>3, <2>2
    <3>. HIDE DEF newId, d
    <3>2. /\ body \in BodySpec(S)
          /\ body.joins = IF newId = Nothing \/ d.joins = owner.name THEN d.joins ELSE newId
          /\ body.joins # Nothing /\ body.hostname = Nothing /\ body.networks = 0 /\ ~body.ports
          /\ body.image = d.image /\ body.rest = d.rest /\ body.name = d.name /\ body.optedOut = d.optedOut
      BY <3>1, RepairedBody
    <3>. HIDE DEF body
    <3>3. /\ repaired \in AnySpec(S) /\ repaired.id = x.repairedId /\ repaired.joins = body.joins
          /\ repaired.name = body.name /\ repaired.optedOut = body.optedOut
      BY <3>1, <3>2, RepairedSpec
    <3>. QED
      BY <3>2, <3>3
  <2>. HIDE DEF body, repaired
  <2>4. ~RefusesToCreate(body, x.version = "old")
    BY <2>3 DEF RefusesToCreate
  <2>5. Joins(repaired, serving.name, serving.id)
    <3>1. CASE x.rolledBack
      BY <1>2, <1>3, <2>1, <2>3, <3>1 DEF Joins
    <3>2. CASE ~x.rolledBack
      BY <1>1, <1>2, <1>3, <1>5, <2>1, <2>3, <3>2 DEF Joins
    <3>. QED
      BY <1>1, <3>1, <3>2
  <2>6. Means(body.joins, serving)
    BY <2>3, <2>5 DEF Joins, Means
  <2>7. \A c \in others : ~Means(body.joins, c)
    <3>1. ASSUME ~x.rolledBack PROVE ~Means(body.joins, archive)
      <4>1. body.joins = owner.name \/ body.joins = x.ids[1]
        BY <1>3, <2>3, <3>1
      <4>. QED
        BY <1>1, <1>2, <4>1 DEF Means
    <3>. QED
      BY <1>1, <3>1
  <2>8. found(repaired, serving)
    BY <1>1, <1>2, <1>4, <2>1, <2>3, <2>5
  <2>9. Means(next.joins, [serving EXCEPT !.id = x.ids[2]])
    <3>1. next.joins = (IF x.ids[2] = Nothing \/ repaired.joins = serving.name THEN repaired.joins ELSE x.ids[2])
      <4>1. serving \in AnySpec(S)
        BY <1>1 DEF serving, AnySpec
      <4>2. repaired \in AnySpec(S) /\ x.ids[2] \in Ids \cup {Nothing} /\ repaired.joins # Nothing
        BY <1>1, <2>3
      <4>. QED
        BY <4>1, <4>2, RepairedBody
    <3>2. serving \in AnySpec(S)
      BY <1>1 DEF serving, AnySpec
    <3>3. [serving EXCEPT !.id = x.ids[2]].name = serving.name /\ [serving EXCEPT !.id = x.ids[2]].id = x.ids[2]
      BY <3>2 DEF AnySpec
    <3>. HIDE DEF next
    <3>4. next.joins = serving.name \/ next.joins = x.ids[2]
      BY <1>1, <1>5, <3>1
    <3>5. next.joins # Nothing
      BY <1>1, <1>5, <2>3, <3>1
    <3>. QED
      BY <1>1, <1>5, <3>3, <3>4, <3>5 DEF Means
  <2>. QED
    BY <2>3, <2>4, <2>6, <2>7, <2>8, <2>9
<1>. HIDE DEF body, repaired, next, spared, brief, others, newId
<1>. QED
  BY <1>7, <1>8 DEF NamespaceFollows, found, archive, serving, body, repaired, next, spared, brief, others, newId

\* Whoever is recreated, and whoever is in its namespace: a container keeps its identity, and freshdock
\* knows its own, across two updates; and the containers in a namespace follow its owner, also through
\* a rollback (from_inspect, own_container_id_prefix, network_dependent_names, rewrite_owner_reference).
THEOREM EveryIdentity ==
  ASSUME NEW S, {"new"} \cup Hex \subseteq S, Nothing \notin Seq(S),
         input.of = "recreation" => Recreation(input.value, S), input.of = "repair" => Repair(input.value, S)
  PROVE  IdentityKept
BY StaysThroughUpdates, FollowsOwner DEF IdentityKept

-----------------------------------------------------------------------------
(* The image references.                                                   *)

\* A word's first and last place in a text, and its absence.
Free(s, w) == \A i \in 1 .. Len(s) : s[i] # w

\* A place with none before it is the first.
LEMMA PlaceFirst ==
  ASSUME NEW S, NEW s \in Seq(S), NEW w, NEW i \in 1 .. Len(s), s[i] = w, \A j \in 1 .. i - 1 : s[j] # w
  PROVE  FirstOf(s, w) = i /\ Has(s, w)
<1>1. Len(s) \in Nat /\ DOMAIN s = 1 .. Len(s)
  OBVIOUS
<1>2. i \in Positions(s, w) /\ \A j \in Positions(s, w) : j \in Nat /\ i <= j
  BY <1>1 DEF Positions
<1>3. \A k \in Positions(s, w) : (\A j \in Positions(s, w) : k <= j) => k = i
  BY <1>2
<1>. HIDE DEF Positions
<1>4. Min(Positions(s, w)) = i
  BY <1>2, <1>3 DEF Min
<1>. QED
  BY <1>2, <1>4 DEF FirstOf, Has

\* A place with none behind it is the last.
LEMMA PlaceLast ==
  ASSUME NEW S, NEW s \in Seq(S), NEW w, NEW i \in 1 .. Len(s), s[i] = w,
         \A j \in 1 .. Len(s) : s[j] = w => j <= i
  PROVE  LastOf(s, w) = i /\ Has(s, w)
<1>1. Len(s) \in Nat /\ DOMAIN s = 1 .. Len(s)
  OBVIOUS
<1>2. i \in Positions(s, w) /\ \A j \in Positions(s, w) : j \in Nat /\ i >= j
  BY <1>1 DEF Positions
<1>3. \A k \in Positions(s, w) : (\A j \in Positions(s, w) : k >= j) => k = i
  BY <1>2
<1>. HIDE DEF Positions
<1>4. Max(Positions(s, w)) = i
  BY <1>2, <1>3 DEF Max
<1>. QED
  BY <1>2, <1>4 DEF LastOf, Has

\* A word that does not occur has no place (find and rfind answer None).
LEMMA PlaceNone ==
  ASSUME NEW S, NEW s \in Seq(S), NEW w, Free(s, w)
  PROVE  FirstOf(s, w) = 0 /\ LastOf(s, w) = 0 /\ ~Has(s, w)
<1>1. Positions(s, w) = {}
  BY DEF Positions, Free
<1>. QED
  BY <1>1 DEF FirstOf, LastOf, Has

\* There is a last place of every word that occurs.
LEMMA LastPlace ==
  ASSUME NEW S, NEW s \in Seq(S), NEW w, ~Free(s, w)
  PROVE  /\ LastOf(s, w) \in 1 .. Len(s) /\ s[LastOf(s, w)] = w
         /\ \A j \in 1 .. Len(s) : s[j] = w => j <= LastOf(s, w)
<1>. DEFINE P == {i \in 1 .. Len(s) : s[i] = w}
<1>1. P # {} /\ P \subseteq 1 .. Len(s) /\ Len(s) \in Nat /\ P = Positions(s, w)
  BY DEF Free, Positions
<1>2. \E m \in P : \A j \in P : j <= m
  <2>. DEFINE Q == {k \in Nat : \E i \in P : k = Len(s) - i}
  <2>1. Q # {}
    <3>1. PICK i \in P : TRUE
      BY <1>1
    <3>2. Len(s) - i \in Nat
      BY <1>1, <3>1
    <3>. QED
      BY <3>1, <3>2
  <2>. HIDE DEF P
  <2>2. PICK k \in Q : \A l \in Q : k <= l
    BY <2>1, LeastNat
  <2>3. PICK m \in P : k = Len(s) - m
    OBVIOUS
  <2>4. ASSUME NEW j \in P PROVE j <= m
    <3>1. Len(s) \in Nat /\ j \in 1 .. Len(s) /\ m \in 1 .. Len(s)
      BY <1>1
    <3>2. Len(s) - j \in Nat
      BY <3>1
    <3>3. Len(s) - j \in Q
      BY <3>2
    <3>4. k <= Len(s) - j
      BY <2>2, <3>3
    <3>. QED
      BY <2>3, <3>1, <3>4
  <2>. QED
    BY <2>4
<1>3. PICK m \in P : \A j \in P : j <= m
  BY <1>2
<1>4. m \in 1 .. Len(s) /\ s[m] = w /\ \A j \in 1 .. Len(s) : s[j] = w => j <= m
  BY <1>3
<1>5. LastOf(s, w) = m
  BY <1>4, PlaceLast
<1>. QED
  BY <1>4, <1>5

\* Cutting a text where it was put together.
LEMMA Cut ==
  ASSUME NEW S, NEW a \in Seq(S), NEW b \in Seq(S)
  PROVE  Upto(a \o b, Len(a)) = a /\ After(a \o b, Len(a)) = b
<1>. DEFINE c == a \o b
<1>1. c \in Seq(S) /\ Len(c) = Len(a) + Len(b) /\ Len(a) \in Nat /\ Len(b) \in Nat
      /\ (\A i \in 1 .. Len(a) : c[i] = a[i]) /\ \A i \in 1 .. Len(b) : c[Len(a) + i] = b[i]
  OBVIOUS
<1>. HIDE DEF c
<1>2. Upto(c, Len(a)) = a
  <2>1. \A i \in 1 .. Len(a) : c[i] \in S
    BY <1>1
  <2>2. SubSeq(c, 1, Len(a)) \in Seq(S) /\ Len(SubSeq(c, 1, Len(a))) = Len(a)
        /\ \A i \in 1 .. Len(a) : SubSeq(c, 1, Len(a))[i] = a[i]
    BY <1>1, <2>1, SubSeqProperties
  <2>. QED
    BY <2>2, SeqEqual DEF Upto
<1>3. After(c, Len(a)) = b
  <2>1. \A i \in Len(a) + 1 .. Len(c) : c[i] \in S
    BY <1>1
  <2>. DEFINE d == SubSeq(c, Len(a) + 1, Len(c))
  <2>2. d \in Seq(S) /\ Len(d) = (IF Len(a) + 1 <= Len(c) THEN (Len(c) - (Len(a) + 1)) + 1 ELSE 0)
        /\ \A i \in 1 .. (Len(c) - (Len(a) + 1)) + 1 : d[i] = c[((Len(a) + 1) + i) - 1]
    BY <1>1, <2>1, SubSeqProperties
  <2>. HIDE DEF d
  <2>3. Len(d) = Len(b)
    BY <1>1, <2>2
  <2>4. ASSUME NEW i \in 1 .. Len(b) PROVE d[i] = b[i]
    <3>1. i \in 1 .. (Len(c) - (Len(a) + 1)) + 1 /\ ((Len(a) + 1) + i) - 1 = Len(a) + i
      BY <1>1
    <3>. QED
      BY <1>1, <2>2, <3>1
  <2>5. d = b
    BY <2>2, <2>3, <2>4, SeqEqual
  <2>. QED
    BY <2>5 DEF After, d
<1>. QED
  BY <1>2, <1>3 DEF c

\* A text with a separator behind its first part.
LEMMA CutAt ==
  ASSUME NEW S, NEW a \in Seq(S), NEW w \in S, NEW b \in Seq(S)
  PROVE  LET c == a \o <<w>> \o b
         IN /\ c \in Seq(S) /\ Len(c) = Len(a) + 1 + Len(b) /\ c[Len(a) + 1] = w
            /\ \A i \in 1 .. Len(a) : c[i] = a[i]
            /\ \A i \in 1 .. Len(b) : c[Len(a) + 1 + i] = b[i]
            /\ \A i \in 1 .. Len(c) : i \in 1 .. Len(a) \/ i = Len(a) + 1 \/ i - (Len(a) + 1) \in 1 .. Len(b)
            /\ Upto(c, Len(a)) = a /\ After(c, Len(a) + 1) = b
            /\ Free(a, w) => FirstOf(c, w) = Len(a) + 1
            /\ Free(b, w) => LastOf(c, w) = Len(a) + 1
            /\ Has(c, w)
<1>. DEFINE c == a \o <<w>> \o b
            e == a \o <<w>>
            f == <<w>> \o b
<1>1. /\ e \in Seq(S) /\ Len(e) = Len(a) + 1 /\ f \in Seq(S) /\ Len(a) \in Nat /\ Len(b) \in Nat
      /\ (\A i \in 1 .. Len(a) : e[i] = a[i]) /\ e[Len(a) + 1] = w
  OBVIOUS
<1>2. c = a \o f
  <2>1. <<w>> \in Seq(S)
    OBVIOUS
  <2>. QED
    BY <2>1, ConcatAssociative
<1>3. c = e \o b
  OBVIOUS
<1>. HIDE DEF c, e, f
<1>4. Upto(c, Len(a)) = a /\ After(c, Len(a) + 1) = b
  BY <1>1, <1>2, <1>3, Cut
<1>5. /\ c \in Seq(S) /\ Len(c) = Len(a) + 1 + Len(b) /\ c[Len(a) + 1] = w
      /\ \A i \in 1 .. Len(a) : c[i] = a[i]
      /\ \A i \in 1 .. Len(b) : c[Len(a) + 1 + i] = b[i]
  <2>1. /\ c \in Seq(S) /\ Len(c) = Len(e) + Len(b)
        /\ \A i \in 1 .. Len(e) + Len(b) : c[i] = IF i <= Len(e) THEN e[i] ELSE b[i - Len(e)]
    <3>1. /\ e \o b \in Seq(S) /\ Len(e \o b) = Len(e) + Len(b)
          /\ \A i \in 1 .. Len(e) + Len(b) : (e \o b)[i] = IF i <= Len(e) THEN e[i] ELSE b[i - Len(e)]
      BY <1>1, ConcatProperties, Zenon
    <3>. QED
      BY <1>3, <3>1, Zenon
  <2>2. ASSUME NEW i \in 1 .. Len(b) PROVE c[Len(a) + 1 + i] = b[i]
    <3>. DEFINE k == Len(a) + 1 + i
    <3>1. k \in 1 .. Len(e) + Len(b) /\ ~(k <= Len(e)) /\ k - Len(e) = i
      BY <1>1
    <3>. QED
      BY <2>1, <3>1
  <2>. QED
    BY <1>1, <2>1, <2>2
<1>6. \A i \in 1 .. Len(c) : i \in 1 .. Len(a) \/ i = Len(a) + 1 \/ i - (Len(a) + 1) \in 1 .. Len(b)
  BY <1>1, <1>5
<1>7. Len(a) + 1 \in 1 .. Len(c)
  BY <1>1, <1>5
<1>8. ASSUME Free(a, w) PROVE FirstOf(c, w) = Len(a) + 1
  <2>1. \A j \in 1 .. (Len(a) + 1) - 1 : c[j] # w
    BY <1>1, <1>5, <1>8 DEF Free
  <2>. QED
    BY <1>5, <1>7, <2>1, PlaceFirst
<1>9. ASSUME Free(b, w) PROVE LastOf(c, w) = Len(a) + 1
  <2>1. ASSUME NEW j \in 1 .. Len(c), c[j] = w PROVE j <= Len(a) + 1
    <3>1. \A k \in 1 .. Len(b) : c[Len(a) + 1 + k] # w
      BY <1>5, <1>9 DEF Free
    <3>2. ASSUME j - (Len(a) + 1) \in 1 .. Len(b) PROVE FALSE
      <4>. DEFINE k == j - (Len(a) + 1)
      <4>1. Len(a) + 1 + k = j
        BY <1>1
      <4>. QED
        BY <2>1, <3>1, <3>2, <4>1
    <3>. QED
      BY <1>1, <1>5, <2>1, <3>2
  <2>. QED
    BY <1>5, <1>7, <2>1, PlaceLast
<1>10. Has(c, w)
  BY <1>5, <1>7 DEF Has, Positions
<1>. QED
  BY <1>4, <1>5, <1>6, <1>8, <1>9, <1>10 DEF c

Words == Dotted \cup Plain
Symbols == Words \cup {"/", ":", "@", "5000", "latest", "v1", "sha256", "docker.io", "library"}

\* A path on Docker Hub: its first segment is no host's name, nor is the image's of an official one.
HubPath(p) ==
  /\ p \in Seq(Words \cup {"/"}) /\ p[1] \in Words /\ ~HostLike(<<p[1]>>)
  /\ \/ Len(p) = 1
     \/ Len(p) = 3 /\ p[2] = "/" /\ p[3] \in Words /\ (p[1] = "library" => ~HostLike(<<p[3]>>))
     \/ Len(p) >= 5 /\ p[2] = "/" /\ p[4] = "/"

\* The path in full, and as short as a daemon lists it.
InFull(p) == IF Has(p, "/") THEN p ELSE <<"library", "/">> \o p
InShort(p) == IF Len(p) = 3 /\ p[1] = "library" THEN <<p[3]>> ELSE p

\* When a segment of one word is a host to split_repository: with a dot, or localhost.
LEMMA HostWord ==
  ASSUME NEW w
  PROVE  /\ HostLike(<<w>>) <=> w \in {"localhost", ":"} \cup Dotted
         /\ w \in Words => <<w>> \in Seq(Words)
<1>1. \A v : Has(<<w>>, v) <=> w = v
  <2>1. DOMAIN <<w>> = {1} /\ <<w>>[1] = w
    OBVIOUS
  <2>. QED
    BY <2>1 DEF Has, Positions
<1>2. <<w>> = <<"localhost">> <=> w = "localhost"
  OBVIOUS
<1>. QED
  BY <1>1, <1>2 DEF HostLike

\* Where the slashes of a path on Docker Hub are, and what they cut it into.
LEMMA PathParts ==
  ASSUME NEW p, HubPath(p)
  PROVE  /\ p \in Seq(Symbols) /\ Len(p) \in Nat \ {0} /\ p \in Seq(Words \cup {"/"}) /\ p[1] # "/"
         /\ Free(p, ":") /\ Free(p, "@")
         /\ Has(p, "/") <=> Len(p) # 1
         /\ Len(p) = 1 => FirstOf(p, "/") = 0 /\ p = <<p[1]>>
         /\ Len(p) # 1 => FirstOf(p, "/") = 2 /\ Upto(p, 1) = <<p[1]>>
         /\ Len(p) = 3 => /\ LastOf(p, "/") = 2 /\ After(p, 2) = <<p[3]>> /\ ~Has(<<p[3]>>, "/")
                          /\ Upto(p, 2) = <<p[1], "/">> /\ p = <<p[1], "/", p[3]>>
         /\ Len(p) # 1 /\ Len(p) # 3 => LastOf(p, "/") # 2 /\ Has(After(p, 2), "/")
<1>. DEFINE T == Words \cup {"/"}
<1>1. {"/", ":", "@"} \cap Words = {} /\ T \subseteq Symbols
  BY ReferencesAssumption DEF Words, Symbols
<1>2. p \in Seq(T) /\ p[1] \in Words
  BY DEF HubPath
<1>3. /\ Len(p) = 1 \/ (Len(p) = 3 /\ p[2] = "/" /\ p[3] \in Words) \/ (Len(p) >= 5 /\ p[2] = "/" /\ p[4] = "/")
  BY DEF HubPath
<1>. HIDE DEF T
<1>4. p \in Seq(Symbols) /\ Len(p) \in Nat /\ \A i \in 1 .. Len(p) : p[i] \in T
  BY <1>1, <1>2
<1>5. Free(p, ":") /\ Free(p, "@") /\ p[1] # "/" /\ Len(p) # 0
  BY <1>1, <1>2, <1>3, <1>4 DEF Free, T
<1>6. CASE Len(p) = 1
  <2>1. Free(p, "/")
    BY <1>5, <1>6 DEF Free
  <2>2. p = <<p[1]>>
    BY <1>4, <1>6
  <2>. QED
    BY <1>2, <1>4, <1>5, <1>6, <2>1, <2>2, PlaceNone DEF T
<1>7. CASE Len(p) # 1
  <2>1. p[2] = "/" /\ 2 \in 1 .. Len(p) /\ \A j \in 1 .. 2 - 1 : p[j] # "/"
    BY <1>3, <1>4, <1>5, <1>7
  <2>2. FirstOf(p, "/") = 2 /\ Has(p, "/")
    BY <1>4, <2>1, PlaceFirst
  <2>3. Upto(p, 1) = <<p[1]>> /\ Upto(p, 2) = <<p[1], "/">>
    <3>. DEFINE d == SubSeq(p, 1, 1)
                e == SubSeq(p, 1, 2)
    <3>1. d \in Seq(Symbols) /\ Len(d) = 1 /\ d[1] = p[1]
      BY <1>4, <2>1
    <3>2. e \in Seq(Symbols) /\ Len(e) = 2 /\ e[1] = p[1] /\ e[2] = "/"
      BY <1>4, <2>1
    <3>. HIDE DEF d, e
    <3>3. d = <<p[1]>> /\ e = <<p[1], "/">>
      BY <3>1, <3>2
    <3>. QED
      BY <3>3 DEF Upto, d, e
  <2>4. CASE Len(p) = 3
    <3>1. p[3] # "/" /\ p[3] \in Words
      BY <1>1, <1>3, <2>4
    <3>2. LastOf(p, "/") = 2
      BY <1>4, <2>1, <2>4, <3>1, PlaceLast
    <3>3. After(p, 2) = <<p[3]>>
      <4>. DEFINE d == SubSeq(p, 3, 3)
      <4>1. d \in Seq(Symbols) /\ Len(d) = 1 /\ d[1] = p[3]
        <5>1. \A i \in 3 .. 3 : p[i] \in Symbols
          <6>1. p[3] \in Words
            BY <1>3, <2>4
          <6>. QED
            BY <6>1 DEF Symbols
        <5>2. /\ d \in Seq(Symbols) /\ Len(d) = IF 3 <= 3 THEN (3 - 3) + 1 ELSE 0
              /\ \A i \in 1 .. (3 - 3) + 1 : d[i] = p[(3 + i) - 1]
          BY <5>1, SubSeqProperties
        <5>. HIDE DEF d
        <5>. QED
          BY <5>2
      <4>. HIDE DEF d
      <4>2. d = <<p[3]>>
        BY <4>1
      <4>3. After(p, 2) = d
        BY <2>4 DEF After, d
      <4>. QED
        BY <4>2, <4>3
    <3>4. p = <<p[1], "/", p[3]>>
      BY <1>4, <2>1, <2>4
    <3>5. ~Has(<<p[3]>>, "/")
      BY <3>1 DEF Has, Positions
    <3>. QED
      BY <1>2, <1>4, <1>5, <1>7, <2>2, <2>3, <2>4, <3>2, <3>3, <3>4, <3>5 DEF T
  <2>5. CASE Len(p) # 3
    <3>1. p[4] = "/" /\ 4 \in 1 .. Len(p) /\ Len(p) >= 5
      BY <1>3, <1>4, <1>7, <2>5
    <3>2. LastOf(p, "/") # 2
      <4>1. ~Free(p, "/")
        BY <3>1 DEF Free
      <4>2. 4 <= LastOf(p, "/")
        BY <1>4, <3>1, <4>1, LastPlace
      <4>. QED
        BY <4>2
    <3>3. Has(After(p, 2), "/")
      <4>. DEFINE d == SubSeq(p, 3, Len(p))
      <4>1. d \in Seq(Symbols) /\ Len(d) = Len(p) - 2 /\ d[2] = p[4]
        BY <1>4, <3>1
      <4>2. 2 \in DOMAIN d
        BY <1>4, <3>1, <4>1
      <4>3. After(p, 2) = d
        BY <1>4 DEF After
      <4>. HIDE DEF d
      <4>. QED
        BY <3>1, <4>1, <4>2, <4>3 DEF Has, Positions
    <3>. QED
      BY <1>2, <1>4, <1>5, <1>7, <2>2, <2>3, <2>5, <3>2, <3>3 DEF T
  <2>. QED
    BY <2>4, <2>5
<1>. QED
  BY <1>6, <1>7

\* A path by itself is read as one on Docker Hub.
LEMMA BarePath ==
  ASSUME NEW p, HubPath(p)
  PROVE  Split(p) = << <<"docker.io">>, p>> /\ Normal(p) = << <<"docker.io">>, InFull(p)>>
<1>. DEFINE slash == FirstOf(p, "/")
<1>1. ~HostLike(<<p[1]>>)
  BY DEF HubPath
<1>2. (IF slash = 0 THEN p ELSE Upto(p, slash - 1)) = <<p[1]>>
  <2>1. CASE Len(p) = 1
    BY <2>1, PathParts
  <2>2. CASE Len(p) # 1
    <3>1. slash = 2 /\ Upto(p, 1) = <<p[1]>>
      BY <2>2, PathParts
    <3>. HIDE DEF slash
    <3>. QED
      BY <3>1
  <2>. QED
    BY <2>1, <2>2
<1>. HIDE DEF slash
<1>3. Split(p) = << <<"docker.io">>, p>>
  BY <1>1, <1>2 DEF Split, slash
<1>4. slash \in {0, 2}
  BY PathParts DEF slash
<1>5. ~(slash > 0 /\ HostLike(Upto(p, slash - 1)))
  BY <1>1, <1>2, <1>4
<1>6. Normal(p) = << <<"docker.io">>, InFull(p)>>
  BY <1>5 DEF Normal, slash, InFull
<1>. QED
  BY <1>3, <1>6

\* A host and a path are read as these.
LEMMA HostAndPath ==
  ASSUME NEW h \in Seq(Symbols), Free(h, "/"), HostLike(h), NEW p \in Seq(Symbols)
  PROVE  LET n == h \o <<"/">> \o p
         IN /\ Split(n) = <<h, p>>
            /\ Normal(n) = IF IsHub(h) THEN << <<"docker.io">>, InFull(p)>> ELSE <<h, p>>
<1>. DEFINE n == h \o <<"/">> \o p
<1>1. "/" \in Symbols
  BY DEF Symbols
<1>2. /\ FirstOf(n, "/") = Len(h) + 1 /\ Upto(n, Len(h)) = h /\ After(n, Len(h) + 1) = p /\ Len(h) \in Nat
  BY <1>1, CutAt
<1>. HIDE DEF n
<1>3. Len(h) + 1 # 0 /\ Len(h) + 1 > 0 /\ (Len(h) + 1) - 1 = Len(h)
  BY <1>2
<1>4. Split(n) = <<h, p>>
  BY <1>2, <1>3 DEF Split
<1>5. Normal(n) = IF IsHub(h) THEN << <<"docker.io">>, InFull(p)>> ELSE <<h, p>>
  BY <1>2, <1>3 DEF Normal, InFull
<1>. QED
  BY <1>4, <1>5 DEF n

\* The names of an image on Docker Hub, and those of one elsewhere.
HubName(n, p) == HubPath(p) /\ (n = p \/ \E d \in HubHosts : n = <<d>> \o <<"/">> \o p)
ForeignName(n, h, p) ==
  /\ h \in Seq(Words \cup {":", "5000"}) /\ HostLike(h) /\ ~IsHub(h)
  /\ p \in Seq(Words \cup {"/"}) /\ p # <<>> /\ n = h \o <<"/">> \o p

\* No colon in it could be a tag's.
Tagless(n) ==
  /\ n \in Seq(Symbols) /\ Free(n, "@")
  /\ \A i \in 1 .. Len(n) : n[i] = ":" => \E j \in i + 1 .. Len(n) : n[j] = "/"

\* The name of an official image in full, word by word.
LEMMA Official ==
  ASSUME NEW w
  PROVE  <<"library", "/">> \o <<w>> = <<"library", "/", w>>
<1>. DEFINE S == {"library", "/", w}
            a == <<"library", "/">>
            b == <<w>>
            c == a \o b
<1>1. a \in Seq(S) /\ b \in Seq(S) /\ Len(a) = 2 /\ Len(b) = 1
      /\ a[1] = "library" /\ a[2] = "/" /\ b[1] = w
  OBVIOUS
<1>. HIDE DEF S, a, b
<1>2. /\ c \in Seq(S) /\ Len(c) = Len(a) + Len(b)
      /\ \A i \in 1 .. Len(a) + Len(b) : c[i] = IF i <= Len(a) THEN a[i] ELSE b[i - Len(a)]
  BY <1>1, ConcatProperties, Zenon
<1>. HIDE DEF c
<1>3. c \in Seq(S) /\ Len(c) = 3 /\ c[1] = "library" /\ c[2] = "/"
  BY <1>1, <1>2
<1>4. c[3] = w
  <2>1. 3 \in 1 .. 2 + 1 /\ ~(3 <= 2) /\ 3 - 2 = 1
    OBVIOUS
  <2>. QED
    BY <1>1, <1>2, <2>1
<1>5. c = <<"library", "/", w>>
  BY <1>3, <1>4
<1>. QED
  BY <1>5 DEF a, b, c

\* The short and the full form of a path say the same.
LEMMA PathForms ==
  ASSUME NEW p, HubPath(p)
  PROVE  /\ HubPath(InFull(p)) /\ Has(InFull(p), "/") /\ InShort(InFull(p)) = InShort(p)
         /\ HubPath(InShort(p)) /\ InFull(InShort(p)) = InFull(p)
         /\ ShortForm(<< <<"docker.io">>, InFull(p)>>) = InShort(p)
<1>1. /\ p \in Seq(Words \cup {"/"}) /\ p[1] \in Words /\ ~HostLike(<<p[1]>>)
      /\ "library" \in Words /\ ~HostLike(<<"library">>) /\ "library" \notin Dotted
  BY HostWord, ReferencesAssumption DEF HubPath, Words
<1>2. ASSUME NEW q, HubPath(q), Has(q, "/")
      PROVE  ShortForm(<< <<"docker.io">>, q>>) = InShort(q)
  <2>1. CASE Len(q) = 3
    <3>1. FirstOf(q, "/") = 2 /\ LastOf(q, "/") = 2 /\ After(q, 2) = <<q[3]>>
      BY <2>1, <1>2, PathParts
    <3>. QED
      BY <2>1, <3>1 DEF ShortForm, InShort
  <2>2. CASE Len(q) # 3
    <3>1. FirstOf(q, "/") = 2 /\ LastOf(q, "/") # 2
      BY <2>2, <1>2, PathParts
    <3>. QED
      BY <2>2, <3>1 DEF ShortForm, InShort
  <2>. QED
    BY <2>1, <2>2
<1>3. CASE Len(p) = 1
  <2>1. p = <<p[1]>> /\ ~Has(p, "/")
    BY <1>3, PathParts
  <2>. DEFINE q == <<"library", "/">> \o p
  <2>2. q \in Seq(Words \cup {"/"}) /\ Len(q) = 3 /\ q[1] = "library" /\ q[2] = "/" /\ q[3] = p[1]
    <3>1. q = <<"library", "/", p[1]>>
      BY <2>1, Official
    <3>. HIDE DEF q
    <3>2. <<"library", "/", p[1]>> \in Seq(Words \cup {"/"})
      BY <1>1
    <3>. QED
      BY <3>1, <3>2
  <2>3. InFull(p) = q
    BY <2>1 DEF InFull
  <2>. HIDE DEF q
  <2>4. HubPath(q)
    BY <1>1, <2>2 DEF HubPath
  <2>5. Has(q, "/")
    BY <2>2, <2>4, PathParts
  <2>6. InShort(q) = p /\ InShort(p) = p
    BY <1>3, <2>1, <2>2 DEF InShort
  <2>7. HubPath(p)
    OBVIOUS
  <2>. QED
    BY <1>2, <2>3, <2>4, <2>5, <2>6, <2>7
<1>4. CASE Len(p) # 1
  <2>1. Has(p, "/") /\ InFull(p) = p
    BY <1>4, PathParts DEF InFull
  <2>2. ShortForm(<< <<"docker.io">>, p>>) = InShort(p)
    BY <1>2, <2>1
  <2>3. CASE Len(p) = 3 /\ p[1] = "library"
    <3>. DEFINE q == <<p[3]>>
    <3>1. p[3] \in Words /\ ~HostLike(<<p[3]>>) /\ p = <<p[1], "/", p[3]>>
      BY <2>3, PathParts DEF HubPath
    <3>2. q \in Seq(Words \cup {"/"}) /\ Len(q) = 1 /\ q[1] = p[3] /\ InShort(p) = q
      BY <2>3, <3>1 DEF InShort
    <3>. HIDE DEF q
    <3>3. HubPath(q)
      BY <3>1, <3>2 DEF HubPath, q
    <3>4. ~Has(q, "/")
      BY <3>2, <3>3, PathParts
    <3>5. InFull(q) = p
      <4>1. p = <<"library", "/", p[3]>>
        BY <2>3, <3>1
      <4>2. <<"library", "/">> \o <<p[3]>> = <<"library", "/", p[3]>>
        BY Official
      <4>. QED
        BY <3>4, <4>1, <4>2 DEF InFull, q
    <3>. QED
      BY <2>1, <2>2, <3>2, <3>3, <3>5
  <2>4. CASE ~(Len(p) = 3 /\ p[1] = "library")
    <3>1. InShort(p) = p
      BY <2>4 DEF InShort
    <3>. QED
      BY <2>1, <2>2, <3>1
  <2>. QED
    BY <2>3, <2>4
<1>. QED
  BY <1>3, <1>4

\* What Familiar makes of a path that is on Docker Hub.
LEMMA Shortened ==
  ASSUME NEW n, NEW h, NEW p, HubPath(p), Split(n) = <<h, p>>, IsHub(h)
  PROVE  Familiar(n) = InShort(p)
<1>1. Len(p) \in Nat
  BY PathParts
<1>. DEFINE official == Len(p) > 2 /\ Upto(p, 2) = <<"library", "/">> /\ ~Has(After(p, 2), "/")
<1>2. Familiar(n) = IF official THEN After(p, 2) ELSE p
  BY DEF Familiar
<1>3. CASE Len(p) = 1
  BY <1>2, <1>3 DEF InShort
<1>4. CASE Len(p) = 3
  <2>1. After(p, 2) = <<p[3]>> /\ ~Has(<<p[3]>>, "/") /\ Upto(p, 2) = <<p[1], "/">>
    BY <1>4, PathParts
  <2>2. official <=> p[1] = "library"
    BY <1>4, <2>1
  <2>. HIDE DEF official
  <2>. QED
    BY <1>2, <1>4, <2>1, <2>2 DEF InShort
<1>5. CASE Len(p) # 1 /\ Len(p) # 3
  <2>1. ~official
    BY <1>5, PathParts
  <2>. QED
    BY <1>2, <1>5, <2>1 DEF InShort
<1>. QED
  BY <1>3, <1>4, <1>5

\* How a name on Docker Hub is read, with the host or without (split_repository, strip_hub, familiar_repository).
LEMMA HubReads ==
  ASSUME NEW n, NEW p, HubName(n, p)
  PROVE  /\ Normal(n) = << <<"docker.io">>, InFull(p)>> /\ StripHub(n) = p /\ Familiar(n) = InShort(p)
         /\ Tagless(n)
<1>1. /\ HubPath(p) /\ p \in Seq(Symbols) /\ Split(p) = << <<"docker.io">>, p>>
      /\ Normal(p) = << <<"docker.io">>, InFull(p)>> /\ p # <<>>
  BY BarePath, PathParts DEF HubName
<1>2. IsHub(<<"docker.io">>)
  BY DEF IsHub, HubHosts
<1>3. Tagless(p)
  BY <1>1, PathParts DEF Tagless, Free
<1>4. CASE n = p
  BY <1>1, <1>2, <1>3, <1>4, Shortened DEF StripHub
<1>5. ASSUME NEW d \in HubHosts, n = <<d>> \o <<"/">> \o p
      PROVE  /\ Normal(n) = << <<"docker.io">>, InFull(p)>> /\ StripHub(n) = p /\ Familiar(n) = InShort(p)
             /\ Tagless(n)
  <2>1. d \in Dotted /\ d \in Words /\ d # "/" /\ d # ":" /\ d # "@" /\ d \in Symbols
    BY ReferencesAssumption DEF Words, Symbols
  <2>2. /\ <<d>> \in Seq(Symbols) /\ Free(<<d>>, "/") /\ Free(<<d>>, ":") /\ Free(<<d>>, "@")
        /\ HostLike(<<d>>) /\ IsHub(<<d>>) /\ "/" \in Symbols
    BY <2>1, HostWord DEF Free, IsHub, Symbols
  <2>. DEFINE h == <<d>>
  <2>. HIDE DEF h
  <2>3. n = h \o <<"/">> \o p /\ h \in Seq(Symbols) /\ Free(h, "/") /\ Free(h, ":") /\ Free(h, "@")
        /\ HostLike(h) /\ IsHub(h)
    BY <1>5, <2>2 DEF h
  <2>4. Split(n) = <<h, p>> /\ Normal(n) = << <<"docker.io">>, InFull(p)>>
    BY <1>1, <2>3, HostAndPath
  <2>5. StripHub(n) = p
    <3>1. Split(n)[1] = h /\ Split(n)[2] = p /\ Split(p)[1] = <<"docker.io">>
      BY <1>1, <2>4
    <3>. QED
      BY <1>1, <1>2, <2>3, <3>1 DEF StripHub
  <2>6. Familiar(n) = InShort(p)
    BY <1>1, <2>3, <2>4, Shortened
  <2>7. Tagless(n)
    <3>1. /\ n \in Seq(Symbols) /\ Len(n) = Len(h) + 1 + Len(p) /\ n[Len(h) + 1] = "/"
          /\ \A i \in 1 .. Len(h) : n[i] = h[i]
          /\ \A i \in 1 .. Len(p) : n[Len(h) + 1 + i] = p[i]
          /\ \A i \in 1 .. Len(n) : i \in 1 .. Len(h) \/ i = Len(h) + 1 \/ i - (Len(h) + 1) \in 1 .. Len(p)
      BY <1>1, <2>2, <2>3, CutAt
    <3>2. Free(p, ":") /\ Free(p, "@") /\ Len(h) \in Nat /\ Len(p) \in Nat
      <4>1. HubPath(p)
        BY <1>1
      <4>2. Free(p, ":") /\ Free(p, "@") /\ Len(p) \in Nat
        BY <4>1, PathParts
      <4>. QED
        BY <2>3, <4>2
    <3>3. ASSUME NEW i \in 1 .. Len(n) PROVE n[i] # ":" /\ n[i] # "@"
      <4>1. CASE i - (Len(h) + 1) \in 1 .. Len(p)
        <5>. DEFINE k == i - (Len(h) + 1)
        <5>1. i = Len(h) + 1 + k
          BY <3>2
        <5>2. n[i] = p[k]
          BY <3>1, <4>1, <5>1
        <5>. QED
          BY <3>2, <4>1, <5>2 DEF Free
      <4>2. CASE i \in 1 .. Len(h)
        BY <2>3, <3>1, <4>2 DEF Free
      <4>3. CASE i = Len(h) + 1
        BY <3>1, <4>3
      <4>. QED
        BY <3>1, <4>1, <4>2, <4>3
    <3>. QED
      BY <3>1, <3>3 DEF Tagless, Free
  <2>. QED
    BY <2>4, <2>5, <2>6, <2>7
<1>. QED
  BY <1>4, <1>5 DEF HubName

IsName(n) == (\E p : HubName(n, p)) \/ \E h, p : ForeignName(n, h, p)

\* How a name on another registry is read.
LEMMA ForeignReads ==
  ASSUME NEW n, NEW h, NEW p, ForeignName(n, h, p)
  PROVE  /\ Split(n) = <<h, p>> /\ Normal(n) = <<h, p>> /\ StripHub(n) = n /\ Familiar(n) = n
         /\ Has(n, "/") /\ Tagless(n)
         /\ h # <<"docker.io">> /\ h # <<"registry-1.docker.io">> /\ n = FullForm(<<h, p>>)
<1>1. {"/", ":", "@", "registry-1.docker.io"} \cap Words = {}
  BY ReferencesAssumption DEF Words
<1>2. /\ h \in Seq(Words \cup {":", "5000"}) /\ HostLike(h) /\ ~IsHub(h)
      /\ p \in Seq(Words \cup {"/"}) /\ p # <<>> /\ n = h \o <<"/">> \o p
  BY DEF ForeignName
<1>3. h \in Seq(Symbols) /\ p \in Seq(Symbols) /\ "/" \in Symbols
  BY <1>2 DEF Symbols
<1>4. Free(h, "/") /\ Free(h, "@") /\ Len(h) \in Nat
  <2>. DEFINE T == Words \cup {":", "5000"}
  <2>1. "/" \notin T /\ "@" \notin T /\ h \in Seq(T)
    BY <1>1, <1>2
  <2>. HIDE DEF T
  <2>2. \A i \in 1 .. Len(h) : h[i] \in T
    BY <2>1
  <2>. QED
    BY <2>1, <2>2 DEF Free
<1>5. Free(p, ":") /\ Free(p, "@") /\ Len(p) \in Nat
  <2>. DEFINE T == Words \cup {"/"}
  <2>1. ":" \notin T /\ "@" \notin T /\ p \in Seq(T)
    BY <1>1, <1>2
  <2>. HIDE DEF T
  <2>2. \A i \in 1 .. Len(p) : p[i] \in T
    BY <2>1
  <2>. QED
    BY <2>1, <2>2 DEF Free
<1>6. h # <<"registry-1.docker.io">> /\ h # <<"docker.io">>
  <2>1. <<"registry-1.docker.io">> \notin Seq(Words \cup {":", "5000"})
    <3>. DEFINE T == Words \cup {":", "5000"}
                w == "registry-1.docker.io"
    <3>1. w \notin T
      BY <1>1
    <3>. HIDE DEF T, w
    <3>2. <<w>> \notin Seq(T)
      <4>1. ASSUME <<w>> \in Seq(T) PROVE FALSE
        <5>1. Len(<<w>>) = 1 /\ <<w>>[1] = w
          OBVIOUS
        <5>2. <<w>>[1] \in T
          BY <4>1, <5>1
        <5>. QED
          BY <3>1, <5>1, <5>2
      <4>. QED
        BY <4>1
    <3>. QED
      BY <3>2 DEF T, w
  <2>. QED
    BY <1>2, <2>1 DEF IsHub, HubHosts
<1>7. Split(n) = <<h, p>> /\ Normal(n) = <<h, p>>
  BY <1>2, <1>3, <1>4, HostAndPath
<1>8. StripHub(n) = n /\ Familiar(n) = n
  <2>1. Split(n)[1] = h
    BY <1>7
  <2>. QED
    BY <1>2, <2>1 DEF StripHub, Familiar
<1>9. /\ n \in Seq(Symbols) /\ Len(n) = Len(h) + 1 + Len(p) /\ n[Len(h) + 1] = "/"
      /\ \A i \in 1 .. Len(h) : n[i] = h[i]
      /\ \A i \in 1 .. Len(p) : n[Len(h) + 1 + i] = p[i]
      /\ \A i \in 1 .. Len(n) : i \in 1 .. Len(h) \/ i = Len(h) + 1 \/ i - (Len(h) + 1) \in 1 .. Len(p)
      /\ Has(n, "/")
  BY <1>2, <1>3, CutAt
<1>10. Tagless(n)
  <2>1. ASSUME NEW i \in 1 .. Len(n)
        PROVE  n[i] # "@" /\ (n[i] = ":" => \E j \in i + 1 .. Len(n) : n[j] = "/")
    <3>1. CASE i - (Len(h) + 1) \in 1 .. Len(p)
      <4>. DEFINE k == i - (Len(h) + 1)
      <4>1. i = Len(h) + 1 + k
        BY <1>4
      <4>2. n[i] = p[k]
        BY <1>9, <3>1, <4>1
      <4>. QED
        BY <1>5, <3>1, <4>2 DEF Free
    <3>2. CASE i \in 1 .. Len(h)
      <4>1. Len(h) + 1 \in i + 1 .. Len(n)
        BY <1>4, <1>5, <1>9, <3>2
      <4>. QED
        BY <1>4, <1>9, <3>2, <4>1 DEF Free
    <3>3. CASE i = Len(h) + 1
      BY <1>9, <3>3
    <3>. QED
      BY <1>9, <3>1, <3>2, <3>3
  <2>. QED
    BY <1>9, <2>1 DEF Tagless, Free
<1>11. n = FullForm(<<h, p>>)
  BY <1>2 DEF FullForm
<1>. QED
  BY <1>6, <1>7, <1>8, <1>9, <1>10, <1>11

\* A path is a name on Docker Hub, short and in full.
LEMMA PathNames ==
  ASSUME NEW p, HubPath(p)
  PROVE  /\ HubName(InShort(p), InShort(p)) /\ HubName(InFull(p), InFull(p))
         /\ HubName(FullForm(<< <<"docker.io">>, InFull(p)>>), InFull(p))
  BY PathForms DEF HubName, FullForm, HubHosts

\* Names read alike by one reading are read alike by the other.
LEMMA Alike ==
  ASSUME NEW v, NEW n, IsName(v), IsName(n)
  PROVE  Familiar(v) = Familiar(n) <=> Normal(v) = Normal(n)
<1>1. ASSUME NEW p, HubName(v, p), NEW q, HubName(n, q)
      PROVE  Familiar(v) = Familiar(n) <=> Normal(v) = Normal(n)
  <2>1. /\ Familiar(v) = InShort(p) /\ Familiar(n) = InShort(q)
        /\ Normal(v) = << <<"docker.io">>, InFull(p)>> /\ Normal(n) = << <<"docker.io">>, InFull(q)>>
    BY <1>1, HubReads
  <2>2. /\ InFull(InShort(p)) = InFull(p) /\ InShort(InFull(p)) = InShort(p)
        /\ InFull(InShort(q)) = InFull(q) /\ InShort(InFull(q)) = InShort(q)
    BY <1>1, PathForms DEF HubName
  <2>3. Normal(v) = Normal(n) <=> InFull(p) = InFull(q)
    BY <2>1
  <2>. QED
    BY <2>1, <2>2, <2>3
<1>2. ASSUME NEW a, NEW b, NEW p, HubName(a, p), NEW h, NEW q, ForeignName(b, h, q)
      PROVE  Familiar(a) # Familiar(b) /\ Normal(a) # Normal(b)
  <2>1. /\ Familiar(a) = InShort(p) /\ Normal(a) = << <<"docker.io">>, InFull(p)>> /\ HubPath(p)
    BY <1>2, HubReads DEF HubName
  <2>2. Familiar(b) = b /\ Normal(b) = <<h, q>> /\ h # <<"docker.io">>
    BY <1>2, ForeignReads
  <2>3. Normal(InShort(p)) = << <<"docker.io">>, InFull(InShort(p))>>
    BY <2>1, PathNames, HubReads
  <2>4. \A x, y : <<h, q>> # << <<"docker.io">>, x>>
    BY <2>2
  <2>. QED
    BY <2>1, <2>2, <2>3, <2>4
<1>3. ASSUME NEW g, NEW p, ForeignName(v, g, p), NEW h, NEW q, ForeignName(n, h, q)
      PROVE  Familiar(v) = Familiar(n) <=> Normal(v) = Normal(n)
  <2>1. Familiar(v) = v /\ Familiar(n) = n /\ Normal(v) = <<g, p>> /\ Normal(n) = <<h, q>>
        /\ v = FullForm(<<g, p>>) /\ n = FullForm(<<h, q>>)
    BY <1>3, ForeignReads
  <2>. QED
    BY <2>1
<1>. QED
  BY <1>1, <1>2, <1>3 DEF IsName

\* The name in full, as it is asked for and pulled.
FullName(n) == IF Has(StripHub(n), "/") THEN StripHub(n) ELSE <<"library", "/">> \o StripHub(n)

\* The name in full is a name, read as the one it came from.
LEMMA FullNames ==
  ASSUME NEW n, IsName(n)
  PROVE  /\ Tagless(n) /\ IsName(FullName(n)) /\ Normal(FullName(n)) = Normal(n)
         /\ Split(FullName(n)) = Normal(n) /\ CanonicalHost(Normal(n)[1]) = Normal(n)[1]
         /\ FullName(n) \in Seq(Symbols) /\ Free(FullName(n), "@")
<1>1. ASSUME NEW p, HubName(n, p)
      PROVE  /\ Tagless(n) /\ HubName(FullName(n), InFull(p)) /\ FullName(n) = InFull(p)
             /\ Normal(FullName(n)) = Normal(n)
             /\ Split(FullName(n)) = Normal(n) /\ CanonicalHost(Normal(n)[1]) = Normal(n)[1]
  <2>1. /\ Normal(n) = << <<"docker.io">>, InFull(p)>> /\ StripHub(n) = p /\ Tagless(n) /\ HubPath(p)
    BY <1>1, HubReads DEF HubName
  <2>2. FullName(n) = InFull(p)
    BY <2>1 DEF FullName, InFull
  <2>3. /\ HubPath(InFull(p)) /\ HubName(InFull(p), InFull(p)) /\ InFull(InFull(p)) = InFull(p)
    BY <2>1, PathForms, PathNames DEF InFull
  <2>4. /\ Split(InFull(p)) = << <<"docker.io">>, InFull(p)>>
        /\ Normal(InFull(p)) = << <<"docker.io">>, InFull(InFull(p))>>
    BY <2>3, BarePath
  <2>5. CanonicalHost(<<"docker.io">>) = <<"docker.io">>
    BY DEF CanonicalHost, IsHub, HubHosts
  <2>6. Normal(n)[1] = <<"docker.io">>
    BY <2>1
  <2>. QED
    BY <2>1, <2>2, <2>3, <2>4, <2>5, <2>6
<1>2. ASSUME NEW h, NEW p, ForeignName(n, h, p)
      PROVE  /\ Tagless(n) /\ FullName(n) = n
             /\ Split(FullName(n)) = Normal(n) /\ CanonicalHost(Normal(n)[1]) = Normal(n)[1]
  <2>1. /\ Split(n) = <<h, p>> /\ Normal(n) = <<h, p>> /\ StripHub(n) = n /\ Has(n, "/") /\ Tagless(n)
        /\ h # <<"registry-1.docker.io">> /\ ~IsHub(h)
    BY <1>2, ForeignReads DEF ForeignName
  <2>2. FullName(n) = n
    BY <2>1 DEF FullName
  <2>3. CanonicalHost(h) = h /\ Normal(n)[1] = h
    BY <2>1 DEF CanonicalHost
  <2>. QED
    BY <2>1, <2>2, <2>3
<1>3. IsName(FullName(n)) /\ Normal(FullName(n)) = Normal(n)
  BY <1>1, <1>2 DEF IsName
<1>4. Tagless(FullName(n))
  BY <1>3, HubReads, ForeignReads DEF IsName
<1>. QED
  BY <1>1, <1>2, <1>3, <1>4 DEF IsName, Tagless

\* Names are the same in full when Docker reads them the same.
LEMMA FullAlike ==
  ASSUME NEW v, NEW n, IsName(v), IsName(n)
  PROVE  FullName(v) = FullName(n) <=> Normal(v) = Normal(n)
<1>1. FullName(v) = FullName(n) => Normal(v) = Normal(n)
  BY FullNames
<1>2. ASSUME NEW a, IsName(a)
      PROVE  FullName(a) = IF Normal(a)[1] = <<"docker.io">> THEN Normal(a)[2] ELSE FullForm(Normal(a))
  <2>1. ASSUME NEW p, HubName(a, p) PROVE FullName(a) = Normal(a)[2] /\ Normal(a)[1] = <<"docker.io">>
    <3>1. Normal(a) = << <<"docker.io">>, InFull(p)>> /\ StripHub(a) = p
      BY <2>1, HubReads
    <3>2. FullName(a) = InFull(p)
      BY <3>1 DEF FullName, InFull
    <3>. QED
      BY <3>1, <3>2
  <2>2. ASSUME NEW h, NEW p, ForeignName(a, h, p)
        PROVE  FullName(a) = FullForm(Normal(a)) /\ Normal(a)[1] # <<"docker.io">>
    <3>1. Normal(a) = <<h, p>> /\ StripHub(a) = a /\ Has(a, "/") /\ h # <<"docker.io">>
          /\ a = FullForm(<<h, p>>)
      BY <2>2, ForeignReads
    <3>2. Normal(a)[1] = h
      BY <3>1
    <3>. QED
      BY <3>1, <3>2 DEF FullName
  <2>. QED
    BY <1>2, <2>1, <2>2 DEF IsName
<1>. QED
  BY <1>1, <1>2

\* Two segments joined, word by word.
LEMMA Three ==
  ASSUME NEW x, NEW y
  PROVE  Joined(<<x>>, <<y>>) = <<x, "/", y>>
<1>. DEFINE S == {x, "/", y}
            a == <<x>>
            b == <<y>>
            c == a \o <<"/">> \o b
<1>1. /\ a \in Seq(S) /\ b \in Seq(S) /\ "/" \in S /\ Len(a) = 1 /\ Len(b) = 1
      /\ a[1] = x /\ b[1] = y
  OBVIOUS
<1>. HIDE DEF S, a, b
<1>2. /\ c \in Seq(S) /\ Len(c) = Len(a) + 1 + Len(b) /\ c[Len(a) + 1] = "/"
      /\ \A i \in 1 .. Len(a) : c[i] = a[i]
      /\ \A i \in 1 .. Len(b) : c[Len(a) + 1 + i] = b[i]
  BY <1>1, CutAt
<1>. HIDE DEF c
<1>3. c \in Seq(S) /\ Len(c) = 3 /\ c[1] = x /\ c[2] = "/"
  BY <1>1, <1>2
<1>4. c[3] = y
  <2>1. 1 \in 1 .. 1 /\ 1 + 1 + 1 = 3
    OBVIOUS
  <2>. QED
    BY <1>1, <1>2, <2>1
<1>5. c = <<x, "/", y>>
  BY <1>3, <1>4
<1>. QED
  BY <1>5 DEF a, b, c, Joined

\* Three segments joined, word by word.
LEMMA Five ==
  ASSUME NEW x, NEW y, NEW z
  PROVE  Joined(<<x>>, <<y, "/", z>>) = <<x, "/", y, "/", z>>
<1>. DEFINE S == {x, "/", y, z}
            a == <<x>>
            b == <<y, "/", z>>
            c == a \o <<"/">> \o b
<1>0. a \in Seq(S) /\ b \in Seq(S) /\ "/" \in S
  OBVIOUS
<1>1. /\ Len(a) = 1 /\ Len(b) = 3
      /\ a[1] = x /\ b[1] = y /\ b[2] = "/" /\ b[3] = z
  OBVIOUS
<1>. HIDE DEF S, a, b
<1>2. /\ c \in Seq(S) /\ Len(c) = Len(a) + 1 + Len(b) /\ c[Len(a) + 1] = "/"
      /\ \A i \in 1 .. Len(a) : c[i] = a[i]
      /\ \A i \in 1 .. Len(b) : c[Len(a) + 1 + i] = b[i]
  BY <1>0, CutAt
<1>. HIDE DEF c
<1>3. c \in Seq(S) /\ Len(c) = 5 /\ c[1] = x /\ c[2] = "/"
  BY <1>1, <1>2
<1>4. c[3] = y /\ c[4] = "/" /\ c[5] = z
  <2>1. {1, 2, 3} \subseteq 1 .. 3 /\ 1 + 1 + 1 = 3 /\ 1 + 1 + 2 = 4 /\ 1 + 1 + 3 = 5
    OBVIOUS
  <2>2. \A i \in 1 .. 3 : c[1 + 1 + i] = b[i]
    BY <1>1, <1>2
  <2>3. c[1 + 1 + 1] = b[1] /\ c[1 + 1 + 2] = b[2] /\ c[1 + 1 + 3] = b[3]
    BY <2>1, <2>2
  <2>. QED
    BY <1>1, <2>1, <2>3
<1>5. c = <<x, "/", y, "/", z>>
  BY <1>3, <1>4
<1>. QED
  BY <1>5 DEF a, b, c, Joined

Shapes ==
  Segments
  \cup {Joined(a, b) : a \in Segments \cup Ported, b \in Segments}
  \cup {Joined(a, Joined(b, c)) : a \in Segments \cup Ported, b \in Segments, c \in Segments}

\* The host of a name: a word with a dot, localhost, or one with a port.
LEMMA Hosts ==
  ASSUME NEW a \in Segments \cup Ported
  PROVE  /\ a \in Seq(Words \cup {":", "5000"}) /\ a \in Seq(Symbols) /\ Free(a, "/")
         /\ \/ \E x \in Words : a = <<x>>
            \/ HostLike(a) /\ ~IsHub(a)
         /\ IsHub(a) => \E d \in HubHosts : a = <<d>>
<1>1. {"/", ":", "@"} \cap Words = {} /\ "localhost" \in Words
  BY ReferencesAssumption DEF Words
<1>2. CASE a \in Segments
  <2>1. PICK x \in Words : a = <<x>>
    BY <1>2 DEF Segments, Words
  <2>. QED
    BY <1>1, <2>1 DEF Symbols, Free, IsHub
<1>3. CASE a \in Ported
  <2>1. a = <<"localhost", ":", "5000">>
    BY <1>3 DEF Ported
  <2>2. Len(a) = 3 /\ a[1] = "localhost" /\ a[2] = ":" /\ a[3] = "5000"
    BY <2>1
  <2>3. a \in Seq(Words \cup {":", "5000"})
    BY <1>1, <2>1
  <2>4. a \in Seq(Symbols)
    BY <1>1, <2>1 DEF Symbols
  <2>5. Free(a, "/")
    BY <2>2 DEF Free
  <2>6. HostLike(a)
    <3>1. 2 \in DOMAIN a
      BY <2>1
    <3>. QED
      BY <2>2, <3>1 DEF HostLike, Has, Positions
  <2>7. ~IsHub(a)
    <3>1. \A w : Len(<<w>>) = 1
      OBVIOUS
    <3>. QED
      BY <2>2, <3>1 DEF IsHub
  <2>. QED
    BY <2>3, <2>4, <2>5, <2>6, <2>7
<1>. QED
  BY <1>2, <1>3

\* A repository is a name, and on Docker Hub so is its path, in full.
LEMMA RepositoryNames ==
  ASSUME NEW n \in Repositories
  PROVE  /\ IsName(n)
         /\ \A p : HubName(n, p) => InFull(p) \in Repositories
<1>1. n \in Shapes /\ Proper(n) /\ \A m : m \in Repositories <=> m \in Shapes /\ Proper(m)
  BY DEF Repositories, Shapes
<1>2. {"/", ":", "@"} \cap Words = {} /\ "library" \in Words
  BY ReferencesAssumption DEF Words
<1>3. \A w \in Words : <<w>> \in Segments /\ <<w>> \in Seq(Words \cup {"/"}) /\ <<w>> # <<>>
  BY DEF Segments, Words
<1>. DEFINE Whose(p) == HubName(n, p) /\ InFull(p) \in Shapes
<1>4. ASSUME NEW p, Whose(p) PROVE IsName(n) /\ \A q : HubName(n, q) => InFull(q) \in Repositories
  <2>1. Normal(n) = << <<"docker.io">>, InFull(p)>> /\ StripHub(n) = p
    BY <1>4, HubReads
  <2>2. Normal(InFull(p)) = Normal(n)
    BY <1>4, <2>1, PathForms, BarePath DEF HubName, InFull
  <2>3. Proper(InFull(p))
    BY <1>1, <2>2 DEF Proper, OnHub
  <2>4. \A q : HubName(n, q) => q = p
    BY <2>1, HubReads
  <2>. QED
    BY <1>1, <1>4, <2>3, <2>4 DEF IsName
<1>5. ASSUME NEW h, NEW p, ForeignName(n, h, p)
      PROVE IsName(n) /\ \A q : HubName(n, q) => InFull(q) \in Repositories
  <2>1. ASSUME NEW q, HubName(n, q) PROVE FALSE
    <3>1. Normal(n) = << <<"docker.io">>, InFull(q)>>
      BY <2>1, HubReads
    <3>2. Normal(n) = <<h, p>> /\ h # <<"docker.io">>
      BY <1>5, ForeignReads
    <3>. QED
      BY <3>1, <3>2
  <2>. QED
    BY <1>5, <2>1 DEF IsName
<1>6. \A m : Normal(n) = << <<"docker.io">>, m>> => m # <<>> /\ ~HostLike(<<m[1]>>) /\ ~HostLike(After(m, LastOf(m, "/")))
  BY <1>1 DEF Proper, OnHub
<1>. HIDE DEF Whose
\* After three words, the last of them is behind the last slash.
<1>7. ASSUME NEW x \in Words, NEW y \in Words
      PROVE  LET m == <<x, "/", y>> IN /\ LastOf(m, "/") = 2 /\ After(m, 2) = <<y>> /\ Has(m, "/") /\ FirstOf(m, "/") = 2
                                       /\ Upto(m, 1) = <<x>> /\ m \in Seq(Words \cup {"/"})
  <2>. DEFINE a == <<x>>
              b == <<y>>
              m == a \o <<"/">> \o b
              T == Words \cup {"/"}
  <2>1. a \in Seq(T) /\ b \in Seq(T) /\ "/" \in T /\ Len(a) = 1 /\ Free(a, "/") /\ Free(b, "/")
    BY <1>2 DEF Free
  <2>. HIDE DEF a, b, T
  <2>2. /\ m \in Seq(T) /\ Upto(m, Len(a)) = a /\ After(m, Len(a) + 1) = b
        /\ FirstOf(m, "/") = Len(a) + 1 /\ LastOf(m, "/") = Len(a) + 1 /\ Has(m, "/")
    BY <2>1, CutAt
  <2>. HIDE DEF m
  <2>3. /\ m \in Seq(T) /\ Upto(m, 1) = a /\ After(m, 2) = b
        /\ FirstOf(m, "/") = 2 /\ LastOf(m, "/") = 2 /\ Has(m, "/")
    BY <2>1, <2>2
  <2>4. m = <<x, "/", y>>
    BY Three DEF Joined, a, b, m
  <2>. QED
    BY <2>3, <2>4 DEF a, b, T
<1>8. ASSUME NEW w \in Words, n = <<w>> PROVE IsName(n) /\ \A q : HubName(n, q) => InFull(q) \in Repositories
  <2>1. FirstOf(n, "/") = 0 /\ ~Has(n, "/")
    <3>1. n \in Seq(Words) /\ Free(n, "/")
      BY <1>2, <1>8 DEF Free
    <3>. QED
      BY <3>1, PlaceNone
  <2>2. Normal(n) = << <<"docker.io">>, <<"library", "/", w>>>>
    <3>1. ~(FirstOf(n, "/") > 0) /\ <<"library", "/">> \o n = <<"library", "/", w>>
      BY <1>8, <2>1, Official
    <3>. QED
      BY <2>1, <3>1 DEF Normal
  <2>3. ~HostLike(<<w>>)
    BY <1>2, <1>6, <1>7, <2>2
  <2>4. HubPath(n)
    <3>1. n \in Seq(Words \cup {"/"}) /\ Len(n) = 1 /\ n[1] = w
      BY <1>8
    <3>. QED
      BY <2>3, <3>1 DEF HubPath
  <2>5. InFull(n) \in Shapes
    <3>1. InFull(n) = Joined(<<"library">>, <<w>>)
      BY <1>8, <2>1, Official, Three DEF InFull
    <3>. QED
      BY <1>2, <1>3, <3>1 DEF Shapes
  <2>6. Whose(n)
    BY <2>4, <2>5 DEF Whose, HubName
  <2>. QED
    BY <1>4, <2>6
<1>9. ASSUME NEW a \in Segments \cup Ported, HostLike(a), NEW p \in Seq(Words \cup {"/"}), p # <<>>,
             n = Joined(a, p), IsHub(a) => HubPath(p) /\ InFull(p) \in Shapes
      PROVE IsName(n) /\ \A q : HubName(n, q) => InFull(q) \in Repositories
  <2>1. CASE IsHub(a)
    <3>1. PICK d \in HubHosts : a = <<d>>
      BY <2>1, Hosts
    <3>2. Whose(p)
      BY <1>9, <2>1, <3>1 DEF Whose, HubName, Joined
    <3>. QED
      BY <1>4, <3>2
  <2>2. CASE ~IsHub(a)
    <3>1. ForeignName(n, a, p)
      BY <1>9, <2>2, Hosts DEF ForeignName, Joined
    <3>. QED
      BY <1>5, <3>1
  <2>. QED
    BY <2>1, <2>2
\* What a host of Docker Hub leaves for the path.
<1>10. ASSUME NEW a \in Segments \cup Ported, HostLike(a), IsHub(a), NEW p \in Seq(Words \cup {"/"}), n = Joined(a, p)
       PROVE  Normal(n) = << <<"docker.io">>, InFull(p)>>
  <2>1. a \in Seq(Symbols) /\ Free(a, "/") /\ p \in Seq(Symbols)
    BY Hosts DEF Symbols
  <2>. QED
    BY <1>10, <2>1, HostAndPath DEF Joined
<1>11. ASSUME NEW a \in Segments \cup Ported, NEW y \in Words, n = Joined(a, <<y>>)
       PROVE IsName(n) /\ \A q : HubName(n, q) => InFull(q) \in Repositories
  <2>1. ~Has(<<y>>, "/") /\ InFull(<<y>>) = <<"library", "/", y>>
    <3>1. Free(<<y>>, "/") /\ <<y>> \in Seq(Words)
      BY <1>2 DEF Free
    <3>. QED
      BY <3>1, PlaceNone, Official DEF InFull
  <2>2. CASE HostLike(a)
    <3>1. ASSUME IsHub(a) PROVE HubPath(<<y>>) /\ InFull(<<y>>) \in Shapes
      <4>1. Normal(n) = << <<"docker.io">>, <<"library", "/", y>>>>
        BY <1>3, <1>10, <1>11, <2>1, <2>2, <3>1
      <4>2. ~HostLike(<<y>>)
        BY <1>2, <1>6, <1>7, <4>1
      <4>3. Len(<<y>>) = 1 /\ <<y>>[1] = y
        OBVIOUS
      <4>4. InFull(<<y>>) = Joined(<<"library">>, <<y>>)
        BY <2>1, Three
      <4>. QED
        BY <1>2, <1>3, <4>2, <4>3, <4>4 DEF HubPath, Shapes
    <3>. QED
      BY <1>3, <1>9, <1>11, <2>2, <3>1
  <2>3. CASE ~HostLike(a)
    <3>1. PICK x \in Words : a = <<x>>
      BY <2>3, Hosts
    <3>2. n = <<x, "/", y>>
      BY <1>11, <3>1, Three
    <3>3. Normal(n) = << <<"docker.io">>, n>>
      <4>1. FirstOf(n, "/") = 2 /\ Upto(n, 2 - 1) = a /\ Has(n, "/")
        BY <1>7, <3>1, <3>2
      <4>. QED
        BY <2>3, <4>1 DEF Normal
    <3>4. ~HostLike(<<y>>)
      BY <1>6, <1>7, <3>2, <3>3
    <3>5. HubPath(n)
      <4>1. n \in Seq(Words \cup {"/"}) /\ Len(n) = 3 /\ n[1] = x /\ n[2] = "/" /\ n[3] = y
        BY <1>7, <3>2
      <4>. QED
        BY <2>3, <3>1, <3>4, <4>1 DEF HubPath
    <3>6. Whose(n)
      BY <1>1, <1>7, <3>2, <3>5 DEF Whose, HubName, InFull
    <3>. QED
      BY <1>4, <3>6
  <2>. QED
    BY <2>2, <2>3
<1>12. ASSUME NEW a \in Segments \cup Ported, NEW y \in Words, NEW z \in Words, n = Joined(a, Joined(<<y>>, <<z>>))
       PROVE IsName(n) /\ \A q : HubName(n, q) => InFull(q) \in Repositories
  <2>. DEFINE p == <<y, "/", z>>
  <2>1. /\ p \in Seq(Words \cup {"/"}) /\ p # <<>> /\ Len(p) = 3 /\ p[1] = y /\ p[2] = "/" /\ p[3] = z
        /\ Has(p, "/") /\ LastOf(p, "/") = 2 /\ After(p, 2) = <<z>>
    BY <1>7
  <2>2. n = Joined(a, p) /\ p = Joined(<<y>>, <<z>>)
    BY <1>12, Three
  <2>. HIDE DEF p
  <2>3. InFull(p) = p /\ p \in Shapes
    BY <1>3, <2>1, <2>2 DEF InFull, Shapes
  <2>4. CASE HostLike(a)
    <3>1. ASSUME IsHub(a) PROVE HubPath(p) /\ InFull(p) \in Shapes
      <4>1. Normal(n) = << <<"docker.io">>, p>>
        BY <1>10, <2>1, <2>2, <2>3, <2>4, <3>1
      <4>2. ~HostLike(<<y>>) /\ ~HostLike(<<z>>)
        BY <1>6, <2>1, <4>1
      <4>. QED
        BY <2>1, <2>3, <4>2 DEF HubPath
    <3>. QED
      BY <1>9, <2>1, <2>2, <2>4, <3>1
  <2>5. CASE ~HostLike(a)
    <3>1. PICK x \in Words : a = <<x>>
      BY <2>5, Hosts
    <3>2. n = <<x, "/", y, "/", z>>
      BY <2>2, <3>1, Five DEF p
    <3>3. HubPath(n)
      <4>1. n \in Seq(Words \cup {"/"}) /\ Len(n) = 5 /\ n[1] = x /\ n[2] = "/" /\ n[4] = "/"
        BY <3>2
      <4>. QED
        BY <2>5, <3>1, <4>1 DEF HubPath
    <3>4. Has(n, "/")
      <4>1. Len(n) # 1
        BY <3>2
      <4>2. Has(n, "/") <=> Len(n) # 1
        BY <3>3, PathParts
      <4>. QED
        BY <4>1, <4>2
    <3>5. Whose(n)
      BY <1>1, <3>3, <3>4 DEF Whose, HubName, InFull
    <3>. QED
      BY <1>4, <3>5
  <2>. QED
    BY <2>4, <2>5
<1>13. \A b \in Segments : \E w \in Words : b = <<w>>
  BY DEF Segments, Words
<1>14. n \in Segments \/ (\E a \in Segments \cup Ported, b \in Segments : n = Joined(a, b))
       \/ \E a \in Segments \cup Ported, b \in Segments, c \in Segments : n = Joined(a, Joined(b, c))
  BY <1>1 DEF Shapes
<1>15. CASE n \in Segments
  BY <1>8, <1>13, <1>15
<1>16. CASE \E a \in Segments \cup Ported, b \in Segments : n = Joined(a, b)
  BY <1>11, <1>13, <1>16
<1>17. CASE \E a \in Segments \cup Ported, b \in Segments, c \in Segments : n = Joined(a, Joined(b, c))
  <2>1. PICK a \in Segments \cup Ported, b \in Segments, c \in Segments : n = Joined(a, Joined(b, c))
    BY <1>17
  <2>2. PICK y \in Words : b = <<y>>
    BY <1>13
  <2>3. PICK z \in Words : c = <<z>>
    BY <1>13
  <2>. QED
    BY <1>12, <2>1, <2>2, <2>3
<1>. QED
  BY <1>14, <1>15, <1>16, <1>17

\* Two words put together.
LEMMA Pair ==
  ASSUME NEW x, NEW y
  PROVE  <<x>> \o <<y>> = <<x, y>>
<1>. DEFINE S == {x, y}
            a == <<x>>
            b == <<y>>
            c == a \o b
<1>1. a \in Seq(S) /\ b \in Seq(S) /\ Len(a) = 1 /\ Len(b) = 1 /\ a[1] = x /\ b[1] = y
  OBVIOUS
<1>. HIDE DEF S, a, b
<1>2. /\ c \in Seq(S) /\ Len(c) = Len(a) + Len(b)
      /\ \A i \in 1 .. Len(a) + Len(b) : c[i] = IF i <= Len(a) THEN a[i] ELSE b[i - Len(a)]
  BY <1>1, ConcatProperties, Zenon
<1>. HIDE DEF c
<1>3. c \in Seq(S) /\ Len(c) = 2 /\ c[1] = x
  BY <1>1, <1>2
<1>4. c[2] = y
  <2>1. 2 \in 1 .. 1 + 1 /\ ~(2 <= 1) /\ 2 - 1 = 1
    OBVIOUS
  <2>. QED
    BY <1>1, <1>2, <2>1
<1>5. c = <<x, y>>
  BY <1>3, <1>4
<1>. QED
  BY <1>5 DEF a, b, c

\* The elements of two texts put together.
LEMMA PutTogether ==
  ASSUME NEW a \in Seq(Symbols), NEW b \in Seq(Symbols)
  PROVE  /\ a \o b \in Seq(Symbols) /\ Len(a \o b) = Len(a) + Len(b)
         /\ \A i \in 1 .. Len(a) : (a \o b)[i] = a[i]
         /\ \A i \in 1 .. Len(a \o b) : i \in 1 .. Len(a) \/ (i - Len(a) \in 1 .. Len(b) /\ (a \o b)[i] = b[i - Len(a)])
         /\ \A i \in 1 .. Len(b) : (a \o b)[Len(a) + i] = b[i]
<1>. DEFINE c == a \o b
<1>1. Len(a) \in Nat /\ Len(b) \in Nat
  OBVIOUS
<1>2. /\ c \in Seq(Symbols) /\ Len(c) = Len(a) + Len(b)
      /\ \A i \in 1 .. Len(a) + Len(b) : c[i] = IF i <= Len(a) THEN a[i] ELSE b[i - Len(a)]
  BY ConcatProperties, Zenon
<1>. HIDE DEF c
<1>3. \A i \in 1 .. Len(b) : c[Len(a) + i] = b[i]
  <2>1. ASSUME NEW i \in 1 .. Len(b) PROVE c[Len(a) + i] = b[i]
    <3>. DEFINE k == Len(a) + i
    <3>1. k \in 1 .. Len(a) + Len(b) /\ ~(k <= Len(a)) /\ k - Len(a) = i
      BY <1>1
    <3>. QED
      BY <1>2, <3>1
  <2>. QED
    BY <2>1
<1>4. \A i \in 1 .. Len(c) : i \in 1 .. Len(a) \/ (i - Len(a) \in 1 .. Len(b) /\ c[i] = b[i - Len(a)])
  BY <1>1, <1>2
<1>. QED
  BY <1>1, <1>2, <1>3, <1>4 DEF c

\* What occurs in neither of two texts does not occur in both put together.
LEMMA FreeParts ==
  ASSUME NEW a \in Seq(Symbols), NEW b \in Seq(Symbols), NEW w, Free(a, w), Free(b, w)
  PROVE  Free(a \o b, w)
<1>. DEFINE c == a \o b
<1>1. /\ \A i \in 1 .. Len(a) : c[i] = a[i]
      /\ \A i \in 1 .. Len(c) : i \in 1 .. Len(a) \/ (i - Len(a) \in 1 .. Len(b) /\ c[i] = b[i - Len(a)])
  BY PutTogether
<1>. HIDE DEF c
<1>2. Free(c, w)
  BY <1>1 DEF Free
<1>. QED
  BY <1>2 DEF c

\* Without a colon behind a tagless name there is no tag.
LEMMA NoTag ==
  ASSUME NEW n, Tagless(n), NEW u \in Seq(Symbols), Free(u, ":")
  PROVE  TagColon(n \o u) = 0 /\ StripTag(n \o u) = n \o u
<1>. DEFINE s == n \o u
<1>1. /\ n \in Seq(Symbols) /\ s \in Seq(Symbols) /\ Len(s) = Len(n) + Len(u) /\ Len(n) \in Nat /\ Len(u) \in Nat
      /\ \A i \in 1 .. Len(n) : s[i] = n[i]
      /\ \A i \in 1 .. Len(s) : i \in 1 .. Len(n) \/ (i - Len(n) \in 1 .. Len(u) /\ s[i] = u[i - Len(n)])
  BY PutTogether DEF Tagless
<1>2. \A i \in 1 .. Len(n) : n[i] = ":" => \E j \in i + 1 .. Len(n) : n[j] = "/"
  BY DEF Tagless
<1>. HIDE DEF s
<1>3. CASE Free(s, ":")
  <2>1. LastOf(s, ":") = 0
    BY <1>1, <1>3, PlaceNone
  <2>2. LastOf(s, "/") \in Nat
    <3>1. CASE Free(s, "/")
      BY <1>1, <3>1, PlaceNone
    <3>2. CASE ~Free(s, "/")
      BY <1>1, <3>2, LastPlace
    <3>. QED
      BY <3>1, <3>2
  <2>. QED
    BY <2>1, <2>2 DEF TagColon, StripTag, s
<1>4. CASE ~Free(s, ":")
  <2>. DEFINE i == LastOf(s, ":")
  <2>1. i \in 1 .. Len(s) /\ s[i] = ":"
    BY <1>1, <1>4, LastPlace
  <2>. HIDE DEF i
  <2>2. i \in 1 .. Len(n) /\ n[i] = ":"
    BY <1>1, <2>1 DEF Free
  <2>3. PICK j \in i + 1 .. Len(n) : n[j] = "/"
    BY <1>2, <2>2
  <2>4. j \in 1 .. Len(s) /\ s[j] = "/" /\ i < j
    BY <1>1, <2>2, <2>3
  <2>5. LastOf(s, "/") \in Nat /\ j <= LastOf(s, "/")
    <3>1. ~Free(s, "/")
      BY <2>4 DEF Free
    <3>2. LastOf(s, "/") \in 1 .. Len(s) /\ \A k \in 1 .. Len(s) : s[k] = "/" => k <= LastOf(s, "/")
      BY <1>1, <3>1, LastPlace
    <3>. QED
      BY <2>4, <3>2
  <2>6. ~(i > LastOf(s, "/"))
    BY <2>1, <2>4, <2>5
  <2>. QED
    BY <2>6 DEF TagColon, StripTag, s, i
<1>. QED
  BY <1>3, <1>4

\* The colon behind a tagless name is that of its tag.
LEMMA WithTag ==
  ASSUME NEW n, Tagless(n), NEW u \in Seq(Symbols), Free(u, ":"), Free(u, "/")
  PROVE  LET c == n \o <<":">> \o u
         IN /\ TagColon(c) = Len(n) + 1 /\ Len(n) \in Nat /\ StripTag(c) = n /\ After(c, TagColon(c)) = u
<1>. DEFINE c == n \o <<":">> \o u
<1>1. /\ n \in Seq(Symbols) /\ ":" \in Symbols /\ Len(n) \in Nat /\ Len(u) \in Nat
  BY DEF Tagless, Symbols
<1>2. /\ c \in Seq(Symbols) /\ Len(c) = Len(n) + 1 + Len(u) /\ c[Len(n) + 1] = ":"
      /\ \A i \in 1 .. Len(u) : c[Len(n) + 1 + i] = u[i]
      /\ \A i \in 1 .. Len(c) : i \in 1 .. Len(n) \/ i = Len(n) + 1 \/ i - (Len(n) + 1) \in 1 .. Len(u)
      /\ Upto(c, Len(n)) = n /\ After(c, Len(n) + 1) = u /\ LastOf(c, ":") = Len(n) + 1
  BY <1>1, CutAt
<1>. HIDE DEF c
<1>3. LastOf(c, "/") \in Nat /\ LastOf(c, "/") <= Len(n)
  <2>1. CASE Free(c, "/")
    BY <1>1, <1>2, <2>1, PlaceNone
  <2>2. CASE ~Free(c, "/")
    <3>. DEFINE i == LastOf(c, "/")
    <3>1. i \in 1 .. Len(c) /\ c[i] = "/"
      BY <1>2, <2>2, LastPlace
    <3>. HIDE DEF i
    <3>2. ASSUME i - (Len(n) + 1) \in 1 .. Len(u) PROVE FALSE
      <4>. DEFINE k == i - (Len(n) + 1)
      <4>1. i = Len(n) + 1 + k
        BY <1>1, <3>1
      <4>2. c[i] = u[k]
        BY <1>2, <3>2, <4>1
      <4>. QED
        BY <3>1, <3>2, <4>2 DEF Free
    <3>3. i \in 1 .. Len(n)
      BY <1>2, <3>1, <3>2
    <3>. QED
      BY <1>1, <3>3 DEF i
  <2>. QED
    BY <2>1, <2>2
<1>4. TagColon(c) = Len(n) + 1
  BY <1>1, <1>2, <1>3 DEF TagColon
<1>5. StripTag(c) = n
  <2>1. Len(n) + 1 # 0 /\ (Len(n) + 1) - 1 = Len(n)
    BY <1>1
  <2>. QED
    BY <1>2, <1>4, <2>1 DEF StripTag
<1>. QED
  BY <1>1, <1>2, <1>4, <1>5 DEF c

\* There is a first place of every word that occurs.
LEMMA FirstPlace ==
  ASSUME NEW S, NEW s \in Seq(S), NEW w, ~Free(s, w)
  PROVE  FirstOf(s, w) \in 1 .. Len(s) /\ s[FirstOf(s, w)] = w
<1>. DEFINE P == {i \in 1 .. Len(s) : s[i] = w}
<1>1. P # {} /\ P \in SUBSET Nat
  BY DEF Free
<1>. HIDE DEF P
<1>2. PICK i \in P : \A m \in P : i <= m
  BY <1>1, LeastNat
<1>3. i \in 1 .. Len(s) /\ s[i] = w /\ \A j \in 1 .. i - 1 : s[j] # w
  BY <1>2 DEF P
<1>. QED
  BY <1>3, PlaceFirst

\* A digest is not lost with the host, nor in full.
LEMMA Sticky ==
  ASSUME NEW s \in Seq(Symbols), Has(s, "@")
  PROVE  Has(FullName(s), "@")
<1>1. PICK i \in 1 .. Len(s) : s[i] = "@"
  BY DEF Has, Positions
<1>2. Has(StripHub(s), "@") /\ StripHub(s) \in Seq(Symbols)
  <2>. DEFINE slash == FirstOf(s, "/")
              first == IF slash = 0 THEN s ELSE Upto(s, slash - 1)
  <2>1. CASE StripHub(s) = s
    BY <2>1
  <2>2. CASE StripHub(s) # s
    <3>1. StripHub(s) = Split(s)[2] /\ IsHub(Split(s)[1]) /\ Split(s)[2] # <<>> /\ Split(s)[2] # s
      BY <2>2 DEF StripHub
    <3>2. Split(s) = IF ~HostLike(first) THEN << <<"docker.io">>, s>>
                     ELSE <<first, IF slash = 0 THEN <<>> ELSE After(s, slash)>>
      BY DEF Split
    <3>3. HostLike(first) /\ slash # 0
      <4>. HIDE DEF first, slash
      <4>. QED
        BY <3>1, <3>2
    <3>4. StripHub(s) = After(s, slash) /\ IsHub(Upto(s, slash - 1))
      <4>. HIDE DEF slash
      <4>. QED
        BY <3>1, <3>2, <3>3
    <3>5. slash \in 1 .. Len(s) /\ s[slash] = "/"
      <4>1. ~Free(s, "/")
        BY <3>3, PlaceNone
      <4>. QED
        BY <4>1, FirstPlace
    <3>. HIDE DEF slash
    <3>6. PICK d \in HubHosts : Upto(s, slash - 1) = <<d>>
      BY <3>4 DEF IsHub
    <3>7. slash = 2 /\ s[1] = d
      <4>. DEFINE e == SubSeq(s, 1, slash - 1)
      <4>1. \A k \in 1 .. slash - 1 : s[k] \in Symbols
        BY <3>5
      <4>2. Len(e) = (IF 1 <= slash - 1 THEN ((slash - 1) - 1) + 1 ELSE 0)
            /\ \A k \in 1 .. ((slash - 1) - 1) + 1 : e[k] = s[(1 + k) - 1]
        BY <3>5, <4>1, SubSeqProperties
      <4>. HIDE DEF e
      <4>3. e = <<d>>
        BY <3>6 DEF e, Upto
      <4>4. Len(e) = 1 /\ e[1] = d
        BY <4>3
      <4>. QED
        <5>1. slash - 1 = 1
          <6>. DEFINE m == slash - 1
          <6>1. m \in Int /\ Len(e) = (IF 1 <= m THEN (m - 1) + 1 ELSE 0) /\ Len(e) = 1
            <7>1. slash - 1 \in Int
              BY <3>5
            <7>. QED
              BY <4>2, <4>4, <7>1
          <6>. HIDE DEF m
          <6>2. m = 1
            BY <6>1
          <6>. QED
            BY <6>2 DEF m
        <5>2. 1 \in 1 .. ((slash - 1) - 1) + 1 /\ (1 + 1) - 1 = 1
          BY <5>1
        <5>3. e[1] = s[1]
          BY <4>2, <5>2
        <5>. QED
          BY <3>5, <4>4, <5>1, <5>3
    <3>8. d # "@"
      BY DEF HubHosts
    <3>9. i >= 3 /\ Len(s) \in Nat
      BY <1>1, <3>5, <3>7, <3>8
    <3>10. Has(After(s, 2), "@") /\ After(s, 2) \in Seq(Symbols)
      <4>. DEFINE e == SubSeq(s, 3, Len(s))
      <4>1. \A k \in 3 .. Len(s) : s[k] \in Symbols
        OBVIOUS
      <4>2. e \in Seq(Symbols) /\ Len(e) = (IF 3 <= Len(s) THEN (Len(s) - 3) + 1 ELSE 0)
            /\ \A k \in 1 .. (Len(s) - 3) + 1 : e[k] = s[(3 + k) - 1]
        BY <3>9, <4>1, SubSeqProperties
      <4>3. After(s, 2) = e
        BY DEF After
      <4>. HIDE DEF e
      <4>4. i - 2 \in 1 .. Len(e) /\ i - 2 \in 1 .. (Len(s) - 3) + 1 /\ (3 + (i - 2)) - 1 = i
        BY <3>9, <4>2
      <4>5. e[i - 2] = "@"
        BY <1>1, <4>2, <4>4
      <4>. QED
        BY <4>2, <4>3, <4>4, <4>5 DEF Has, Positions
    <3>. QED
      BY <3>4, <3>7, <3>10
  <2>. QED
    BY <2>1, <2>2
<1>3. ASSUME NEW q \in Seq(Symbols), Has(q, "@") PROVE Has(<<"library", "/">> \o q, "@")
  <2>. DEFINE a == <<"library", "/">>
              c == a \o q
  <2>1. a \in Seq(Symbols)
    BY DEF Symbols
  <2>. HIDE DEF a
  <2>2. PICK k \in 1 .. Len(q) : q[k] = "@"
    BY <1>3 DEF Has, Positions
  <2>3. c \in Seq(Symbols) /\ Len(c) = Len(a) + Len(q) /\ \A j \in 1 .. Len(q) : c[Len(a) + j] = q[j]
    BY <2>1, PutTogether
  <2>. HIDE DEF c
  <2>4. Len(a) + k \in 1 .. Len(c)
    BY <2>1, <2>3
  <2>5. c[Len(a) + k] = "@"
    BY <2>2, <2>3
  <2>6. Has(c, "@")
    <3>1. DOMAIN c = 1 .. Len(c)
      BY <2>3
    <3>2. Len(a) + k \in Positions(c, "@")
      BY <2>4, <2>5, <3>1 DEF Positions
    <3>. QED
      BY <3>2 DEF Has
  <2>. QED
    BY <2>6 DEF c, a
<1>. QED
  BY <1>2, <1>3 DEF FullName

\* No name can be taken for an image id (is_pinned).
LEMMA NoIdInName ==
  ASSUME NEW n, IsName(n)
  PROVE  Free(n, "sha256")
<1>. DEFINE T == Words \cup {"/", ":", "5000"}
<1>1. "sha256" \notin T /\ HubHosts \subseteq Words
  BY ReferencesAssumption DEF Words
<1>2. /\ \A s : s \in Seq(Words \cup {"/"}) => s \in Seq(T)
      /\ \A s : s \in Seq(Words \cup {":", "5000"}) => s \in Seq(T)
      /\ \A w \in Words \cup {"/"} : <<w>> \in Seq(T)
  OBVIOUS
<1>. HIDE DEF T
<1>3. \A a, b, c \in Seq(T) : a \o b \o c \in Seq(T)
  BY ConcatProperties
<1>4. n \in Seq(T)
  <2>1. ASSUME NEW p, HubName(n, p) PROVE n \in Seq(T)
    <3>1. p \in Seq(T)
      BY <1>2, <2>1 DEF HubName, HubPath
    <3>2. \A d \in HubHosts : <<d>> \in Seq(T) /\ <<"/">> \in Seq(T)
      BY <1>1, <1>2
    <3>3. ASSUME n # p PROVE n \in Seq(T)
      <4>1. PICK d \in HubHosts : n = <<d>> \o <<"/">> \o p
        BY <2>1, <3>3 DEF HubName
      <4>. QED
        BY <1>3, <3>1, <3>2, <4>1
    <3>. QED
      BY <3>1, <3>3
  <2>2. ASSUME NEW h, NEW p, ForeignName(n, h, p) PROVE n \in Seq(T)
    <3>1. h \in Seq(T) /\ p \in Seq(T) /\ <<"/">> \in Seq(T)
      BY <1>2, <2>2 DEF ForeignName
    <3>. QED
      BY <1>3, <2>2, <3>1 DEF ForeignName
  <2>. QED
    BY <2>1, <2>2 DEF IsName
<1>. QED
  BY <1>1, <1>4 DEF Free

\* What is read of a whole reference.
LEMMA ReferenceReads ==
  ASSUME NEW r \in References
  PROVE  /\ WithoutDigest(Text(r)) = r.name \o r.tag
         /\ Pinned(Text(r)) <=> r.digest # <<>>
         /\ StripTag(r.name \o r.tag) = r.name
         /\ r.digest = <<>> => Parse(Text(r)) = [repository |-> FullName(r.name),
                                                 tag |-> IF r.tag = <<>> THEN <<"latest">> ELSE Tail(r.tag)]
         /\ r.digest # <<>> => Has(Parse(Text(r)).repository, "@") \/ Len(Parse(Text(r)).tag) = 3
<1>. DEFINE n == r.name
            x == Text(r)
            m == n \o r.tag
<1>1. n \in Repositories /\ r.tag \in Tags /\ r.digest \in Digested
  BY DEF References
<1>2. IsName(n) /\ Tagless(n) /\ n \in Seq(Symbols) /\ Free(n, "@")
  BY <1>1, RepositoryNames, FullNames DEF Tagless
<1>3. \A s : Parse(s) = [repository |-> FullName(StripTag(s)),
                         tag |-> IF TagColon(s) = 0 THEN <<"latest">> ELSE After(s, TagColon(s))]
  BY DEF Parse, FullName
<1>4. r.tag = <<>> \/ \E t \in {"latest", "v1"} : r.tag = <<":", t>>
  BY <1>1 DEF Tags
<1>5. r.digest = <<>> \/ r.digest = <<"@", "sha256">>
  BY <1>1 DEF Digested
<1>6. x = m \o r.digest
  BY DEF Text
<1>. HIDE DEF n, x
<1>7. \A t \in {"latest", "v1", "sha256"} : <<t>> \in Seq(Symbols) /\ Free(<<t>>, ":") /\ Free(<<t>>, "/") /\ Free(<<t>>, "@")
  BY DEF Symbols, Free
<1>8. <<"@", "sha256">> \in Seq(Symbols) /\ Free(<<"@", "sha256">>, ":") /\ Free(<<"@", "sha256">>, "/")
      /\ Len(<<"@", "sha256">>) = 2
  BY DEF Symbols, Free
<1>9. \A s \in Seq(Symbols) : s \o <<>> = s
  OBVIOUS
\* Without a digest.
<1>10. /\ m \in Seq(Symbols) /\ Free(m, "@") /\ StripTag(m) = n
       /\ TagColon(m) = 0 <=> r.tag = <<>>
       /\ r.tag # <<>> => After(m, TagColon(m)) = Tail(r.tag)
       /\ Free(m, "sha256")
  <2>0. Free(n, "sha256")
    BY <1>2, NoIdInName
  <2>1. CASE r.tag = <<>>
    <3>1. m = n
      BY <1>2, <1>9, <2>1
    <3>2. <<>> \in Seq(Symbols) /\ Free(<<>>, ":")
      BY DEF Free
    <3>3. TagColon(n \o <<>>) = 0 /\ StripTag(n \o <<>>) = n \o <<>>
      BY <1>2, <3>2, NoTag
    <3>. QED
      BY <1>2, <1>9, <2>0, <2>1, <3>1, <3>3
  <2>2. ASSUME NEW t \in {"latest", "v1"}, r.tag = <<":", t>>
        PROVE  /\ m \in Seq(Symbols) /\ Free(m, "@") /\ StripTag(m) = n
               /\ TagColon(m) # 0 /\ After(m, TagColon(m)) = Tail(r.tag)
               /\ Free(m, "sha256")
    <3>1. m = n \o <<":">> \o <<t>>
      <4>1. <<":">> \in Seq(Symbols) /\ <<t>> \in Seq(Symbols) /\ r.tag = <<":">> \o <<t>>
        BY <1>7, <2>2, Pair DEF Symbols
      <4>2. n \o (<<":">> \o <<t>>) = (n \o <<":">>) \o <<t>>
        BY <1>2, <4>1, ConcatAssociative
      <4>. QED
        BY <4>1, <4>2
    <3>2. TagColon(m) = Len(n) + 1 /\ Len(n) \in Nat /\ StripTag(m) = n /\ After(m, TagColon(m)) = <<t>>
      BY <1>2, <1>7, <3>1, WithTag
    <3>3. Tail(r.tag) = <<t>>
      BY <2>2
    <3>4. r.tag \in Seq(Symbols) /\ Free(r.tag, "@") /\ Free(r.tag, "sha256")
      BY <2>2 DEF Symbols, Free
    <3>5. m \in Seq(Symbols) /\ Free(m, "@") /\ Free(m, "sha256")
      BY <1>2, <2>0, <3>4, PutTogether, FreeParts
    <3>6. TagColon(m) # 0
      BY <3>2
    <3>. HIDE DEF m
    <3>. QED
      BY <3>2, <3>3, <3>5, <3>6
  <2>3. r.tag # <<>> => r.tag \in {<<":", t>> : t \in {"latest", "v1"}}
    BY <1>4
  <2>4. \A t : <<":", t>> # <<>>
    OBVIOUS
  <2>. QED
    BY <1>4, <2>1, <2>2, <2>4
<1>. HIDE DEF m
<1>11. CASE r.digest = <<>>
  <2>1. x = m
    BY <1>6, <1>9, <1>10, <1>11
  <2>2. ~Has(m, "@")
    BY <1>10, PlaceNone
  <2>3. WithoutDigest(x) = m /\ ~Pinned(x)
    <3>1. Len(m) > 1 => m[1] # "sha256"
      BY <1>10 DEF Free
    <3>. QED
      BY <2>1, <2>2, <3>1 DEF WithoutDigest, Pinned
  <2>4. Parse(x) = [repository |-> FullName(n), tag |-> IF r.tag = <<>> THEN <<"latest">> ELSE Tail(r.tag)]
    BY <1>3, <1>10, <2>1
  <2>. QED
    BY <1>10, <1>11, <2>3, <2>4 DEF m, n, x
<1>12. CASE r.digest # <<>>
  <2>1. r.digest = <<"@", "sha256">>
    BY <1>5, <1>12
  <2>2. x = m \o <<"@">> \o <<"sha256">>
    <3>1. <<"@">> \in Seq(Symbols) /\ <<"sha256">> \in Seq(Symbols) /\ r.digest = <<"@">> \o <<"sha256">>
      BY <2>1, Pair DEF Symbols
    <3>2. m \o (<<"@">> \o <<"sha256">>) = (m \o <<"@">>) \o <<"sha256">>
      BY <1>10, <3>1, ConcatAssociative
    <3>. QED
      BY <1>6, <3>1, <3>2
  <2>3. WithoutDigest(x) = m /\ Pinned(x) /\ Has(x, "@")
    <3>1. "@" \in Symbols /\ <<"sha256">> \in Seq(Symbols)
      BY DEF Symbols
    <3>0. m \in Seq(Symbols) /\ Free(m, "@") /\ Len(m) \in Nat
      BY <1>10
    <3>. DEFINE v == <<"sha256">>
    <3>. HIDE DEF v
    <3>4. v \in Seq(Symbols) /\ x = m \o <<"@">> \o v
      BY <2>2, <3>1 DEF v
    <3>2. FirstOf(x, "@") = Len(m) + 1 /\ Has(x, "@") /\ Upto(x, Len(m)) = m /\ Len(m) \in Nat
      BY <3>0, <3>1, <3>4, CutAt
    <3>3. (Len(m) + 1) - 1 = Len(m)
      BY <3>2
    <3>. QED
      BY <3>2, <3>3 DEF WithoutDigest, Pinned
  <2>4. Has(Parse(x).repository, "@") \/ Len(Parse(x).tag) = 3
    <3>1. CASE r.tag = <<>>
      <4>1. m = n
        BY <1>2, <1>9, <3>1 DEF m
      <4>2. StripTag(x) = x /\ x \in Seq(Symbols)
        BY <1>2, <1>6, <1>8, <2>1, <4>1, NoTag, PutTogether
      <4>3. Has(x, "@")
        BY <2>3
      <4>4. Has(FullName(x), "@")
        BY <4>2, <4>3, Sticky
      <4>5. Parse(x).repository = FullName(StripTag(x))
        BY <1>3
      <4>. QED
        BY <4>2, <4>4, <4>5
    <3>2. CASE r.tag # <<>>
      <4>1. PICK t \in {"latest", "v1"} : r.tag = <<":", t>>
        BY <1>4, <3>2
      <4>. DEFINE u == <<t>> \o <<"@", "sha256">>
      <4>2. <<t>> \in Seq(Symbols) /\ Len(<<t>>) = 1 /\ Free(<<t>>, ":") /\ Free(<<t>>, "/")
        BY <1>7
      <4>3. u \in Seq(Symbols) /\ Len(u) = 3 /\ Free(u, ":") /\ Free(u, "/")
        <5>. DEFINE a == <<t>>
                    b == <<"@", "sha256">>
        <5>1. /\ a \in Seq(Symbols) /\ Len(a) = 1 /\ Free(a, ":") /\ Free(a, "/")
              /\ b \in Seq(Symbols) /\ Len(b) = 2 /\ Free(b, ":") /\ Free(b, "/")
          BY <1>8, <4>2
        <5>. HIDE DEF a, b
        <5>2. a \o b \in Seq(Symbols) /\ Len(a \o b) = Len(a) + Len(b)
          BY <5>1, PutTogether
        <5>3. Free(a \o b, ":") /\ Free(a \o b, "/")
          BY <5>1, FreeParts
        <5>. QED
          BY <5>1, <5>2, <5>3 DEF a, b
      <4>4. x = n \o <<":">> \o u
        <5>1. <<":">> \in Seq(Symbols) /\ r.tag = <<":">> \o <<t>>
          BY <4>1, Pair DEF Symbols
        <5>2. m = (n \o <<":">>) \o <<t>>
          BY <1>2, <4>2, <5>1, ConcatAssociative DEF m
        <5>3. n \o <<":">> \in Seq(Symbols)
          BY <1>2, <5>1, PutTogether
        <5>4. ((n \o <<":">>) \o <<t>>) \o <<"@", "sha256">> = (n \o <<":">>) \o (<<t>> \o <<"@", "sha256">>)
          BY <1>8, <4>2, <5>3, ConcatAssociative
        <5>. QED
          BY <1>6, <2>1, <5>2, <5>4
      <4>. HIDE DEF u
      <4>5. TagColon(x) = Len(n) + 1 /\ Len(n) \in Nat /\ After(x, TagColon(x)) = u
        BY <1>2, <4>3, <4>4, WithTag
      <4>6. Parse(x).tag = u
        <5>1. TagColon(x) # 0
          BY <4>5
        <5>. QED
          BY <1>3, <4>5, <5>1
      <4>. QED
        BY <4>3, <4>6
    <3>. QED
      BY <3>1, <3>2
  <2>. QED
    BY <1>10, <1>12, <2>3, <2>4 DEF m, n, x
<1>. QED
  BY <1>11, <1>12

\* The registry is asked for what the daemon pulls (fetch_digest and pull_image).
LEMMA Asked ==
  ASSUME NEW r \in References
  PROVE  AsksWhatIsPulled(r)
<1>. DEFINE n == r.name
            x == Text(r)
            tag == IF r.tag = <<>> THEN <<"latest">> ELSE Tail(r.tag)
<1>1. n \in Repositories
  BY DEF References
<1>2. /\ IsName(n) /\ IsName(FullName(n)) /\ Normal(FullName(n)) = Normal(n)
      /\ Split(FullName(n)) = Normal(n) /\ CanonicalHost(Normal(n)[1]) = Normal(n)[1]
  BY <1>1, RepositoryNames, FullNames
<1>3. FullName(n) \in Repositories
  <2>1. ASSUME NEW p, HubName(n, p) PROVE FullName(n) \in Repositories
    <3>1. StripHub(n) = p /\ InFull(p) \in Repositories
      BY <1>1, <2>1, HubReads, RepositoryNames
    <3>. QED
      BY <3>1 DEF FullName, InFull
  <2>2. ASSUME NEW h, NEW p, ForeignName(n, h, p) PROVE FullName(n) \in Repositories
    <3>1. StripHub(n) = n /\ Has(n, "/")
      BY <2>2, ForeignReads
    <3>. QED
      BY <1>1, <3>1 DEF FullName
  <2>. QED
    BY <1>2, <2>1, <2>2 DEF IsName
<1>4. ASSUME r.digest = <<>>
      PROVE  /\ Query(x) = <<NormalOf[n][1], NormalOf[n][2], tag>>
             /\ \E m \in Repositories : PullRequest(x) = m \o <<":">> \o tag /\ NormalOf[m] = NormalOf[n]
             /\ PullHost(x) = NormalOf[n][1]
  <2>1. Parse(x) = [repository |-> FullName(n), tag |-> tag]
    BY <1>4, ReferenceReads
  <2>2. Parse(x).repository = FullName(n) /\ Parse(x).tag = tag
    BY <2>1
  <2>3. NormalOf[n] = Normal(n) /\ NormalOf[FullName(n)] = Normal(FullName(n))
    BY <1>1, <1>3 DEF NormalOf
  <2>. HIDE DEF n, x, tag
  <2>4. Query(x) = <<Normal(n)[1], Normal(n)[2], tag>>
    BY <1>2, <2>2 DEF Query
  <2>5. PullRequest(x) = FullName(n) \o <<":">> \o tag
    BY <2>2 DEF PullRequest
  <2>6. PullHost(x) = Normal(n)[1]
    BY <1>2, <2>2 DEF PullHost
  <2>. QED
    BY <1>2, <1>3, <2>3, <2>4, <2>5, <2>6
<1>. QED
  BY <1>4 DEF AsksWhatIsPulled

\* What a daemon lists are names.
LEMMA WrittenNames ==
  ASSUME NEW w \in Written
  PROVE  IsName(w)
<1>1. PICK n \in Repositories : w = ShortForm(NormalOf[n]) \/ w = FullForm(NormalOf[n])
  BY DEF Written
<1>2. NormalOf[n] = Normal(n) /\ IsName(n)
  BY RepositoryNames DEF NormalOf
<1>3. ASSUME NEW p, HubName(n, p) PROVE IsName(w)
  <2>1. Normal(n) = << <<"docker.io">>, InFull(p)>> /\ HubPath(p)
    BY <1>3, HubReads DEF HubName
  <2>2. ShortForm(Normal(n)) = InShort(p)
    BY <2>1, PathForms
  <2>3. IsName(InShort(p)) /\ IsName(FullForm(Normal(n)))
    BY <2>1, PathNames DEF IsName
  <2>. QED
    BY <1>1, <1>2, <2>2, <2>3
<1>4. ASSUME NEW h, NEW p, ForeignName(n, h, p) PROVE IsName(w)
  <2>1. Normal(n) = <<h, p>> /\ h # <<"docker.io">> /\ n = FullForm(<<h, p>>)
    BY <1>4, ForeignReads
  <2>2. Normal(n)[1] # <<"docker.io">>
    BY <2>1
  <2>3. FullForm(Normal(n)) = n /\ ShortForm(Normal(n)) = n
    BY <2>1, <2>2 DEF ShortForm
  <2>. QED
    BY <1>1, <1>2, <2>3
<1>. QED
  BY <1>2, <1>3, <1>4 DEF IsName

\* The digests that count for an image are those of its repository (local_manifest_digests).
LEMMA Known ==
  ASSUME NEW r \in References
  PROVE  KnownByItsDigests(r)
<1>. DEFINE n == r.name
<1>1. n \in Repositories
  BY DEF References
<1>2. IsName(n) /\ NormalOf[n] = Normal(n)
  BY <1>1, RepositoryNames DEF NormalOf
<1>3. Familiar(StripTag(WithoutDigest(Text(r)))) = Familiar(n)
  BY ReferenceReads
<1>4. ASSUME NEW w \in Written
      PROVE  Familiar(w) = Familiar(n) <=> NormalOfWritten[w] = NormalOf[n]
  <2>1. IsName(w) /\ NormalOfWritten[w] = Normal(w)
    BY WrittenNames DEF NormalOfWritten
  <2>. QED
    BY <1>2, <2>1, Alike
<1>. QED
  BY <1>3, <1>4 DEF KnownByItsDigests, Matching

\* A bare image id is pinned, and no image's name with the tag latest.
LEMMA IdReads == Pinned(BareId) /\ Parse(BareId).tag # <<"latest">>
<1>. DEFINE s == BareId
            T == {"sha256", ":", "4f2a"}
<1>1. s \in Seq(T) /\ Len(s) = 3 /\ s[1] = "sha256" /\ s[2] = ":" /\ s[3] = "4f2a"
  BY DEF BareId
<1>. HIDE DEF s
<1>2. Pinned(s)
  BY <1>1 DEF Pinned
<1>3. LastOf(s, ":") = 2
  <2>1. 2 \in 1 .. Len(s) /\ \A j \in 1 .. Len(s) : s[j] = ":" => j <= 2
    BY <1>1
  <2>. QED
    BY <1>1, <2>1, PlaceLast
<1>4. LastOf(s, "/") = 0
  <2>1. Free(s, "/")
    BY <1>1 DEF Free
  <2>. QED
    BY <1>1, <2>1, PlaceNone
<1>5. TagColon(s) = 2
  BY <1>3, <1>4 DEF TagColon
<1>6. Parse(s).tag = SubSeq(s, 3, 3)
  <2>1. Parse(s).tag = After(s, 2)
    BY <1>5 DEF Parse
  <2>. QED
    BY <1>1, <2>1 DEF After
<1>7. SubSeq(s, 3, 3)[1] = "4f2a"
  BY <1>1
<1>8. <<"latest">>[1] # "4f2a"
  OBVIOUS
<1>9. Parse(s).tag # <<"latest">>
  BY <1>6, <1>7, <1>8
<1>. QED
  BY <1>2, <1>9 DEF s

\* A rollout tells members on an image from others (same_image).
LEMMA Together ==
  ASSUME NEW r \in References
  PROVE  RolledOutTogether(r)
<1>1. ASSUME NEW trigger \in Repositories
      PROVE  LET same == NormalOf[r.name] = NormalOf[trigger] /\ r.tag \in {<<>>, <<":", "latest">>}
             IN /\ ~SameImageAs(BareId, 1, trigger, 1)
                /\ IF r.digest # <<>> THEN ~SameImageAs(Text(r), 1, trigger, 1)
                   ELSE /\ SameImageAs(Text(r), 1, trigger, 1)
                        /\ \A id \in {NoImage, 2} : SameImageAs(Text(r), id, trigger, 1) <=> same
  <2>. DEFINE n == r.name
              x == Text(r)
              tag == IF r.tag = <<>> THEN <<"latest">> ELSE Tail(r.tag)
  <2>1. n \in Repositories /\ IsName(n) /\ IsName(trigger) /\ r.tag \in Tags
        /\ NormalOf[n] = Normal(n) /\ NormalOf[trigger] = Normal(trigger)
    BY RepositoryNames DEF References, NormalOf
  <2>2. Parse(trigger) = [repository |-> FullName(trigger), tag |-> <<"latest">>]
    <3>. DEFINE plain == [name |-> trigger, tag |-> <<>>, digest |-> <<>>]
    <3>1. plain \in References
      BY DEF References, Tags, Digested
    <3>2. Text(plain) = trigger
      <4>1. trigger \in Seq(Symbols)
        BY <2>1, FullNames DEF Tagless
      <4>2. \A s \in Seq(Symbols) : s \o <<>> = s
        OBVIOUS
      <4>. QED
        BY <4>1, <4>2 DEF Text
    <3>. HIDE DEF plain
    <3>3. plain.name = trigger /\ plain.tag = <<>> /\ plain.digest = <<>>
      BY DEF plain
    <3>. QED
      BY <3>1, <3>2, <3>3, ReferenceReads
  <2>3. NoImage # 1 /\ 2 # 1
    BY ReferencesAssumption
  <2>4. Pinned(x) <=> r.digest # <<>>
    BY ReferenceReads
  <2>5. ASSUME r.digest # <<>> PROVE Parse(x) # Parse(trigger)
    <3>1. Has(Parse(x).repository, "@") \/ Len(Parse(x).tag) = 3
      BY <2>5, ReferenceReads
    <3>2. Parse(trigger).repository = FullName(trigger) /\ Parse(trigger).tag = <<"latest">>
      BY <2>2
    <3>3. ~Has(FullName(trigger), "@")
      BY <2>1, FullNames, PlaceNone
    <3>4. Len(<<"latest">>) # 3
      OBVIOUS
    <3>. QED
      BY <3>1, <3>2, <3>3, <3>4
  <2>6. ASSUME r.digest = <<>>
        PROVE  Parse(x) = Parse(trigger) <=> Normal(n) = Normal(trigger) /\ r.tag \in {<<>>, <<":", "latest">>}
    <3>1. Parse(x) = [repository |-> FullName(n), tag |-> tag]
      BY <2>6, ReferenceReads
    <3>2. tag = <<"latest">> <=> r.tag \in {<<>>, <<":", "latest">>}
      <4>1. \A t \in {"latest", "v1"} : Tail(<<":", t>>) = <<t>> /\ <<":", t>> # <<>>
        OBVIOUS
      <4>2. <<"latest">> # <<"v1">> /\ <<":", "latest">> # <<":", "v1">>
        OBVIOUS
      <4>3. CASE r.tag = <<>>
        BY <4>3
      <4>4. CASE r.tag = <<":", "latest">>
        BY <4>1, <4>4
      <4>5. CASE r.tag = <<":", "v1">>
        BY <4>1, <4>2, <4>5
      <4>. QED
        BY <2>1, <4>3, <4>4, <4>5 DEF Tags
    <3>. HIDE DEF tag, n, x
    <3>3. Parse(x) = Parse(trigger) <=> FullName(n) = FullName(trigger) /\ tag = <<"latest">>
      BY <2>2, <3>1
    <3>4. FullName(n) = FullName(trigger) <=> Normal(n) = Normal(trigger)
      BY <2>1, FullAlike
    <3>. QED
      BY <3>2, <3>3, <3>4
  <2>. HIDE DEF n, x
  <2>7. IF r.digest # <<>> THEN ~SameImageAs(x, 1, trigger, 1)
        ELSE /\ SameImageAs(x, 1, trigger, 1)
             /\ \A id \in {NoImage, 2} : SameImageAs(x, id, trigger, 1) <=>
                   Normal(n) = Normal(trigger) /\ r.tag \in {<<>>, <<":", "latest">>}
    BY <2>3, <2>4, <2>5, <2>6 DEF SameImageAs
  <2>8. ~SameImageAs(BareId, 1, trigger, 1)
    BY <2>2, IdReads DEF SameImageAs
  <2>. QED
    BY <2>1, <2>7, <2>8 DEF n, x
<1>. QED
  BY <1>1 DEF RolledOutTogether

\* Every reference the words of the run can make, whatever the words: all that read it mean one
\* image by it (ImageRef::parse, familiar_repository, local_manifest_digests, same_image).
THEOREM EveryReference == InputSpec => []ReferencesAgree
<1>1. OneInput => ReferencesAgree
  <2>1. OneInput /\ input.of = "reference" => input.value \in References
    BY DEF OneInput, Inputs
  <2>. QED
    BY <2>1, Asked, Known, Together DEF ReferencesAgree
<1>. QED
  BY <1>1, InputStarts, InputStays, PTL DEF InputSpec
=============================================================================
