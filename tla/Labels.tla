------------------------------- MODULE Labels -------------------------------
(***************************************************************************)
(* The labels of a container and what they make freshdock do (labels.rs):  *)
(* each freshdock label has a watchtower label as its fallback.  Two       *)
(* functions read them: parse_policy, which decides on updates, and        *)
(* explicitly_opts_out, which decides on what freshdock does to containers *)
(* it was not pointed at.  Someone migrates a container to the freshdock   *)
(* labels, one label at a time.                                            *)
(*                                                                         *)
(* A value stands for its class: case and blanks are gone, and all that    *)
(* does not parse is Junk.  The labels without a fallback are one, `other`.*)
(***************************************************************************)
EXTENDS Naturals

CONSTANTS
  Modes,      \* values of mode
  Timeouts,   \* values of timeout in seconds, 0 for none
  Minutes,    \* values of watchtower's, in minutes
  Commands,
  Careless,   \* are watchtower labels also removed where the freshdock label differs?
  Absent, Junk, Invalid

ASSUME LabelsAssumption ==
  /\ {"watch", "off"} \subseteq Modes /\ Modes \subseteq {"live", "nightly", "weekly", "monthly", "watch", "off"}
  /\ Minutes \subseteq Nat /\ Timeouts \subseteq Nat /\ {60 * m : m \in Minutes} \subseteq Timeouts
  /\ Careless \in BOOLEAN
  /\ Absent # Junk
  /\ \A v \in {Absent, Junk} : /\ v \notin BOOLEAN /\ v \notin Modes /\ v \notin Timeouts
                               /\ v \notin Minutes /\ v \notin Commands

VARIABLES
  labels,     \* the container's labels
  defaults    \* [settings]: watch_all and default_mode

vars == <<labels, defaults>>

Optional(S) == S \cup {Absent, Junk}

Labelling ==
  [enable : Optional(BOOLEAN), mode : Optional(Modes),
   command : Commands \cup {Absent}, timeout : Optional(Timeouts),
   wtEnable : Optional(BOOLEAN), monitorOnly : Optional(BOOLEAN),
   wtCommand : Commands \cup {Absent}, wtTimeout : Optional(Minutes),
   other : {Absent, Junk}]

\* A default_mode that is not set is watch.
PolicyDefaults == [watchAll : BOOLEAN, mode : Modes]

Init == labels \in Labelling /\ defaults \in PolicyDefaults

-----------------------------------------------------------------------------
(* parse_policy.                                                           *)

Or(value, fallback) == IF value # Absent THEN value ELSE fallback

\* Mutant: watchtower's timeout read in freshdock's unit.
SecondsUnconverted(minutes) == minutes

Seconds(minutes) == IF minutes \in Minutes THEN 60 * minutes ELSE minutes

DefaultHookTimeout == 60
Timeout(l) == Or(l.timeout, Or(Seconds(l.wtTimeout), DefaultHookTimeout))

\* A timeout without a command is checked and has no effect.
Hook(l) ==
  LET command == Or(l.command, l.wtCommand)
  IN IF command = Absent THEN Absent ELSE [command |-> command, timeout |-> Timeout(l)]

Mode(l, d) == Or(l.mode, IF l.monitorOnly = TRUE THEN "watch" ELSE d.mode)

\* The enable label, of either spelling.
Explicit(l) == Or(l.enable, l.wtEnable)

Disabled == [enabled |-> FALSE, mode |-> "off", hook |-> Absent, auto |-> FALSE]

\* Invalid if a label that is read does not parse; of a container that is not
\* enabled no further label is read.
Policy(l, d) ==
  LET enabled == Or(Explicit(l), d.watchAll)
  IN IF enabled = Junk THEN Invalid
     ELSE IF ~enabled THEN Disabled
     ELSE IF Junk \in {l.monitorOnly, l.mode, l.other, Timeout(l)} THEN Invalid
     ELSE [enabled |-> TRUE, mode |-> Mode(l, d), hook |-> Hook(l), auto |-> Explicit(l) = Absent]

-----------------------------------------------------------------------------
(* explicitly_opts_out, watchtower_diagnostics and those who ask.          *)

\* Mutant: only freshdock's spelling is read.
OptsOutNatively(l) == l.enable = FALSE \/ l.mode = "off"

OptsOut(l) == l.enable = FALSE \/ l.wtEnable = FALSE \/ l.mode = "off"

\* Mutant: the numbers are compared, whatever their units.
SameTimeoutNumber(l) == l.timeout = l.wtTimeout

SameTimeout(l) == l.timeout = Seconds(l.wtTimeout)

\* The watchtower labels that a freshdock label overrides to another effect.
Notes(l) ==
  {key \in {"wtEnable", "monitorOnly", "wtCommand", "wtTimeout"} :
     CASE key = "wtEnable"    -> Absent \notin {l.enable, l.wtEnable} /\ l.enable # l.wtEnable
       [] key = "monitorOnly" -> l.monitorOnly = TRUE /\ l.mode \notin {Absent, "watch"}
       [] key = "wtCommand"   -> Absent \notin {l.command, l.wtCommand} /\ l.command # l.wtCommand
       [] key = "wtTimeout"   -> Absent \notin {l.timeout, l.wtTimeout} /\ ~SameTimeout(l)}

\* The scheduler updates it on its own account.
Updated(l, d) ==
  /\ Policy(l, d) # Invalid
  /\ Policy(l, d).mode \notin {"watch", "off"}

\* `freshdock recreate` takes it on.
ByHand(l, d) ==
  /\ Policy(l, d) # Invalid
  /\ Policy(l, d).enabled /\ Policy(l, d).mode # "off"

\* A rollout re-runs it although it is not enabled, if it is a one-shot, and restarts
\* it after a service it depends on.
Involved(l, d) ==
  /\ ~OptsOut(l)
  /\ Policy(l, d) # Invalid
  /\ Policy(l, d).mode # "watch"

\* It is repaired after the container whose network it uses.
Repaired(l) == ~OptsOut(l)

-----------------------------------------------------------------------------
(* The migration (docs/migrating-from-watchtower.md).                      *)

Fallback == [enable |-> "wtEnable", mode |-> "monitorOnly",
             command |-> "wtCommand", timeout |-> "wtTimeout"]

\* What a watchtower label is in the table "Coming from Watchtower?".
Translated(key, value) ==
  CASE key = "mode"    -> IF value = TRUE THEN "watch" ELSE Absent
    [] key = "timeout" -> 60 * value
    [] OTHER           -> value

Adopt(key) ==
  /\ labels[key] = Absent /\ labels[Fallback[key]] \notin {Absent, Junk}
  /\ labels' = [labels EXCEPT ![key] = Translated(key, labels[Fallback[key]])]
  /\ UNCHANGED defaults

Retire(key) ==
  /\ labels[key] # Absent /\ labels[Fallback[key]] # Absent
  /\ Careless \/ (Fallback[key] \notin Notes(labels) /\ labels[Fallback[key]] # Junk)
  /\ labels' = [labels EXCEPT ![Fallback[key]] = Absent]
  /\ UNCHANGED defaults

Next == \E key \in DOMAIN Fallback : Adopt(key) \/ Retire(key)

Spec == Init /\ [][Next]_vars

-----------------------------------------------------------------------------
(* What the labels promise.                                                *)

Treatment(l, d) == <<Policy(l, d), ByHand(l, d), Involved(l, d), Repaired(l)>>

\* A container that is migrated label by label is treated the same all along,
\* by the scheduler, the rollouts and the repair, under whichever defaults.
MigrationUnnoticed == [][Treatment(labels', defaults) = Treatment(labels, defaults)]_vars

\* The two readers of the labels agree: what is left alone by the scheduler and by
\* `freshdock recreate` because its labels say so is left alone by rollouts and
\* repairs, and the other way round unless the conflict of the spellings was reported.
OptOutsAgree ==
  /\ Explicit(labels) = FALSE \/ labels.mode = "off"
       => ~Involved(labels, defaults) /\ ~Repaired(labels)
  /\ OptsOut(labels) /\ "wtEnable" \notin Notes(labels)
       => ~Updated(labels, defaults) /\ ~ByHand(labels, defaults)

\* No watchtower label is overridden in silence: where it would have had an effect
\* of its own, and the freshdock label has another one, there is a note.
OverridesNoted ==
  \A key \in DOMAIN Fallback :
    LET without == [labels EXCEPT ![key] = Absent]
        neither == [without EXCEPT ![Fallback[key]] = Absent]
        of(l) == Policy(l, defaults)
    IN of(labels) # of(without) /\ of(without) # of(neither) => Fallback[key] \in Notes(labels)
=============================================================================
