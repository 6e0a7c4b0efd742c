--------------------------------- MODULE Cron ---------------------------------
(***************************************************************************)
(* The schedules of cron.rs: how a five-field expression is read, and when *)
(* the scheduler, which looks at its clock once per tick, fires it.        *)
(*                                                                         *)
(* Real time is counted in half minutes, so that a tick can fall between   *)
(* two minutes.  The local calendar goes forward and back once, by Shift.  *)
(* The sizes of the calendar are constants; the code's are 60 minutes, 24  *)
(* hours, 31 days, 12 months and 7 weekdays.                               *)
(***************************************************************************)
EXTENDS Integers, Sequences

CONSTANTS
  Unit,           \* [field -> <<min, max>>]: the range of each field
  WordSize,       \* the number of values of a u32
  Forward, Back,  \* the real minutes at which the local clock is set
  Shift,          \* by so many minutes
  Horizon,        \* MAX_STEP_MINUTES
  MaxGap,         \* bound: half minutes between two ticks
  LastMinute,     \* bound: the end of the observation
  NoStep, Never, Malformed

FieldNames == {"minute", "hour", "dom", "month", "dow"}

ASSUME CronAssumption ==
  /\ Unit \in [FieldNames -> Nat \X Nat] /\ Unit["dow"][1] = 0
  /\ \A f \in FieldNames : Unit[f][1] \in {0, 1} /\ Unit[f][1] < Unit[f][2] /\ Unit[f][2] < 64
  /\ {WordSize, Forward, Back, Shift, Horizon, MaxGap, LastMinute} \subseteq Nat
  /\ WordSize > 64
  /\ 0 < Forward /\ Forward < Back /\ Shift > 0
  /\ LastMinute <= Horizon
  /\ {NoStep, Never, Malformed} \cap Nat = {} /\ NoStep # Malformed
  /\ Malformed \notin [mask : SUBSET Nat, star : BOOLEAN]

VARIABLES
  schedule,   \* the container's expression, read
  clock,      \* now, in half minutes
  nextFire,   \* the state's next_fire, in minutes
  asked       \* the instant from which nextFire was computed

cronVars == <<schedule, clock, nextFire, asked>>

-----------------------------------------------------------------------------
(* FieldSet::parse.  A part of a comma list is [range, step]: range is <<>> *)
(* for "*", else one or two numbers; step is NoStep without a slash.       *)

Low(f) == Unit[f][1]
High(f) == Unit[f][2]

Number(v, f) == v # Malformed /\ Low(f) <= v /\ v <= High(f)

Step(part) == IF part.step = NoStep THEN 1 ELSE part.step

PartValid(part, f) ==
  /\ part.step # Malformed /\ Step(part) # 0
  /\ \A i \in DOMAIN part.range : Number(part.range[i], f)
  /\ Len(part.range) = 2 => part.range[1] <= part.range[2]

\* Mutant: a number with a step is taken as the number alone.
BoundsAlone(part, f) ==
  IF part.range = <<>> THEN Unit[f] ELSE <<part.range[1], part.range[Len(part.range)]>>

\* A number with a step other than 1 goes up to the end of the field.
Bounds(part, f) ==
  IF part.range = <<>> THEN Unit[f]
  ELSE IF Len(part.range) = 2 THEN part.range
  ELSE <<part.range[1], IF Step(part) = 1 THEN part.range[1] ELSE High(f)>>

\* The loop `i += step` in a u32, which wraps in a release build.
Walk(start, end, step) ==
  LET from[i \in 0 .. WordSize - 1] == IF i > end THEN {} ELSE {i} \cup from[(i + step) % WordSize]
  IN from[start]

FieldSet(field, f) ==
  IF \E i \in DOMAIN field : ~PartValid(field[i], f) THEN Malformed
  ELSE [mask |-> UNION {Walk(Bounds(field[i], f)[1], Bounds(field[i], f)[2], Step(field[i])) :
                          i \in DOMAIN field},
        star |-> field = << [range |-> <<>>, step |-> NoStep] >>]

Parsed(expr) ==
  IF \E f \in FieldNames : FieldSet(expr[f], f) = Malformed THEN Malformed
  ELSE [f \in FieldNames |-> FieldSet(expr[f], f)]

-----------------------------------------------------------------------------
(* The local calendar.                                                     *)

Size(f) == High(f) - Low(f) + 1
Local(m) == IF Forward <= m /\ m < Back THEN m + Shift ELSE m

\* The local fields at the real minute m.
FieldsAt(m) ==
  LET hours == Local(m) \div Size("minute")
      days == hours \div Size("hour")
  IN [minute |-> Local(m) % Size("minute"), hour |-> hours % Size("hour"),
      dom |-> Low("dom") + (days % Size("dom")),
      month |-> Low("month") + ((days \div Size("dom")) % Size("month")),
      dow |-> days % Size("dow")]

\* The local clock shows this minute twice.
Ambiguous(m) == Back - Shift <= m /\ m < Back + Shift

-----------------------------------------------------------------------------
(* matches and next_after.                                                 *)

DayMatches(s, at) ==
  IF s.dom.star \/ s.dow.star THEN at.dom \in s.dom.mask /\ at.dow \in s.dow.mask
  ELSE at.dom \in s.dom.mask \/ at.dow \in s.dow.mask

MatchesAt(s, m) ==
  LET at == FieldsAt(m)
  IN /\ s # Malformed
     /\ at.minute \in s.minute.mask /\ at.hour \in s.hour.mask /\ at.month \in s.month.mask
     /\ DayMatches(s, at)

\* The search of next_after from the minute m on.
Search(s, m) ==
  LET from[i \in m .. m + Horizon] ==
        IF i = m + Horizon THEN Never ELSE IF MatchesAt(s, i) THEN i ELSE from[i + 1]
  IN from[m]

\* Mutant: the minute that has begun counts as one to come.
NextFromThisMinute(s, now) == IF s = Malformed THEN Never ELSE Search(s, now \div 2)

\* with_second fails in a minute that the local clock shows twice.
NextAfter(s, now) ==
  IF s = Malformed \/ Ambiguous(now \div 2) THEN Never ELSE Search(s, now \div 2 + 1)

-----------------------------------------------------------------------------
(* The scheduler's use: seeded at first sight, looked at every tick.       *)

Seed(expr, now) ==
  /\ schedule = Parsed(expr) /\ clock = now /\ asked = now
  /\ nextFire = NextAfter(schedule, now)

Due(now) == nextFire # Never /\ now >= 2 * nextFire

CronTick(gap) ==
  /\ clock + gap <= 2 * LastMinute
  /\ clock' = clock + gap
  /\ IF Due(clock') THEN nextFire' = NextAfter(schedule, clock') /\ asked' = clock'
     ELSE UNCHANGED <<nextFire, asked>>
  /\ UNCHANGED schedule

CronNext == \E gap \in 1 .. MaxGap : CronTick(gap)

-----------------------------------------------------------------------------
(* What the schedules promise.                                             *)

\* What the table "Cron syntax" of docs/scheduling.md says of a part, except for
\* "N/1", which the code reads as N alone.
Documented(part, f) ==
  LET lo == IF part.range = <<>> THEN Low(f) ELSE part.range[1]
      hi == IF Len(part.range) = 2 THEN part.range[2]
            ELSE IF Len(part.range) = 1 /\ (part.step = NoStep \/ part.step = 1) THEN lo ELSE High(f)
  IN {v \in lo .. hi : \E k \in 0 .. hi : v = lo + k * Step(part)}

\* A field that is accepted matches the values that its parts stand for, one that is
\* refused has a part that stands for none; for steps that do not overflow.
FieldReads(field, f) ==
  (\A i \in DOMAIN field : Step(field[i]) # Malformed => Step(field[i]) < WordSize - High(f)) =>
    LET read == FieldSet(field, f)
        broken(part) == \/ Malformed \in {part.step} \cup {part.range[i] : i \in DOMAIN part.range}
                        \/ part.step = 0
                        \/ Documented(part, f) = {} \/ ~(Documented(part, f) \subseteq Low(f) .. High(f))
                        \/ \E i \in DOMAIN part.range : part.range[i] > High(f)
    IN IF read = Malformed THEN \E i \in DOMAIN field : broken(field[i])
       ELSE /\ \A i \in DOMAIN field : ~broken(field[i])
            /\ read.mask = UNION {Documented(field[i], f) : i \in DOMAIN field}

\* The windows of a schedule are the local minutes that match it: with both days
\* restricted either will do, and a time in the hour that is skipped is no window.
WindowAt(s, m) ==
  LET at == FieldsAt(m)
      restricted == {d \in {"dom", "dow"} : ~s[d].star}
  IN /\ s # Malformed
     /\ \A f \in {"minute", "hour", "month"} : at[f] \in s[f].mask
     /\ restricted = {} \/ \E d \in restricted : at[d] \in s[d].mask

\* A tick fires a schedule exactly if one of its windows opened since the tick before:
\* none is lost however late the tick, none fires twice or ahead of its time, and
\* several that were slept through fire once.  Not so after a fire in a minute that
\* the local clock shows twice: that schedule never fires again.
EveryWindow ==
  [][~Ambiguous(asked \div 2) /\ clock' # clock =>
       (asked' # asked <=> \E m \in 0 .. LastMinute :
                              clock < 2 * m /\ 2 * m <= clock' /\ WindowAt(schedule, m))]_cronVars
=============================================================================
