------------------------------- MODULE MCInputs -------------------------------
(***************************************************************************)
(* What freshdock reads rather than does: the labels, while they are being *)
(* migrated; the image references; the schedules, while the clock runs;    *)
(* the configuration; what `check` is told; the containers' own specs.  A  *)
(* behaviour is about one of them, and `input` says which.                 *)
(***************************************************************************)
EXTENDS Labels, References, Cron, Settings, CheckTable, Identity

VARIABLE input   \* [of, value]

-----------------------------------------------------------------------------
(* The inputs.                                                             *)

Whole == << [range |-> <<>>, step |-> NoStep] >>
Every(n) == << [range |-> <<>>, step |-> n] >>
At(v) == << [range |-> <<v>>, step |-> NoStep] >>
Between(a, b) == << [range |-> <<a, b>>, step |-> NoStep] >>

\* The calendar has hours of two minutes, days of three hours, months of three days,
\* two months and weeks of two days.
Calendar == [minute |-> <<0, 1>>, hour |-> <<0, 2>>, dom |-> <<1, 3>>, month |-> <<1, 2>>, dow |-> <<0, 1>>]

Expressions ==
  [minute : {Whole, At(1), At(7)}, hour : {Whole, At(0), At(1), Between(1, 2), Every(2)},
   dom : {Whole, At(2), Between(1, 3), At(2) \o At(3)}, month : {Whole, At(2)}, dow : {Whole, At(1)}]

Parts == [range : {<<>>} \cup {<<v>> : v \in {0, 1, 3, 4, Malformed}}
                  \cup {<<a, b>> : a \in {0, 1, 2, Malformed}, b \in {0, 1, 3, 4, Malformed}},
          step : {NoStep, Malformed, 0, 1, 2, 3, 90, 250}]

Texts == {<<p>> : p \in Parts} \cup {<<p, q>> : p \in Parts, q \in {At(1)[1], At(4)[1], Every(2)[1]}}

Flags == {Unset, Bad, TRUE, FALSE}

Loads == [found : {"missing", "unreadable", "read"}, explicit : BOOLEAN,
          file : [mode : {Unset, Bad, "live"}, cleanup : Flags, composeAware : {Unset, TRUE, FALSE},
                  oneShotTimeout : {Unset, 5}],
          env : [mode : {Unset, Bad, "off"}, cleanup : Flags, composeAware : {Unset, Bad, FALSE},
                 oneShotTimeout : {Bad, 9}]]

FunctionsFrom(S, T) == UNION {[D -> T] : D \in SUBSET S}

Logins == [file : FunctionsFrom({"dockerhub", "docker.io", "ghcr"},
                                [username : {Unset, "u1", "u2"}, token : {"t1", "t2"}]),
           env : FunctionsFrom({"docker.io", "docker", "ghcr"},
                               [username : {Unset, "v1"}, token : {Unset, "s1"}])]

TargetName(case, sep) == [base |-> "ops", case |-> case, sep |-> sep]
TargetNames == {TargetName(c, s) : c \in {"lower", "upper"}, s \in {"none", "dash", "underscore"}}

FileTargets ==
  UNION {[D -> [origin : {"file"}, kind : {"telegram", "smtp"}, secret : {"declared"}, triggers : {"failed"}]] :
           D \in {D \in SUBSET {n \in TargetNames : n.case = "lower" \/ n.sep = "none"} : Cardinality(D) <= 2}}

UrlVariables == [name : TargetNames, tail : {"URL"}, value : {"telegram", "smtp", Bad}]
OtherVariables ==
  {[name |-> n, tail |-> tail, value |-> tail] : n \in TargetNames, tail \in {"TRIGGERS", "BOT_TOKEN", "PASSWORD"}}

TargetInputs ==
  [file : FileTargets,
   env : {U \cup O : U \in {U \in SUBSET UrlVariables : Cardinality({v.name : v \in U}) = Cardinality(U)
                                                       /\ Cardinality(U) <= 2},
                     O \in {{}} \cup {{v} : v \in OtherVariables}}]

Mails == [tls : {Unset, Bad, "starttls", "implicit", "none"}, starttls : Flags, port : {Unset, 2525},
          username : {Unset, "u"}, password : {Unset, "p"}, addressed : BOOLEAN]

Containers ==
  {c \in [policy : {"invalid", "auto", "enabled"}, own : BOOLEAN, bareId : BOOLEAN, image : {"app:1"},
          inspected : {"app:1", "db@d1", FailedCall}, running : {Unknown, "i1", "i2"}] :
     (~c.bareId => c.inspected = "app:1") /\ (c.policy # "auto" => ~c.own)}

Worlds ==
  [pinned : {[i \in {"app:1", "db@d1"} |-> i = "db@d1"]},
   fetched : [{"app:1", "db@d1"} -> {"d1", "d2", "auth required"}],
   tag : [{"app:1", "db@d1"} -> {FailedCall} \cup [id : {Unknown, "i1"}, digests : {<<>>, <<"d1">>, <<"d1", "d2">>}]]]

Checks == [containers : {<<c, d>> : c \in Containers, d \in {d \in Containers : d.policy = "enabled" /\ ~d.bareId}},
           world : {w \in Worlds : w.tag["db@d1"] = FailedCall /\ w.fetched["db@d1"] = "d1"}]

OwnerId == <<"1", "1", "1", "1">>
PeerId == <<"2", "1", "1", "1">>
NewIds == << <<"1", "2", "1", "1">>, <<"1", "1", "2", "1">> >>

Owners ==
  [id : {OwnerId}, name : {<<"vpn">>}, image : {<<"old">>},
   hostname : {ShortId(OwnerId), <<"host">>, <<"h", "1", "1">>, <<"3", "3", "3">>},
   joins : {Nothing, <<"other">>, PeerId}, networks : 0 .. 2, ports : BOOLEAN, rest : {<<"rest">>},
   optedOut : BOOLEAN]

JoinedReferences == {Nothing, <<"vpn">>, <<"other">>, OwnerId, ShortId(OwnerId), SubSeq(OwnerId, 1, 2),
                 NewIds[2], ShortId(NewIds[2])}

Peers ==
  [id : {PeerId}, name : {<<"peer">>}, image : {<<"peer">>},
   hostname : {ShortId(PeerId), ShortId(OwnerId), <<"host">>}, joins : JoinedReferences,
   networks : {0, 1}, ports : BOOLEAN, rest : {<<"rest">>}, optedOut : BOOLEAN]

Recreations ==
  [container : Owners, dependent : {Nothing}, ids : {NewIds}, exposes : BOOLEAN,
   version : {"old", "new", "unreadable"}, host : {<<"host">>}, rolledBack : {FALSE}]
Repairs ==
  [container : {CHOOSE o \in Owners : o.joins = Nothing /\ ~o.optedOut}, dependent : Peers, ids : {NewIds},
   repairedId : {<<"2", "2", "1", "1">>}, exposes : BOOLEAN, version : {"old", "new"}, rolledBack : BOOLEAN,
   host : {<<"host">>, ShortId(PeerId), ShortId(OwnerId)}]

Inputs ==
  [of : {"recreation"}, value : Recreations] \cup [of : {"repair"}, value : Repairs] \cup
  [of : {"check"}, value : Checks] \cup
  [of : {"load"}, value : Loads] \cup [of : {"login"}, value : Logins]
  \cup [of : {"targets"}, value : TargetInputs] \cup [of : {"mail"}, value : Mails]
  \cup [of : {"reference"}, value : References] \cup [of : {"field"}, value : Texts \X {"minute", "dom"}]

-----------------------------------------------------------------------------
(* One kind of input at a time.                                            *)

NoLabels == [enable |-> Absent, mode |-> Absent, command |-> Absent, timeout |-> Absent, wtEnable |-> Absent,
             monitorOnly |-> Absent, wtCommand |-> Absent, wtTimeout |-> Absent, other |-> Absent]
Labelless == labels = NoLabels /\ defaults = [watchAll |-> FALSE, mode |-> "watch"]
Timeless == schedule = Malformed /\ clock = 0 /\ nextFire = Never /\ asked = 0

ReadLabels == Init /\ Timeless /\ input = [of |-> "labels", value |-> Absent]
ReadSchedule ==
  /\ Labelless /\ input = [of |-> "schedule", value |-> Absent]
  /\ \E expr \in Expressions, now \in 0 .. 2 * LastMinute : Seed(expr, now)
ReadOther == Labelless /\ Timeless /\ input \in Inputs

InputInit == ReadLabels \/ ReadSchedule \/ ReadOther

InputNext ==
  \/ input.of = "labels" /\ Next /\ UNCHANGED <<cronVars, input>>
  \/ input.of = "schedule" /\ CronNext /\ UNCHANGED <<vars, input>>

InputSpec == InputInit /\ [][InputNext]_<<vars, cronVars, input>>

-----------------------------------------------------------------------------
(* The properties of the inputs that are read once.                        *)

\* A reference means one image to all that read it: the registry is asked for the digest
\* of what the daemon would pull, with that registry's credentials; the digests the image
\* counts as are those of its repository; and a rollout tells members on it from others.
ReferencesAgree ==
  input.of = "reference" =>
    AsksWhatIsPulled(input.value) /\ KnownByItsDigests(input.value) /\ RolledOutTogether(input.value)

\* A schedule's fields match what they say.
FieldsRead == input.of = "field" => FieldReads(input.value[1], input.value[2])

\* What the file and the environment say reaches the part it is meant for, and no other:
\* a typo in the environment is harmless; credentials meet under all names of a registry
\* and never mix; a variable named as documented (in capitals, without a dash) does not
\* take a target of the file away nor change it but for its secret, and the secret reaches
\* its target; mail goes out the way it was asked for.
ConfigurationKept ==
  /\ input.of = "load" => TypoIgnored(input.value)
  /\ input.of = "login" => CredentialsMeet(input.value)
  /\ input.of = "targets" => FileTargetsStay(input.value) /\ SecretsReach(input.value)
  /\ input.of = "mail" => MailAsAsked(input.value)

\* A container keeps its identity, and freshdock knows its own, across updates; one that
\* cannot be created anew is not stopped in the first place, unless it is in another's
\* namespace or the daemon's version cannot be read; and the containers in a namespace
\* follow its owner to the replacement.
IdentityKept ==
  /\ input.of = "recreation" => StaysItself(input.value)
  /\ input.of = "repair" => NamespaceFollows(input.value)

\* The table of `check` agrees with itself, and says of every row what it was told: that
\* there is an update, that there is none, or nothing, exactly when that is so.
TableConsistent == input.of = "check" => RowsHold(input.value.containers, input.value.world)
=============================================================================
