------------------------------- MODULE Settings -------------------------------
(***************************************************************************)
(* The configuration that a start reads (config.rs): freshdock.toml, and   *)
(* over it the environment, and what the notifications make of their part  *)
(* (notify/mod.rs, notify/smtp.rs).  The tables of the file are hash maps, *)
(* whose order is arbitrary: a definition that depends on it gives the set *)
(* of its possible results.                                                *)
(***************************************************************************)
EXTENDS Naturals, FiniteSetsExt

CONSTANTS
  Unset,      \* a value that is not given
  Bad,        \* a value that does not parse
  Refused     \* no start, or a target that is skipped

ASSUME SettingsAssumption ==
  /\ Unset # Bad /\ {Unset, Bad} \cap BOOLEAN = {} /\ Bad # 600
  /\ {Unset, Bad, Refused} \cap {"starttls", "implicit", "none", "telegram", "smtp", "declared",
                               "URL", "TRIGGERS", "BOT_TOKEN", "PASSWORD"} = {}

-----------------------------------------------------------------------------
(* Config::load and [settings].                                            *)

\* Mutant: a variable overrides the file before it is known to parse.
LayeredEagerly(env, file, default) ==
  IF env # Unset THEN IF env = Bad THEN default ELSE env
  ELSE IF file \notin {Unset, Bad} THEN file ELSE default

Layered(env, file, default) ==
  IF env \notin {Unset, Bad} THEN env ELSE IF file \notin {Unset, Bad} THEN file ELSE default

ResolvedSettings(file, env) ==
  [mode |-> Layered(env.mode, file.mode, Unset),
   cleanup |-> Layered(env.cleanup, file.cleanup, FALSE),
   composeAware |-> Layered(env.composeAware, file.composeAware, TRUE),
   oneShotTimeout |-> Layered(env.oneShotTimeout, file.oneShotTimeout, 600)]

\* Of the file only default_mode may be Bad: any other value is a parse error.
Load(found, explicit, file, env) ==
  IF found = "unreadable" \/ (found = "missing" /\ explicit) THEN Refused
  ELSE IF found = "read" /\ Bad \in {file.cleanup, file.composeAware, file.oneShotTimeout} THEN Refused
  ELSE ResolvedSettings(IF found = "missing" THEN [s \in DOMAIN file |-> Unset] ELSE file, env)

-----------------------------------------------------------------------------
(* build_store and CredentialStore::get.                                   *)

\* canonicalize_host; capitals and blanks are gone.
CanonicalName(key) ==
  CASE key \in {"dockerhub", "docker", "docker.io", "registry-1.docker.io", "index.docker.io"} -> "docker.io"
    [] key \in {"ghcr", "ghcr.io"} -> "ghcr.io"
    [] key \in {"quay", "quay.io"} -> "quay.io"
    [] key \in {"lscr", "lscr.io"} -> "lscr.io"
    [] OTHER -> key

\* The names under which `table` has an entry for the host.
NamesFor(table, host) == {k \in DOMAIN table : CanonicalName(k) = host}

\* Mutant: the two variables of a registry meet only under one name.
EnvCredentialsByName(env, host) ==
  LET whole == {k \in NamesFor(env, host) : Unset \notin {env[k].username, env[k].token}}
  IN IF whole = {} THEN {[username |-> Unset, token |-> Unset]} ELSE {env[k] : k \in whole}

\* The variables of one host under all its names, each part on its own; of two names
\* that give the same part the later in the environment wins.
EnvCredentials(env, host) ==
  LET given(part) == {env[k][part] : k \in NamesFor(env, host)} \ {Unset}
      one(part) == IF given(part) = {} THEN {Unset} ELSE given(part)
  IN {[username |-> u, token |-> t] : u \in one("username"), t \in one("token")}

\* What can be found for the host: Refused stands for no credentials.
CredentialsOf(file, env, host) ==
  LET merged(entry, e) == [username |-> IF e.username # Unset THEN e.username ELSE entry.username,
                           token |-> IF e.token # Unset THEN e.token ELSE entry.token]
  IN IF NamesFor(file, host) # {}
       THEN {merged(file[k], e) : k \in NamesFor(file, host), e \in EnvCredentials(env, host)}
     ELSE {IF e.token # Unset THEN e ELSE Refused : e \in EnvCredentials(env, host)}

-----------------------------------------------------------------------------
(* build_notifications.  A name is [base, case, sep]: ops-mail is of lower *)
(* case and has a dash.                                                    *)

EnvName(n) == [n EXCEPT !.case = "upper", !.sep = IF @ = "dash" THEN "underscore" ELSE @]
Lowered(n) == [n EXCEPT !.case = "lower"]

\* Mutant: the names in the file are compared as they are written there.
FileNamesVerbatim(file) == DOMAIN file

FileNames(file) == {EnvName(n) : n \in DOMAIN file}

\* A variable is [name, tail, value]: the tail is URL, TRIGGERS, BOT_TOKEN or PASSWORD.
Given(env, name, tail) ==
  LET set == {v \in env : v.name = name /\ v.tail = tail}
  IN IF set = {} THEN Unset ELSE (CHOOSE v \in set : TRUE).value

\* declare_env_targets.  Two names that differ in case only take the same place, and
\* one of them wins.
Declared(file, env) ==
  LET wanted == {n \in {v.name : v \in env} \ FileNames(file) :
                   Given(env, n, "URL") \notin {Unset, Bad}}
      target(n) == [origin |-> "env", kind |-> Given(env, n, "URL"), secret |-> "declared",
                    triggers |-> Given(env, n, "TRIGGERS")]
      winners == {W \in SUBSET wanted :
                    \A n \in wanted : Cardinality({w \in W : Lowered(w) = Lowered(n)}) = 1}
      from(W, k) == CHOOSE w \in W : Lowered(w) = k
  IN {[k \in DOMAIN file \cup {Lowered(w) : w \in W} |->
         IF k \in {Lowered(w) : w \in W} THEN target(from(W, k)) ELSE file[k]] : W \in winners}

SecretTail(kind) == IF kind = "telegram" THEN "BOT_TOKEN" ELSE IF kind = "smtp" THEN "PASSWORD" ELSE Unset

\* Mutant: the secrets are laid over the targets of the file only.
OverlaidFile(targets, env) ==
  {[k \in DOMAIN targets |->
      LET secret == Given(env, EnvName(k), SecretTail(targets[k].kind))
      IN IF secret = Unset \/ targets[k].origin # "file" THEN targets[k]
         ELSE [targets[k] EXCEPT !.secret = secret]]}

\* Of several targets with one environment name only one is in the index.
Overlaid(targets, env) ==
  LET indexed == {I \in SUBSET DOMAIN targets :
                    \A k \in DOMAIN targets : Cardinality({i \in I : EnvName(i) = EnvName(k)}) = 1}
      secret(k) == Given(env, EnvName(k), SecretTail(targets[k].kind))
  IN {[k \in DOMAIN targets |->
         IF k \in I /\ secret(k) # Unset THEN [targets[k] EXCEPT !.secret = secret(k)] ELSE targets[k]] :
        I \in indexed}

Notifications(file, env) == UNION {Overlaid(t, env) : t \in Declared(file, env)}

-----------------------------------------------------------------------------
(* SMTP: resolve_smtp_tls, smtp_transport, SmtpNotifier::new and the smtp  *)
(* arm of parse_notify_url.                                                *)

\* Mutant: `starttls = false` is read as no TLS at all.
SmtpTlsOff(tls, starttls) ==
  IF tls = Unset THEN IF starttls = FALSE THEN "none" ELSE "starttls"
  ELSE IF starttls = Unset \/ <<tls, starttls>> \in {<<"starttls", TRUE>>, <<"none", FALSE>>} THEN tls
  ELSE Refused

SmtpTls(tls, starttls) ==
  IF tls = Unset THEN IF starttls = FALSE THEN "implicit" ELSE "starttls"
  ELSE IF starttls = Unset \/ <<tls, starttls>> \in {<<"starttls", TRUE>>, <<"implicit", FALSE>>} THEN tls
  ELSE Refused

DefaultPort == [starttls |-> 587, implicit |-> 465, none |-> 25]

\* SmtpNotifier::new.
Notifier(t, tls, port) ==
  IF ~t.addressed \/ (t.username = Unset) # (t.password = Unset) THEN Refused
  ELSE [tls |-> tls, port |-> port, login |-> <<t.username, t.password>>]

\* The target of a [notifications] table; of one that the file's syntax does not
\* allow there is none.
FromTable(t) ==
  LET tls == SmtpTls(t.tls, t.starttls)
  IN IF tls = Refused THEN Refused
     ELSE Notifier(t, tls, IF t.port = Unset THEN DefaultPort[tls] ELSE t.port)

\* The same of a URL: a tls that does not parse is an error, a starttls is ignored;
\* the variable with the password comes after the URL.
FromUrl(t, password) ==
  LET tls == SmtpTls(t.tls, IF t.starttls = Bad THEN Unset ELSE t.starttls)
  IN IF t.tls = Bad \/ tls = Refused THEN Refused
     ELSE FromTable([t EXCEPT !.tls = tls, !.starttls = Unset,
                              !.password = IF password = Unset THEN @ ELSE password])

-----------------------------------------------------------------------------
(* What the configuration promises.                                        *)

\* A mistyped variable changes nothing: the daemon starts, or not, and with the very
\* settings, as if it were not there, while one that parses always counts.
TypoIgnored(c) ==
  LET without == [s \in DOMAIN c.env |-> IF c.env[s] = Bad THEN Unset ELSE c.env[s]]
      loaded == Load(c.found, c.explicit, c.file, c.env)
  IN /\ loaded = Load(c.found, c.explicit, c.file, without)
     /\ loaded # Refused => \A s \in DOMAIN c.env :
          /\ c.env[s] \notin {Unset, Bad} => loaded[s] = c.env[s]
          /\ loaded[s] # Bad

\* A registry is spoken to with a token exactly if one was given for it under any of
\* its names; the environment's part wins over the file's whatever name either goes
\* by, and what is left of the file is from a single entry, never of two accounts.
CredentialsMeet(c) ==
  \A host \in {CanonicalName(k) : k \in DOMAIN c.file \cup DOMAIN c.env} :
    LET fromEnv(part) == {c.env[k][part] : k \in NamesFor(c.env, host)} \ {Unset}
        entries == {c.file[k] : k \in NamesFor(c.file, host)}
        tokens == fromEnv("token") \cup {e.token : e \in entries}
    IN \A found \in CredentialsOf(c.file, c.env, host) :
         IF tokens = {} THEN found = Refused
         ELSE /\ found # Refused
              /\ fromEnv("token") # {} => found.token \in fromEnv("token")
              /\ fromEnv("username") # {} => found.username \in fromEnv("username")
              /\ entries # {} => \E e \in entries :
                   /\ fromEnv("token") = {} => found.token = e.token
                   /\ fromEnv("username") = {} => found.username = e.username

\* A variable in the form that the documentation gives, in capitals without a dash,
\* never takes the place of a target of the file, nor changes it but for its secret.
FileTargetsStay(c) ==
  (\A v \in c.env : v.name = EnvName(v.name)) =>
    \A targets \in Notifications(c.file, c.env) : \A n \in DOMAIN c.file :
      [targets[n] EXCEPT !.secret = "declared"] = c.file[n]

\* A secret in the environment reaches the target that its name stands for, of the
\* file or declared by a variable of that name, and no other; of two targets whose
\* names are one in the environment it reaches at most one.
SecretsReach(c) ==
  \A targets \in Notifications(c.file, c.env) :
    /\ \A v \in {v \in c.env : v.tail \in {"BOT_TOKEN", "PASSWORD"}} :
         LET meant == {n \in DOMAIN targets : EnvName(n) = v.name /\ SecretTail(targets[n].kind) = v.tail}
             reached == {n \in DOMAIN targets : targets[n].secret = v.value}
         IN /\ reached \subseteq meant /\ Cardinality(reached) <= 1
            /\ Cardinality({n \in DOMAIN targets : EnvName(n) = v.name}) = 1 => reached = meant
    /\ \A v \in {v \in c.env : v.tail = "URL" /\ v.value # Bad} :
         v.name = EnvName(v.name) /\ v.name \notin {EnvName(n) : n \in DOMAIN c.file} =>
           \E n \in DOMAIN targets : EnvName(n) = v.name

\* Mail is sent in the clear only where `tls` says none, the file and a URL that say
\* the same make the same target, the port is of the mode unless it is given, and
\* no login is ever dropped or halved on the way.
MailAsAsked(t) ==
  LET fromFile == IF Bad \in {t.tls, t.starttls} THEN Refused ELSE FromTable(t)
      fromUrl == FromUrl(t, Unset)
      later == FromUrl([t EXCEPT !.password = Unset], t.password)
  IN /\ \A target \in {fromFile, fromUrl, later} \ {Refused} :
          /\ target.tls = "none" <=> t.tls = "none"
          /\ t.starttls = FALSE => target.tls # "starttls"
          /\ target.port \in {t.port, DefaultPort[target.tls]}
          /\ t.port # Unset => target.port = t.port
          /\ target.login = <<t.username, t.password>>
     /\ Bad \notin {t.tls, t.starttls} => fromFile = fromUrl
     /\ fromUrl = later
     /\ t.tls = "implicit" /\ t.starttls = FALSE /\ t.addressed /\ Unset \notin {t.username, t.password}
          => fromFile # Refused
=============================================================================
