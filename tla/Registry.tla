------------------------------- MODULE Registry -------------------------------
(***************************************************************************)
(* The registry client (registry/digest.rs, registry/auth.rs): how a probe *)
(* gets the digest of an image.  The probes are of images of one           *)
(* repository, so they share an entry of the token cache; `freshdock check`*)
(* runs them at once, the daemon one after the other.                      *)
(*                                                                         *)
(* The registry and its token endpoint are outside the repository.  They   *)
(* issue a token for what its bearer may see at that time, and it is dead  *)
(* once its lifetime is over or it is revoked.  The image may turn public  *)
(* or private, and the configured credentials be revoked.  A manifest      *)
(* request is answered up to MaxLag after it was sent, a token is in hand  *)
(* up to MaxLag after it was issued.                                       *)
(***************************************************************************)
EXTENDS Integers, FiniteSetsExt

CONSTANTS
  Probers,
  Lifetimes,    \* what token endpoints say in expires_in; Omitted if nothing
  Omitted,
  Forever,      \* a lifetime beyond what the client's clock can hold
  DefaultTtl,   \* DEFAULT_TTL
  Skew,         \* EXPIRY_SKEW
  MaxLag,       \* bound: time that a message takes, twice that at most the skew, which is
                \*   there to cover it
  MaxFaults,    \* bound: answers that are lost or no good
  MaxChanges,   \* bound: changes of rights and revocations
  NoToken

\* A token: whether it gives access, the rest of its life, and whether it was revoked.
Token == [access : BOOLEAN, left : 0 .. Forever, revoked : BOOLEAN]

ASSUME RegistryAssumption ==
  /\ Lifetimes \subseteq 0 .. Forever \cup {Omitted} /\ Forever \in Nat
  /\ DefaultTtl \in 0 .. Forever /\ Skew \in Nat /\ MaxLag \in Nat
  /\ MaxFaults \in Nat /\ MaxChanges \in Nat
  /\ DefaultTtl > Skew /\ 2 * MaxLag <= Skew
  /\ NoToken \notin Token \cup [token : Token, ttl : 0 .. Forever]

VARIABLES
  probe,        \* [Probers -> ...]: where each probe is
  cache,        \* the cached token, with the time until the client drops it
  public,       \* anyone may see the image
  credentials,  \* "none", "good" or "revoked", by the registry
  lifetime,     \* of the tokens that the registry issues
  faults, changes

registryVars == <<probe, cache, public, credentials, lifetime, faults, changes>>

Outcomes == {"none", "digest", "auth required", "credentials rejected", "network unavailable", "error"}

Idle == [at |-> "idle", token |-> NoToken, cached |-> FALSE, age |-> 0, outcome |-> "none", excused |-> FALSE]

RegistryTypeOK ==
  /\ probe \in [Probers -> [at : {"idle", "connecting", "first", "exchange", "granted", "anonymous", "second", "done"},
                            token : Token \cup {NoToken}, cached : BOOLEAN, age : 0 .. MaxLag,
                            outcome : Outcomes, excused : BOOLEAN]]
  /\ cache = NoToken \/ cache \in [token : Token, ttl : 0 .. Forever]
  /\ public \in BOOLEAN
  /\ credentials \in {"none", "good", "revoked"} /\ lifetime \in 0 .. Forever
  /\ faults \in 0 .. MaxFaults /\ changes \in 0 .. MaxChanges

RegistryInit ==
  /\ probe = [p \in Probers |-> Idle] /\ cache = NoToken
  /\ public \in BOOLEAN /\ credentials \in {"none", "good", "revoked"}
  /\ lifetime \in {IF l = Omitted THEN DefaultTtl ELSE l : l \in Lifetimes}
  /\ faults = 0 /\ changes = 0

MaySee == public \/ credentials = "good"

-----------------------------------------------------------------------------
(* CachedToken.                                                            *)

\* Mutant: the lifetime is used to its end.
TtlUnskewed(life) == IF life = Forever THEN DefaultTtl ELSE IF life > 1 THEN life ELSE 1

\* Mutant: a lifetime that the clock cannot hold is cut to the longest it can.
TtlSaturated(life) == IF life = Forever THEN Forever ELSE IF life > Skew THEN life - Skew ELSE 1

\* Mutant: nothing is left of a lifetime below the skew.
TtlUnfloored(life) == IF life = Forever THEN DefaultTtl ELSE life - Skew

\* How long a token of that lifetime is kept.
Ttl(life) ==
  IF life = Forever THEN DefaultTtl ELSE IF life > Skew THEN life - Skew ELSE 1

CachedToken == IF cache # NoToken /\ cache.ttl > 0 THEN cache.token ELSE NoToken

-----------------------------------------------------------------------------
(* The registry.                                                           *)

Issued(access) == [access |-> access, left |-> lifetime, revoked |-> FALSE]

\* Asked without credentials for a private image, some token endpoints refuse, others
\* give a token that opens nothing.
AnonymousAnswers == IF public THEN {Issued(TRUE)} ELSE {Issued(FALSE), NoToken}

\* The status of a manifest request.  A public image may need no token at all.
Statuses(token) ==
  IF token = NoToken THEN IF public THEN {200, 401} ELSE {401}
  ELSE IF token.left = 0 THEN {401}
  ELSE IF token.access THEN {200} ELSE {401, 403}

-----------------------------------------------------------------------------
(* fetch_digest.                                                           *)

Set(p, r) == probe' = [probe EXCEPT ![p] = r]
Move(p, at) == Set(p, [probe[p] EXCEPT !.at = at, !.age = 0])

\* A verdict is excused if a fault or a change came in between, the token was cached
\* before such a change, or its lifetime is below the skew.
Excused(r) ==
  r.excused \/ (r.token # NoToken /\ (lifetime <= Skew \/ (r.cached /\ r.token.access # MaySee)))

End(p, outcome) ==
  Set(p, [Idle EXCEPT !.at = "done", !.outcome = outcome, !.excused = Excused(probe[p])])

World == <<public, credentials, lifetime, changes>>

Start(p) ==
  /\ probe[p].at \in {"idle", "done"}
  /\ Set(p, [Idle EXCEPT !.at = "connecting"])
  /\ UNCHANGED <<cache, World, faults>>

\* The preflight succeeds; the cache is read and the manifest requested.
Connect(p) ==
  /\ probe[p].at = "connecting"
  /\ Set(p, [probe[p] EXCEPT !.at = "first", !.token = CachedToken, !.cached = CachedToken # NoToken])
  /\ UNCHANGED <<cache, World, faults>>

\* A 401 to the first request leads to the token endpoint, to the second to an error.
Answered(p) ==
  /\ probe[p].at \in {"first", "second"}
  /\ \E status \in Statuses(probe[p].token) :
       IF status = 200 THEN End(p, "digest")
       ELSE IF status = 401 /\ probe[p].at = "first" THEN Move(p, "exchange")
       ELSE End(p, "auth required")
  /\ UNCHANGED <<cache, World, faults>>

Granted(p, token) ==
  Set(p, [probe[p] EXCEPT !.at = "granted", !.token = token, !.cached = FALSE, !.age = 0])

\* Mutant: rejected credentials are the end of it.
ExchangeOnce(p) ==
  /\ probe[p].at = "exchange"
  /\ IF credentials = "good" THEN Granted(p, Issued(TRUE))
     ELSE IF credentials = "revoked" THEN End(p, "credentials rejected")
     ELSE \E token \in AnonymousAnswers :
            IF token = NoToken THEN End(p, "auth required") ELSE Granted(p, token)
  /\ UNCHANGED <<cache, World, faults>>

\* request_token, with the credentials if there are any.
Exchange(p) ==
  /\ probe[p].at = "exchange"
  /\ IF credentials = "good" THEN Granted(p, Issued(TRUE))
     ELSE IF credentials = "revoked" THEN Move(p, "anonymous")
     ELSE \E token \in AnonymousAnswers :
            IF token = NoToken THEN End(p, "auth required") ELSE Granted(p, token)
  /\ UNCHANGED <<cache, World, faults>>

\* request_token again, after the credentials were rejected.
ExchangeAnonymously(p) ==
  /\ probe[p].at = "anonymous"
  /\ \E token \in AnonymousAnswers :
       IF token = NoToken THEN End(p, "credentials rejected") ELSE Granted(p, token)
  /\ UNCHANGED <<cache, World, faults>>

\* The token is here: it is cached, over what another probe may have put there, and
\* the manifest is requested again.
Receive(p) ==
  /\ probe[p].at = "granted"
  /\ cache' = [token |-> probe[p].token, ttl |-> Ttl(lifetime)]
  /\ Move(p, "second")
  /\ UNCHANGED <<World, faults>>

\* An answer does not come, or is of no use: no connection or a timeout; 429 or 5xx;
\* no challenge, no token or no digest in it; 403 to the first request, which gets no
\* challenge and is the outcome "auth required" there.
Fail(p) ==
  /\ faults < MaxFaults /\ faults' = faults + 1
  /\ probe[p].at \in {"connecting", "first", "exchange", "anonymous", "granted", "second"}
  /\ \E outcome \in {"network unavailable", "error", "auth required"} :
       /\ outcome # "network unavailable" => probe[p].at # "connecting"
       /\ outcome = "auth required" => probe[p].at \in {"first", "granted"}
       /\ Set(p, [Idle EXCEPT !.at = "done", !.outcome = outcome, !.excused = TRUE])
  /\ UNCHANGED <<cache, World>>

-----------------------------------------------------------------------------
(* Time, and the registry's owner.                                         *)

InFlight(p) == probe[p].at \in {"first", "granted", "second"}

Older(token) ==
  IF token = NoToken \/ lifetime = Forever \/ token.left = 0 THEN token
  ELSE [token EXCEPT !.left = @ - 1]

Pass ==
  /\ \A p \in Probers : InFlight(p) => probe[p].age < MaxLag
  /\ probe' = [p \in Probers |-> [probe[p] EXCEPT !.token = Older(@),
                                                  !.age = IF InFlight(p) THEN @ + 1 ELSE @]]
  /\ cache' = IF cache = NoToken THEN cache
              ELSE [token |-> Older(cache.token),
                    ttl |-> IF cache.ttl \in {0, Forever} THEN cache.ttl ELSE cache.ttl - 1]
  /\ UNCHANGED <<World, faults>>

Killed(token) == IF token = NoToken THEN token ELSE [token EXCEPT !.left = 0, !.revoked = TRUE]

\* The image turns public or private, the credentials are revoked, or all tokens are.
Change ==
  /\ changes < MaxChanges /\ changes' = changes + 1
  /\ \/ /\ public' = ~public
        /\ probe' = [p \in Probers |-> [probe[p] EXCEPT !.excused = TRUE]]
        /\ UNCHANGED <<credentials, cache>>
     \/ /\ credentials = "good" /\ credentials' = "revoked"
        /\ probe' = [p \in Probers |-> [probe[p] EXCEPT !.excused = TRUE]]
        /\ UNCHANGED <<public, cache>>
     \/ /\ probe' = [p \in Probers |-> [probe[p] EXCEPT !.token = Killed(@), !.excused = TRUE]]
        /\ cache' = IF cache = NoToken THEN cache ELSE [cache EXCEPT !.token = Killed(@)]
        /\ UNCHANGED <<public, credentials>>
  /\ UNCHANGED <<lifetime, faults>>

Advance(p) == Start(p) \/ Connect(p) \/ Answered(p) \/ Exchange(p) \/ ExchangeAnonymously(p) \/ Receive(p)

RegistryNext == Pass \/ Change \/ \E p \in Probers : Advance(p) \/ Fail(p)

RegistrySpec ==
  /\ RegistryInit /\ [][RegistryNext]_registryVars
  /\ WF_registryVars(Pass) /\ \A p \in Probers : WF_registryVars(Advance(p))

-----------------------------------------------------------------------------
(* What the client promises.                                               *)

\* A cached token is alive when it reaches the registry, however late its answer came
\* and the request goes out, unless it was revoked or tokens do not live as long as the
\* skew: no probe spends a request on a dead one.
CachedTokensAlive ==
  \A p \in Probers :
    probe[p].at = "first" /\ probe[p].cached /\ ~probe[p].token.revoked /\ lifetime > Skew
      => probe[p].token.left > 0

\* The cache is sound: no lifetime underflows, and what is in it is alive.
RegistryInv == RegistryTypeOK /\ CachedTokensAlive

\* What a probe may answer: the digest if the image may be seen, be it anonymously with
\* credentials that were rejected; "credentials rejected" only if they were.
TrueOutcome(outcome) ==
  /\ MaySee => outcome = "digest"
  /\ ~MaySee => \/ outcome = "auth required"
                \/ outcome = "credentials rejected" /\ credentials = "revoked"

\* Unless it is excused the outcome is what the registry holds true.
HonestVerdict ==
  \A p \in Probers :
    probe[p].at = "done" /\ ~probe[p].excused => TrueOutcome(probe[p].outcome)

\* Once an image may be seen for good every probe comes to find its digest, whatever was
\* cached, revoked or denied before; unless tokens are dead before they are used.
Recovers ==
  \A p \in Probers :
    lifetime > Skew /\ <>[]MaySee => []<>(probe[p].at = "done" /\ probe[p].outcome = "digest")
=============================================================================
