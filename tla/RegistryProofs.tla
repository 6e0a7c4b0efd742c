--------------------------- MODULE RegistryProofs ---------------------------
(***************************************************************************)
(* The token cache and the verdicts of a probe, for any number of probes,  *)
(* lifetimes, faults and changes, and all interleavings of their requests. *)
(***************************************************************************)
EXTENDS Registry, TLAPS

ProbeState ==
  [at : {"idle", "connecting", "first", "exchange", "granted", "anonymous", "second", "done"},
   token : Token \cup {NoToken}, cached : BOOLEAN, age : 0 .. MaxLag,
   outcome : Outcomes, excused : BOOLEAN]

\* A token that is as old as `age`, at most.
Aged(token, age) ==
  token.left >= (IF lifetime = Forever THEN Forever ELSE lifetime - age)

\* The client drops its token so early that it survives another message on its way.
CacheSound ==
  cache # NoToken /\ lifetime > Skew =>
    /\ ~cache.token.revoked /\ cache.ttl > 0
         => Aged(cache.token, lifetime - cache.ttl - Skew + MaxLag)
    /\ cache.ttl = Forever => lifetime = Forever

\* A cached token has at least one unit of time left when it was read.
FirstSound(r) ==
  r.at = "first" =>
    /\ r.cached <=> r.token # NoToken
    /\ r.cached /\ ~r.token.revoked /\ lifetime > Skew
         => Aged(r.token, lifetime - 1 - Skew + MaxLag + r.age)

\* A token that was fetched is as old as the messages took, and opens what its bearer may
\* see, unless something has changed since.
FreshSound(r) ==
  /\ r.at = "granted" => r.token # NoToken /\ ~r.cached
                         /\ (~r.token.revoked => Aged(r.token, r.age))
  /\ r.at = "second" => r.token # NoToken /\ ~r.cached
                        /\ (~r.token.revoked => Aged(r.token, MaxLag + r.age))
  /\ r.at \in {"granted", "second"} /\ ~r.excused
       => ~r.token.revoked /\ r.token.access = MaySee

\* Where an unexcused probe is tells what the registry has denied it.
DeniedSound(r) ==
  /\ r.at = "anonymous" => credentials = "revoked"
  /\ r.at = "done" /\ ~r.excused => TrueOutcome(r.outcome)

RegistryIInv ==
  /\ RegistryTypeOK /\ CacheSound
  /\ \A p \in Probers : FirstSound(probe[p]) /\ FreshSound(probe[p]) /\ DeniedSound(probe[p])

-----------------------------------------------------------------------------

LEMMA Numbers ==
  /\ Forever \in Nat /\ DefaultTtl \in Nat /\ Skew \in Nat /\ MaxLag \in Nat
  /\ DefaultTtl <= Forever /\ DefaultTtl > Skew /\ 2 * MaxLag <= Skew
  /\ MaxFaults \in Nat /\ MaxChanges \in Nat
BY RegistryAssumption

LEMMA Distinct == NoToken \notin Token /\ NoToken \notin [token : Token, ttl : 0 .. Forever]
BY RegistryAssumption

LEMMA TypeParts ==
  ASSUME RegistryTypeOK
  PROVE  /\ probe \in [Probers -> ProbeState]
         /\ public \in BOOLEAN /\ MaySee \in BOOLEAN /\ lifetime \in Nat /\ lifetime <= Forever
         /\ faults \in 0 .. MaxFaults /\ changes \in 0 .. MaxChanges
BY Numbers DEF RegistryTypeOK, ProbeState, MaySee

LEMMA TtlType ==
  ASSUME NEW life \in 0 .. Forever
  PROVE  Ttl(life) \in 0 .. Forever /\ Ttl(life) > 0
BY Numbers DEF Ttl

LEMMA IssuedType ==
  ASSUME RegistryTypeOK, NEW access \in BOOLEAN
  PROVE  /\ Issued(access) \in Token /\ Issued(access) # NoToken
         /\ Issued(access).access = access /\ ~Issued(access).revoked /\ Issued(access).left = lifetime
<1>1. lifetime \in 0 .. Forever
  BY DEF RegistryTypeOK
<1>2. Issued(access) \in Token
  BY <1>1 DEF Issued, Token
<1> QED
  BY <1>2, Distinct DEF Issued

\* A unit of time takes one unit of a token's life.
LEMMA OlderAged ==
  ASSUME RegistryTypeOK, NEW token \in Token
  PROVE  /\ Older(token) \in Token /\ Older(token) # NoToken
         /\ Older(token).access = token.access /\ Older(token).revoked = token.revoked
         /\ lifetime = Forever => Older(token) = token
         /\ \A age \in Int : Aged(token, age) => Aged(Older(token), age + 1)
<1>1. Older(token) \in Token /\ Older(token).access = token.access /\ Older(token).revoked = token.revoked
  BY Distinct, Numbers DEF Older, Token
<1>2. lifetime = Forever => Older(token) = token
  BY DEF Older
<1>3. ASSUME NEW age \in Int, Aged(token, age) PROVE Aged(Older(token), age + 1)
  BY <1>3, Distinct, Numbers, TypeParts DEF Aged, Older, Token
<1> QED
  BY <1>1, <1>2, <1>3, Distinct

LEMMA KilledType ==
  ASSUME NEW token \in Token
  PROVE  /\ Killed(token) \in Token /\ Killed(token) # NoToken
         /\ Killed(token).revoked /\ Killed(token).access = token.access
<1>1. Killed(token) = [token EXCEPT !.left = 0, !.revoked = TRUE]
  BY Distinct DEF Killed
<1>2. 0 \in 0 .. Forever
  BY Numbers
<1>3. Killed(token) \in Token /\ Killed(token).revoked /\ Killed(token).access = token.access
  BY <1>1, <1>2 DEF Token
<1> QED
  BY <1>3, Distinct

LEMMA IdleState ==
  ASSUME NEW at \in {"idle", "connecting", "done"}, NEW outcome \in Outcomes, NEW excused \in BOOLEAN
  PROVE  [Idle EXCEPT !.at = at, !.outcome = outcome, !.excused = excused] \in ProbeState
<1>1. 0 \in 0 .. MaxLag
  BY Numbers
<1> QED
  BY <1>1 DEF Idle, ProbeState

-----------------------------------------------------------------------------
(* The steps of one probe: its new state is sound, the world stays.        *)

LEMMA OneProbe ==
  ASSUME RegistryIInv, NEW p \in Probers, NEW r \in ProbeState, Set(p, r),
         UNCHANGED World, faults' \in 0 .. MaxFaults,
         FirstSound(r), FreshSound(r), DeniedSound(r),
         \/ UNCHANGED cache
         \/ cache' \in [token : Token, ttl : 0 .. Forever] /\ CacheSound'
  PROVE  RegistryIInv'
<1> USE DEF RegistryIInv
<1>1. probe' = [probe EXCEPT ![p] = r] /\ probe \in [Probers -> ProbeState]
  BY TypeParts DEF Set
<1>2. RegistryTypeOK'
  BY <1>1 DEF RegistryTypeOK, ProbeState, World
<1>3. CacheSound'
  BY DEF CacheSound, Aged, World
<1>4. ASSUME NEW q \in Probers
      PROVE  FirstSound(probe[q])' /\ FreshSound(probe[q])' /\ DeniedSound(probe[q])'
  <2>1. probe'[q] = IF q = p THEN r ELSE probe[q]
    BY <1>1
  <2>2. FirstSound(probe'[q]) /\ FreshSound(probe'[q]) /\ DeniedSound(probe'[q])
    BY <2>1
  <2> QED
    BY <2>2 DEF FirstSound, FreshSound, DeniedSound, TrueOutcome, Aged, MaySee, World
<1> QED
  BY <1>2, <1>3, <1>4

\* The outcome of a probe that ends.
LEMMA EndState ==
  ASSUME RegistryIInv, NEW p \in Probers, NEW outcome \in Outcomes, End(p, outcome),
         UNCHANGED World, UNCHANGED cache, UNCHANGED faults,
         ~Excused(probe[p]) => TrueOutcome(outcome)
  PROVE  RegistryIInv'
<1> DEFINE r == [Idle EXCEPT !.at = "done", !.outcome = outcome, !.excused = Excused(probe[p])]
<1>1. probe[p] \in ProbeState
  BY TypeParts DEF RegistryIInv
<1>2. Excused(probe[p]) \in BOOLEAN
  BY <1>1 DEF Excused, ProbeState
<1>3. r \in ProbeState
  BY <1>2, IdleState
<1>4. FirstSound(r) /\ FreshSound(r) /\ DeniedSound(r)
  BY <1>2 DEF Idle, FirstSound, FreshSound, DeniedSound
<1>5. faults' \in 0 .. MaxFaults
  BY TypeParts DEF RegistryIInv
<1> QED
  BY <1>3, <1>4, <1>5, OneProbe DEF End

LEMMA StartStep ==
  ASSUME RegistryIInv, NEW p \in Probers, Start(p)
  PROVE  RegistryIInv'
<1> DEFINE r == [Idle EXCEPT !.at = "connecting"]
<1>1. r \in ProbeState
  <2>1. 0 \in 0 .. MaxLag
    BY Numbers
  <2> QED
    BY <2>1 DEF Idle, ProbeState, Outcomes
<1>2. FirstSound(r) /\ FreshSound(r) /\ DeniedSound(r)
  BY DEF Idle, FirstSound, FreshSound, DeniedSound
<1> QED
  BY <1>1, <1>2, OneProbe, TypeParts DEF Start, RegistryIInv

\* A token is taken from the cache with at least one unit of its time there left.
LEMMA ConnectStep ==
  ASSUME RegistryIInv, NEW p \in Probers, Connect(p)
  PROVE  RegistryIInv'
<1> DEFINE r == [probe[p] EXCEPT !.at = "first", !.token = CachedToken, !.cached = CachedToken # NoToken]
<1> USE DEF RegistryIInv
<1>1. probe[p] \in ProbeState
  BY TypeParts
<1>2. CachedToken \in Token \cup {NoToken}
  BY DEF CachedToken, RegistryTypeOK
<1>3. r \in ProbeState
  BY <1>1, <1>2 DEF ProbeState
<1>4. r.at = "first" /\ r.token = CachedToken /\ (r.cached <=> CachedToken # NoToken) /\ r.age \in Nat
  <2>1. r.at = "first" /\ r.token = CachedToken /\ r.cached = (CachedToken # NoToken) /\ r.age = probe[p].age
    BY <1>1 DEF ProbeState
  <2>2. probe[p].age \in 0 .. MaxLag
    BY <1>1 DEF ProbeState
  <2>3. probe[p].age \in Nat
    BY <2>2, Numbers
  <2> QED
    BY <2>1, <2>3
<1>5. ASSUME r.cached, ~r.token.revoked, lifetime > Skew
      PROVE  Aged(r.token, lifetime - 1 - Skew + MaxLag + r.age)
  <2>1. cache # NoToken /\ cache.ttl > 0 /\ CachedToken = cache.token /\ cache.token \in Token /\ cache.ttl \in Nat
    BY <1>4, <1>5, Numbers DEF CachedToken, RegistryTypeOK
  <2>2. Aged(cache.token, lifetime - cache.ttl - Skew + MaxLag)
    BY <1>4, <1>5, <2>1 DEF CacheSound
  <2> QED
    BY <1>4, <2>1, <2>2, TypeParts, Numbers DEF Aged, Token
<1>6. FirstSound(r) /\ FreshSound(r) /\ DeniedSound(r)
  BY <1>4, <1>5 DEF FirstSound, FreshSound, DeniedSound
<1> QED
  BY <1>3, <1>6, OneProbe, TypeParts DEF Connect

\* A probe that moves on with the token it has, or that was just issued.
LEMMA MoveState ==
  ASSUME NEW r \in ProbeState, NEW token \in Token \cup {NoToken}, NEW cached \in BOOLEAN,
         NEW at \in {"exchange", "anonymous", "granted", "second"}
  PROVE  /\ [r EXCEPT !.at = at, !.age = 0] \in ProbeState
         /\ [r EXCEPT !.at = at, !.token = token, !.cached = cached, !.age = 0] \in ProbeState
<1>1. 0 \in 0 .. MaxLag
  BY Numbers
<1> QED
  BY <1>1 DEF ProbeState

\* A 401 to a token that is neither excused nor dead is no answer the registry gives.
LEMMA AnsweredStep ==
  ASSUME RegistryIInv, NEW p \in Probers, Answered(p)
  PROVE  RegistryIInv'
<1> USE DEF RegistryIInv
<1>1. probe[p] \in ProbeState /\ probe[p].token \in Token \cup {NoToken} /\ probe[p].age \in Nat /\ probe[p].age <= MaxLag
  BY TypeParts, Numbers DEF ProbeState
<1>2. UNCHANGED World /\ UNCHANGED cache /\ UNCHANGED faults
  BY DEF Answered
<1>3. PICK status \in Statuses(probe[p].token) :
        IF status = 200 THEN End(p, "digest")
        ELSE IF status = 401 /\ probe[p].at = "first" THEN Move(p, "exchange")
        ELSE End(p, "auth required")
  BY DEF Answered
<1>4. CASE status = 200
  <2>1. End(p, "digest") /\ "digest" \in Outcomes
    BY <1>3, <1>4 DEF Outcomes
  <2>2. ASSUME ~Excused(probe[p]) PROVE MaySee
    <3>1. CASE probe[p].token = NoToken
      BY <1>3, <1>4, <3>1 DEF Statuses, MaySee
    <3>2. CASE probe[p].token # NoToken
      <4>1. probe[p].token.access
        BY <1>3, <1>4, <3>2 DEF Statuses
      <4>2. CASE probe[p].at = "first"
        BY <1>1, <2>2, <3>2, <4>1, <4>2, TypeParts DEF Excused, FirstSound, ProbeState, Token
      <4>3. CASE probe[p].at = "second"
        BY <1>1, <2>2, <3>2, <4>1, <4>3, TypeParts DEF Excused, FreshSound
      <4> QED
        BY <4>2, <4>3 DEF Answered
    <3> QED
      BY <3>1, <3>2
  <2> QED
    BY <1>2, <2>1, <2>2, EndState DEF TrueOutcome
<1>5. CASE status = 401 /\ probe[p].at = "first"
  <2> DEFINE r == [probe[p] EXCEPT !.at = "exchange", !.age = 0]
  <2>1. r \in ProbeState
    BY <1>1, MoveState
  <2>2. r.at = "exchange"
    BY <1>1 DEF ProbeState
  <2>3. FirstSound(r) /\ FreshSound(r) /\ DeniedSound(r)
    BY <2>2 DEF FirstSound, FreshSound, DeniedSound
  <2>4. Set(p, r)
    BY <1>3, <1>5 DEF Move
  <2> QED
    BY <1>2, <2>1, <2>3, <2>4, OneProbe, TypeParts
<1>6. CASE status # 200 /\ ~(status = 401 /\ probe[p].at = "first")
  <2>1. End(p, "auth required") /\ "auth required" \in Outcomes
    BY <1>3, <1>6 DEF Outcomes
  <2>2. ASSUME ~Excused(probe[p]) PROVE ~MaySee
    <3>1. CASE probe[p].token = NoToken
      BY <1>3, <1>6, <3>1, ZenonT(60) DEF Statuses, Answered, FreshSound
    <3>2. CASE probe[p].token # NoToken
      <4>1. lifetime > Skew /\ probe[p].token \in Token /\ ~probe[p].excused
        BY <1>1, <2>2, <3>2, TypeParts, Numbers DEF Excused
      <4>2. CASE probe[p].at = "first"
        <5>1. status = 403
          BY <1>3, <1>6, <3>2, <4>2 DEF Statuses
        <5>2. ~probe[p].token.access
          <6>1. 403 \in Statuses(probe[p].token)
            BY <1>3, <5>1
          <6> QED
            BY <6>1, <3>2 DEF Statuses
        <5> QED
          BY <1>1, <2>2, <3>2, <4>2, <5>2, TypeParts DEF Excused, FirstSound, ProbeState, Token
      <4>3. CASE probe[p].at = "second"
        <5>1. ~probe[p].token.revoked /\ probe[p].token.access = MaySee /\ Aged(probe[p].token, MaxLag + probe[p].age)
          BY <4>1, <4>3 DEF FreshSound
        <5>2. probe[p].token.left # 0
          BY <1>1, <4>1, <5>1, TypeParts, Numbers DEF Aged, Token
        <5>3. ~probe[p].token.access
          <6>1. status \in Statuses(probe[p].token) /\ status # 200 /\ probe[p].token.left # 0
            BY <1>3, <1>6, <5>2
          <6> QED
            BY <6>1, <3>2 DEF Statuses
        <5> QED
          BY <5>1, <5>3
      <4> QED
        BY <4>2, <4>3 DEF Answered
    <3> QED
      BY <3>1, <3>2
  <2> QED
    BY <1>2, <2>1, <2>2, EndState DEF TrueOutcome
<1> QED
  BY <1>4, <1>5, <1>6

\* A token that is issued now opens what may be seen now.
LEMMA GrantedStep ==
  ASSUME RegistryIInv, NEW p \in Probers, NEW access \in BOOLEAN, Granted(p, Issued(access)),
         access = MaySee, UNCHANGED <<cache, World, faults>>
  PROVE  RegistryIInv'
<1> USE DEF RegistryIInv
<1> DEFINE r == [probe[p] EXCEPT !.at = "granted", !.token = Issued(access), !.cached = FALSE, !.age = 0]
<1>1. probe[p] \in ProbeState
  BY TypeParts
<1>2. /\ Issued(access) \in Token /\ Issued(access) # NoToken
      /\ Issued(access).access = access /\ ~Issued(access).revoked /\ Issued(access).left = lifetime
  BY IssuedType
<1>3. r \in ProbeState
  BY <1>1, <1>2, MoveState
<1>4. r.at = "granted" /\ r.token = Issued(access) /\ ~r.cached /\ r.age = 0
  BY <1>1 DEF ProbeState
<1>5. Aged(r.token, r.age)
  BY <1>2, <1>4, TypeParts, Numbers DEF Aged
<1>6. FirstSound(r) /\ FreshSound(r) /\ DeniedSound(r)
  BY <1>2, <1>4, <1>5 DEF FirstSound, FreshSound, DeniedSound
<1> QED
  BY <1>3, <1>6, OneProbe, TypeParts DEF Granted

\* An anonymous request is refused, or answered with a token for what anyone may see.
LEMMA AnonymousStep ==
  ASSUME RegistryIInv, NEW p \in Probers, UNCHANGED <<cache, World, faults>>, credentials # "good",
         NEW outcome \in Outcomes, ~Excused(probe[p]) /\ ~MaySee => TrueOutcome(outcome),
         \E token \in AnonymousAnswers :
           IF token = NoToken THEN End(p, outcome) ELSE Granted(p, token)
  PROVE  RegistryIInv'
<1> USE DEF RegistryIInv
<1>1. PICK token \in AnonymousAnswers : IF token = NoToken THEN End(p, outcome) ELSE Granted(p, token)
  OBVIOUS
<1>2. Issued(TRUE) # NoToken /\ Issued(FALSE) # NoToken
  BY IssuedType
<1>3. CASE token = NoToken
  <2>1. ~public
    BY <1>2, <1>3 DEF AnonymousAnswers
  <2> QED
    BY <1>1, <1>3, <2>1, EndState DEF MaySee
<1>4. CASE token # NoToken
  <2>1. token = Issued(public)
    BY <1>4, TypeParts DEF AnonymousAnswers
  <2>2. public = MaySee
    BY TypeParts DEF MaySee
  <2> QED
    BY <1>1, <1>4, <2>1, <2>2, TypeParts, GrantedStep
<1> QED
  BY <1>3, <1>4

LEMMA ExchangeStep ==
  ASSUME RegistryIInv, NEW p \in Probers, Exchange(p)
  PROVE  RegistryIInv'
<1> USE DEF RegistryIInv
<1>1. UNCHANGED <<cache, World, faults>>
  BY DEF Exchange
<1>2. CASE credentials = "good"
  <2>1. Granted(p, Issued(TRUE)) /\ TRUE = MaySee
    BY <1>2, TypeParts DEF Exchange, MaySee
  <2> QED
    BY <1>1, <2>1, GrantedStep
<1>3. CASE credentials = "revoked"
  <2> DEFINE r == [probe[p] EXCEPT !.at = "anonymous", !.age = 0]
  <2>1. probe[p] \in ProbeState
    BY TypeParts
  <2>2. r \in ProbeState
    BY <2>1, MoveState
  <2>3. r.at = "anonymous"
    BY <2>1 DEF ProbeState
  <2>4. FirstSound(r) /\ FreshSound(r) /\ DeniedSound(r)
    BY <1>3, <2>3 DEF FirstSound, FreshSound, DeniedSound
  <2>5. Set(p, r)
    BY <1>3 DEF Exchange, Move
  <2> QED
    BY <1>1, <2>2, <2>4, <2>5, OneProbe, TypeParts
<1>4. CASE credentials = "none"
  <2>1. \E token \in AnonymousAnswers :
          IF token = NoToken THEN End(p, "auth required") ELSE Granted(p, token)
    BY <1>4 DEF Exchange
  <2>2. "auth required" \in Outcomes /\ (~MaySee => TrueOutcome("auth required"))
    BY DEF Outcomes, TrueOutcome
  <2> QED
    BY <1>1, <1>4, <2>1, <2>2, AnonymousStep
<1> QED
  BY <1>2, <1>3, <1>4 DEF RegistryTypeOK

LEMMA ExchangeAnonymouslyStep ==
  ASSUME RegistryIInv, NEW p \in Probers, ExchangeAnonymously(p)
  PROVE  RegistryIInv'
<1> USE DEF RegistryIInv
<1>1. /\ UNCHANGED <<cache, World, faults>> /\ probe[p].at = "anonymous"
      /\ \E token \in AnonymousAnswers :
           IF token = NoToken THEN End(p, "credentials rejected") ELSE Granted(p, token)
  BY DEF ExchangeAnonymously
<1>2. DeniedSound(probe[p])
  OBVIOUS
<1>3. "credentials rejected" \in Outcomes
  BY DEF Outcomes
<1> QED
  BY <1>1, <1>2, <1>3, AnonymousStep DEF DeniedSound, TrueOutcome, Excused

\* The token is as old as its message, and kept until Skew before its end.
LEMMA ReceiveStep ==
  ASSUME RegistryIInv, NEW p \in Probers, Receive(p)
  PROVE  RegistryIInv'
<1> USE DEF RegistryIInv
<1> DEFINE r == [probe[p] EXCEPT !.at = "second", !.age = 0]
<1>1. /\ probe[p] \in ProbeState /\ probe[p].at = "granted" /\ FreshSound(probe[p])
      /\ cache' = [token |-> probe[p].token, ttl |-> Ttl(lifetime)] /\ UNCHANGED <<World, faults>>
  BY TypeParts DEF Receive
<1>2. /\ probe[p].token \in Token /\ probe[p].age \in Nat /\ probe[p].age <= MaxLag
      /\ ~probe[p].token.revoked => Aged(probe[p].token, probe[p].age)
  <2>1. probe[p].token \in Token \cup {NoToken} /\ probe[p].age \in 0 .. MaxLag
    BY <1>1 DEF ProbeState
  <2> QED
    BY <1>1, <2>1, Numbers DEF FreshSound
<1>3. r \in ProbeState
  BY <1>1, MoveState
<1>4. r.at = "second" /\ r.token = probe[p].token /\ r.cached = probe[p].cached
      /\ r.excused = probe[p].excused /\ r.age = 0
  BY <1>1 DEF ProbeState
<1>5. ~r.token.revoked => Aged(r.token, MaxLag + r.age)
  BY <1>2, <1>4, TypeParts, Numbers DEF Aged, Token
<1>6. FirstSound(r) /\ FreshSound(r) /\ DeniedSound(r)
  BY <1>1, <1>4, <1>5 DEF FirstSound, FreshSound, DeniedSound
<1>7. Ttl(lifetime) \in 0 .. Forever
  BY TtlType DEF RegistryTypeOK
<1>8. cache' \in [token : Token, ttl : 0 .. Forever]
  BY <1>1, <1>2, <1>7
<1>9. CacheSound'
  <2>1. cache'.token = probe[p].token /\ cache'.ttl = Ttl(lifetime) /\ lifetime' = lifetime
    BY <1>1 DEF World
  <2>2. ASSUME lifetime > Skew, ~probe[p].token.revoked
        PROVE  Aged(probe[p].token, lifetime - Ttl(lifetime) - Skew + MaxLag)
    BY <1>2, <2>2, TypeParts, Numbers DEF Aged, Ttl, Token
  <2>3. ASSUME lifetime > Skew, Ttl(lifetime) = Forever PROVE lifetime = Forever
    BY <2>3, TypeParts, Numbers DEF Ttl
  <2> QED
    BY <2>1, <2>2, <2>3 DEF CacheSound, Aged
<1> QED
  BY <1>1, <1>3, <1>6, <1>8, <1>9, OneProbe, TypeParts DEF Receive, Move

LEMMA FailStep ==
  ASSUME RegistryIInv, NEW p \in Probers, Fail(p)
  PROVE  RegistryIInv'
<1>1. faults' \in 0 .. MaxFaults
  <2>1. faults \in 0 .. MaxFaults /\ faults < MaxFaults /\ faults' = faults + 1
    BY TypeParts DEF Fail, RegistryIInv
  <2>2. MaxFaults \in Nat
    BY Numbers
  <2>3. faults + 1 \in 0 .. MaxFaults
    BY <2>1, <2>2
  <2> QED
    BY <2>1, <2>3
<1> USE DEF RegistryIInv
<1>2. PICK outcome \in {"network unavailable", "error", "auth required"} :
        Set(p, [Idle EXCEPT !.at = "done", !.outcome = outcome, !.excused = TRUE])
  BY DEF Fail
<1> DEFINE r == [Idle EXCEPT !.at = "done", !.outcome = outcome, !.excused = TRUE]
<1>3. outcome \in Outcomes
  BY DEF Outcomes
<1>4. r \in ProbeState
  BY <1>3, IdleState
<1>5. FirstSound(r) /\ FreshSound(r) /\ DeniedSound(r)
  BY DEF Idle, FirstSound, FreshSound, DeniedSound
<1> QED
  BY <1>1, <1>2, <1>4, <1>5, OneProbe DEF Fail

-----------------------------------------------------------------------------
(* The steps of the world, which every probe and the cache feel.           *)

LEMMA PassStep ==
  ASSUME RegistryIInv, Pass
  PROVE  RegistryIInv'
<1> USE DEF RegistryIInv
<1>1. /\ probe \in [Probers -> ProbeState]
      /\ probe' = [p \in Probers |-> [probe[p] EXCEPT !.token = Older(@),
                                                      !.age = IF InFlight(p) THEN @ + 1 ELSE @]]
      /\ \A p \in Probers : InFlight(p) => probe[p].age < MaxLag
      /\ UNCHANGED <<World, faults>>
  BY TypeParts DEF Pass
<1>2. ASSUME NEW p \in Probers
      PROVE  /\ probe'[p] \in ProbeState
             /\ probe'[p].at = probe[p].at /\ probe'[p].cached = probe[p].cached
             /\ probe'[p].outcome = probe[p].outcome /\ probe'[p].excused = probe[p].excused
             /\ probe'[p].token = Older(probe[p].token)
             /\ InFlight(p) => probe'[p].age = probe[p].age + 1
  <2>1. probe[p] \in ProbeState /\ probe[p].token \in Token \cup {NoToken} /\ probe[p].age \in 0 .. MaxLag
    BY <1>1 DEF ProbeState
  <2>2. Older(probe[p].token) \in Token \cup {NoToken}
    BY <2>1, OlderAged DEF Older
  <2>3. (IF InFlight(p) THEN probe[p].age + 1 ELSE probe[p].age) \in 0 .. MaxLag
    <3>1. InFlight(p) => probe[p].age < MaxLag
      BY <1>1
    <3> QED
      BY <2>1, <3>1, Numbers
  <2> QED
    BY <1>1, <2>1, <2>2, <2>3 DEF ProbeState
<1>3. cache' = NoToken \/ cache' \in [token : Token, ttl : 0 .. Forever]
  <2>1. CASE cache = NoToken
    BY <2>1 DEF Pass
  <2>2. CASE cache # NoToken
    <3>1. cache.token \in Token /\ cache.ttl \in 0 .. Forever
      BY <2>2 DEF RegistryTypeOK
    <3>2. Older(cache.token) \in Token
      BY <3>1, OlderAged
    <3>3. (IF cache.ttl \in {0, Forever} THEN cache.ttl ELSE cache.ttl - 1) \in 0 .. Forever
      BY <3>1, Numbers
    <3> QED
      BY <2>2, <3>2, <3>3 DEF Pass
  <2> QED
    BY <2>1, <2>2
<1>4. RegistryTypeOK'
  <2>1. probe' \in [Probers -> ProbeState]
    BY <1>1, <1>2
  <2> QED
    BY <1>1, <1>3, <2>1 DEF RegistryTypeOK, ProbeState, World
<1>5. CacheSound'
  <2> SUFFICES ASSUME cache' # NoToken, lifetime > Skew
               PROVE  /\ ~cache'.token.revoked /\ cache'.ttl > 0
                           => Aged(cache'.token, lifetime - cache'.ttl - Skew + MaxLag)
                      /\ cache'.ttl = Forever => lifetime = Forever
    BY <1>1 DEF CacheSound, Aged, World
  <2>1. cache # NoToken
    BY DEF Pass
  <2>2. cache.token \in Token /\ cache.ttl \in 0 .. Forever
    BY <2>1 DEF RegistryTypeOK
  <2>3. /\ cache'.token = Older(cache.token)
        /\ cache'.ttl = IF cache.ttl \in {0, Forever} THEN cache.ttl ELSE cache.ttl - 1
    BY <2>1 DEF Pass
  <2>4. Older(cache.token).revoked = cache.token.revoked
    BY <2>2, OlderAged
  <2>5. CASE lifetime = Forever
    <3>1. cache'.token = cache.token
      BY <2>2, <2>3, <2>5, OlderAged
    <3> QED
      BY <2>1, <2>2, <2>3, <2>5, <3>1, Numbers DEF CacheSound, Aged
  <2>6. CASE lifetime # Forever
    <3>1. cache.ttl # Forever /\ cache.ttl \in Nat
      BY <2>1, <2>2, <2>6, Numbers DEF CacheSound
    <3>2. cache'.ttl = (IF cache.ttl = 0 THEN 0 ELSE cache.ttl - 1) /\ cache'.ttl < Forever
      BY <2>2, <2>3, <3>1, Numbers
    <3>3. ASSUME ~cache'.token.revoked, cache'.ttl > 0
          PROVE  Aged(cache'.token, lifetime - cache'.ttl - Skew + MaxLag)
      <4> DEFINE age == lifetime - cache.ttl - Skew + MaxLag
      <4>1. Aged(cache.token, age)
        BY <2>1, <2>3, <2>4, <3>1, <3>2, <3>3 DEF CacheSound
      <4>2. age \in Int /\ lifetime - cache'.ttl - Skew + MaxLag = age + 1
        BY <3>1, <3>2, <3>3, TypeParts, Numbers
      <4>3. Aged(Older(cache.token), age + 1)
        BY <2>2, <4>1, <4>2, OlderAged
      <4> QED
        BY <2>3, <4>2, <4>3
    <3> QED
      BY <3>2, <3>3, Numbers
  <2> QED
    BY <2>5, <2>6
<1>6. ASSUME NEW p \in Probers
      PROVE  FirstSound(probe[p])' /\ FreshSound(probe[p])' /\ DeniedSound(probe[p])'
  <2> DEFINE r == probe[p]
             s == probe'[p]
  <2>1. /\ r.token \in Token \cup {NoToken} /\ r.age \in Nat
        /\ FirstSound(r) /\ FreshSound(r) /\ DeniedSound(r)
    <3>1. r.token \in Token \cup {NoToken} /\ r.age \in 0 .. MaxLag
      BY <1>1 DEF ProbeState
    <3> QED
      BY <3>1, Numbers
  <2>2. r.token = NoToken <=> s.token = NoToken
    BY <1>2, <2>1, OlderAged DEF Older
  <2>3. r.token # NoToken => s.token.access = r.token.access /\ s.token.revoked = r.token.revoked
    BY <1>2, <2>1, OlderAged
  <2>4. ASSUME NEW age \in Int, r.token # NoToken, Aged(r.token, age) PROVE Aged(s.token, age + 1)
    BY <1>2, <2>1, <2>4, OlderAged
  <2>5. FirstSound(s)
    <3> SUFFICES ASSUME r.at = "first"
                 PROVE  /\ r.cached <=> s.token # NoToken
                        /\ r.cached /\ ~s.token.revoked /\ lifetime > Skew
                             => Aged(s.token, lifetime - 1 - Skew + MaxLag + s.age)
      BY <1>2 DEF FirstSound
    <3>1. s.age = r.age + 1
      BY <1>2 DEF InFlight
    <3>2. lifetime - 1 - Skew + MaxLag + r.age \in Int
          /\ lifetime - 1 - Skew + MaxLag + s.age = (lifetime - 1 - Skew + MaxLag + r.age) + 1
      BY <2>1, <3>1, TypeParts, Numbers
    <3> QED
      BY <2>1, <2>2, <2>3, <2>4, <3>2 DEF FirstSound
  <2>6. FreshSound(s)
    <3>1. CASE r.at \notin {"granted", "second"}
      BY <1>2, <3>1 DEF FreshSound
    <3>2. CASE r.at = "granted"
      <4>1. s.age = r.age + 1 /\ s.at = "granted" /\ r.age \in Int
        BY <1>2, <2>1, <3>2 DEF InFlight
      <4> QED
        BY <1>2, <2>1, <2>2, <2>3, <2>4, <3>2, <4>1 DEF FreshSound
    <3>3. CASE r.at = "second"
      <4>1. s.age = r.age + 1 /\ s.at = "second" /\ MaxLag + r.age \in Int
            /\ MaxLag + s.age = (MaxLag + r.age) + 1
        BY <1>2, <2>1, <3>3, Numbers DEF InFlight
      <4> QED
        BY <1>2, <2>1, <2>2, <2>3, <2>4, <3>3, <4>1 DEF FreshSound
    <3> QED
      BY <3>1, <3>2, <3>3
  <2>7. DeniedSound(s)
    BY <1>2, <2>1 DEF DeniedSound
  <2>8. public' = public /\ credentials' = credentials /\ lifetime' = lifetime
    BY <1>1 DEF World
  <2> HIDE <1>1, <1>2
  <2> QED
    BY <2>5, <2>6, <2>7, <2>8 DEF FirstSound, FreshSound, DeniedSound, TrueOutcome, Aged, MaySee, World
<1> QED
  BY <1>4, <1>5, <1>6

\* What the owner does excuses every probe under way.
LEMMA ChangeStep ==
  ASSUME RegistryIInv, Change
  PROVE  RegistryIInv'
<1> USE DEF RegistryIInv
<1>1. /\ probe \in [Probers -> ProbeState] /\ UNCHANGED <<lifetime, faults>>
      /\ changes' \in 0 .. MaxChanges
  <2>1. changes \in 0 .. MaxChanges /\ changes < MaxChanges /\ changes' = changes + 1
    BY TypeParts DEF Change
  <2>2. MaxChanges \in Nat
    BY Numbers
  <2>3. changes' \in 0 .. MaxChanges
    BY <2>1, <2>2
  <2> QED
    BY <2>3, TypeParts DEF Change
<1>2. CASE /\ probe' = [p \in Probers |-> [probe[p] EXCEPT !.excused = TRUE]]
           /\ UNCHANGED cache
           /\ public' \in BOOLEAN /\ credentials' \in {"none", "good", "revoked"}
           /\ credentials = "revoked" => credentials' = "revoked"
  <2>1. ASSUME NEW p \in Probers
        PROVE  /\ probe'[p] \in ProbeState /\ probe'[p].excused
               /\ probe'[p].at = probe[p].at /\ probe'[p].cached = probe[p].cached
               /\ probe'[p].token = probe[p].token /\ probe'[p].age = probe[p].age
    BY <1>1, <1>2 DEF ProbeState
  <2>2. RegistryTypeOK'
    <3>1. probe' \in [Probers -> ProbeState]
      BY <1>2, <2>1
    <3> QED
      BY <1>1, <1>2, <3>1 DEF RegistryTypeOK, ProbeState
  <2>3. CacheSound'
    BY <1>1, <1>2 DEF CacheSound, Aged
  <2>4. ASSUME NEW p \in Probers
        PROVE  FirstSound(probe[p])' /\ FreshSound(probe[p])' /\ DeniedSound(probe[p])'
    <3>1. FirstSound(probe[p]) /\ FreshSound(probe[p]) /\ DeniedSound(probe[p])
      OBVIOUS
    <3> QED
      BY <1>1, <1>2, <2>1, <3>1 DEF FirstSound, FreshSound, DeniedSound, Aged
  <2> QED
    BY <2>2, <2>3, <2>4
<1>3. CASE /\ probe' = [p \in Probers |-> [probe[p] EXCEPT !.token = Killed(@), !.excused = TRUE]]
           /\ cache' = IF cache = NoToken THEN cache ELSE [cache EXCEPT !.token = Killed(@)]
           /\ UNCHANGED <<public, credentials>>
  <2>1. ASSUME NEW p \in Probers
        PROVE  /\ probe'[p] \in ProbeState /\ probe'[p].excused
               /\ probe'[p].at = probe[p].at /\ probe'[p].cached = probe[p].cached
               /\ probe'[p].token = Killed(probe[p].token)
               /\ probe[p].token = NoToken <=> probe'[p].token = NoToken
               /\ probe[p].token # NoToken => probe'[p].token.revoked
    <3>1. probe[p] \in ProbeState /\ probe[p].token \in Token \cup {NoToken}
      BY <1>1 DEF ProbeState
    <3>2. /\ Killed(probe[p].token) \in Token \cup {NoToken}
          /\ probe[p].token = NoToken <=> Killed(probe[p].token) = NoToken
          /\ probe[p].token # NoToken => Killed(probe[p].token).revoked
      BY <3>1, KilledType DEF Killed
    <3> QED
      BY <1>3, <3>1, <3>2 DEF ProbeState
  <2>2. \/ cache = NoToken /\ cache' = NoToken
        \/ /\ cache' \in [token : Token, ttl : 0 .. Forever] /\ cache'.token.revoked
           /\ cache # NoToken /\ cache'.ttl = cache.ttl
    <3>1. CASE cache = NoToken
      <4>1. cache' = IF cache = NoToken THEN cache ELSE [cache EXCEPT !.token = Killed(@)]
        BY <1>3
      <4>2. cache' = cache
        BY <3>1, <4>1
      <4> QED
        BY <3>1, <4>2
    <3>2. CASE cache # NoToken
      <4>1. cache \in [token : Token, ttl : 0 .. Forever]
        BY <3>2 DEF RegistryTypeOK
      <4>2. Killed(cache.token) \in Token /\ Killed(cache.token).revoked
        BY <4>1, KilledType
      <4> QED
        BY <1>3, <3>2, <4>1, <4>2
    <3> QED
      BY <3>1, <3>2
  <2>3. RegistryTypeOK'
    <3>1. probe' \in [Probers -> ProbeState]
      BY <1>3, <2>1
    <3> QED
      BY <1>1, <1>3, <2>2, <3>1 DEF RegistryTypeOK, ProbeState
  <2>4. CacheSound'
    BY <1>1, <2>2 DEF CacheSound, Aged
  <2>5. ASSUME NEW p \in Probers
        PROVE  FirstSound(probe[p])' /\ FreshSound(probe[p])' /\ DeniedSound(probe[p])'
    <3>1. FirstSound(probe[p]) /\ FreshSound(probe[p]) /\ DeniedSound(probe[p])
      OBVIOUS
    <3>2. credentials' = credentials /\ lifetime' = lifetime
      BY <1>1, <1>3
    <3> QED
      BY <2>1, <3>1, <3>2 DEF FirstSound, FreshSound, DeniedSound
  <2> QED
    BY <2>3, <2>4, <2>5
<1>4. public \in BOOLEAN /\ credentials \in {"none", "good", "revoked"}
  BY DEF RegistryTypeOK
<1> QED
  BY <1>2, <1>3, <1>4 DEF Change

-----------------------------------------------------------------------------

LEMMA RegistryInvariant == RegistrySpec => []RegistryIInv
<1>1. ASSUME RegistryInit PROVE RegistryIInv
  <2>1. Idle \in ProbeState
    <3>1. 0 \in 0 .. MaxLag
      BY Numbers
    <3> QED
      BY <3>1 DEF Idle, ProbeState, Outcomes
  <2>2. probe \in [Probers -> ProbeState]
    BY <1>1, <2>1 DEF RegistryInit
  <2>3. lifetime \in 0 .. Forever
    BY <1>1, RegistryAssumption DEF RegistryInit
  <2>4. 0 \in 0 .. MaxFaults /\ 0 \in 0 .. MaxChanges
    BY Numbers
  <2>5. RegistryTypeOK
    BY <1>1, <2>2, <2>3, <2>4 DEF RegistryInit, RegistryTypeOK, ProbeState
  <2>6. CacheSound
    BY <1>1 DEF RegistryInit, CacheSound
  <2>7. ASSUME NEW p \in Probers PROVE FirstSound(probe[p]) /\ FreshSound(probe[p]) /\ DeniedSound(probe[p])
    <3>1. probe[p].at = "idle"
      BY <1>1 DEF RegistryInit, Idle
    <3> QED
      BY <3>1 DEF FirstSound, FreshSound, DeniedSound
  <2> QED
    BY <2>5, <2>6, <2>7 DEF RegistryIInv
<1>2. ASSUME RegistryIInv, [RegistryNext]_registryVars PROVE RegistryIInv'
  <2>1. CASE UNCHANGED registryVars
    BY <1>2, <2>1, ZenonT(60) DEF registryVars, RegistryIInv, RegistryTypeOK, CacheSound, FirstSound, FreshSound,
       DeniedSound, TrueOutcome, Aged, MaySee
  <2>2. CASE Pass
    BY <1>2, <2>2, PassStep
  <2>3. CASE Change
    BY <1>2, <2>3, ChangeStep
  <2>4. ASSUME NEW p \in Probers, Advance(p) \/ Fail(p) PROVE RegistryIInv'
    BY <1>2, <2>4, StartStep, ConnectStep, AnsweredStep, ExchangeStep, ExchangeAnonymouslyStep,
       ReceiveStep, FailStep DEF Advance
  <2> QED
    BY <1>2, <2>1, <2>2, <2>3, <2>4 DEF RegistryNext
<1> QED
  BY <1>1, <1>2, PTL DEF RegistrySpec

\* However late answers come, within half the skew each: a token that was taken from the
\* cache is alive when it reaches the registry.  (RegistryInv of the run.)
THEOREM NoDeadToken == RegistrySpec => []RegistryInv
<1>1. RegistryIInv => RegistryInv
  <2> SUFFICES ASSUME RegistryIInv, NEW p \in Probers, probe[p].at = "first", probe[p].cached,
                      ~probe[p].token.revoked, lifetime > Skew
               PROVE  probe[p].token.left > 0
    BY DEF RegistryInv, RegistryIInv, CachedTokensAlive
  <2>1. Aged(probe[p].token, lifetime - 1 - Skew + MaxLag + probe[p].age) /\ probe[p].token # NoToken
    BY DEF RegistryIInv, FirstSound
  <2>2. probe[p].token \in Token \cup {NoToken} /\ probe[p].age \in 0 .. MaxLag
    BY TypeParts DEF RegistryIInv, ProbeState
  <2>3. probe[p].token.left \in Nat /\ probe[p].age \in Nat /\ probe[p].age <= MaxLag
    BY <2>1, <2>2, Numbers DEF Token
  <2> QED
    BY <2>1, <2>3, TypeParts, Numbers DEF Aged, RegistryIInv
<1> QED
  BY <1>1, RegistryInvariant, PTL

\* A probe that nothing and nobody has disturbed answers what the registry holds true,
\* whichever probes share its cache.  (HonestVerdict of the run.)
THEOREM VerdictsHonest == RegistrySpec => []HonestVerdict
<1>1. RegistryIInv => HonestVerdict
  BY DEF RegistryIInv, DeniedSound, HonestVerdict
<1> QED
  BY <1>1, RegistryInvariant, PTL
=============================================================================
