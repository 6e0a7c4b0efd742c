------------------------------ MODULE References ------------------------------
(***************************************************************************)
(* Image references.  The same string is read in five places: the registry *)
(* is asked for its digest (ImageRef::parse, split_repository), the daemon *)
(* is told to pull it, credentials are looked up for its host, the daemon's*)
(* RepoDigests are searched for it (local_manifest_digests), and a rollout *)
(* compares it with that of its trigger (same_image).                      *)
(*                                                                         *)
(* A reference is a sequence of words and the separators "/", ":" and "@". *)
(***************************************************************************)
EXTENDS Naturals, Sequences, FiniteSetsExt

CONSTANTS
  Dotted,   \* words with a dot, the two names of Docker Hub among them
  Plain,    \* words without, among them localhost and library
  NoImage   \* an unknown image id

HubHosts == {"docker.io", "index.docker.io"}

\* Words are what is between the separators.  No image is named by the host of Docker Hub's
\* API: canonicalize_host takes it for docker.io, the daemon does not; and none is named
\* sha256: is_pinned takes its reference for an image id.
ASSUME ReferencesAssumption ==
  /\ HubHosts \subseteq Dotted
  /\ {"localhost", "library"} \subseteq Plain
  /\ Dotted \cap Plain = {}
  /\ {"/", ":", "@", "registry-1.docker.io", "sha256"} \cap (Dotted \cup Plain) = {}
  /\ NoImage \notin Nat

-----------------------------------------------------------------------------
(* Sequences of words.                                                     *)

Positions(s, w) == {i \in DOMAIN s : s[i] = w}
FirstOf(s, w) == IF Positions(s, w) = {} THEN 0 ELSE Min(Positions(s, w))
LastOf(s, w) == IF Positions(s, w) = {} THEN 0 ELSE Max(Positions(s, w))
Upto(s, n) == SubSeq(s, 1, n)
After(s, n) == SubSeq(s, n + 1, Len(s))
Has(s, w) == Positions(s, w) # {}

-----------------------------------------------------------------------------
(* The code's readings.                                                    *)

\* A segment that names a registry rather than a namespace.
HostLike(segment) == segment = <<"localhost">> \/ Has(segment, ":") \/ \E w \in Dotted : Has(segment, w)

\* split_repository: <<host, path>>, the path empty if there is nothing but a host.
Split(name) ==
  LET slash == FirstOf(name, "/")
      first == IF slash = 0 THEN name ELSE Upto(name, slash - 1)
  IN IF ~HostLike(first) THEN << <<"docker.io">>, name>>
     ELSE <<first, IF slash = 0 THEN <<>> ELSE After(name, slash)>>

IsHub(host) == \E w \in HubHosts : host = <<w>>

StripHub(name) ==
  LET split == Split(name)
  IN IF IsHub(split[1]) /\ split[2] # <<>> /\ IsHub(Split(split[2])[1]) THEN split[2] ELSE name

\* Mutant: the colon of a port is taken for that of a tag.
AnyColon(s) == LastOf(s, ":")

\* The colon in front of a tag, 0 without one.
TagColon(s) == IF LastOf(s, ":") > LastOf(s, "/") THEN LastOf(s, ":") ELSE 0

StripTag(s) == IF TagColon(s) = 0 THEN s ELSE Upto(s, TagColon(s) - 1)

\* ImageRef::parse.
Parse(ref) ==
  LET name == StripHub(StripTag(ref))
  IN [repository |-> IF Has(name, "/") THEN name ELSE <<"library", "/">> \o name,
      tag |-> IF TagColon(ref) = 0 THEN <<"latest">> ELSE After(ref, TagColon(ref))]

\* Mutant: the Hub host is left in front of the name.
FamiliarUnfolded(repository) == repository

Familiar(repository) ==
  LET split == Split(repository)
      official == Len(split[2]) > 2 /\ Upto(split[2], 2) = <<"library", "/">>
                  /\ ~Has(After(split[2], 2), "/")
  IN IF ~IsHub(split[1]) THEN repository
     ELSE IF official THEN After(split[2], 2) ELSE split[2]

WithoutDigest(ref) == IF Has(ref, "@") THEN Upto(ref, FirstOf(ref, "@") - 1) ELSE ref

\* Mutant: only a reference with a digest is pinned.
PinnedByDigest(ref) == Has(ref, "@")

\* is_pinned: a bare image id is no reference, and cannot move either.
Pinned(ref) == Has(ref, "@") \/ (Len(ref) > 1 /\ ref[1] = "sha256" /\ ref[2] = ":")

\* local_manifest_digests: the entries of RepoDigests whose digest counts for the image.
Matching(ref, entries) ==
  LET own == Familiar(StripTag(WithoutDigest(ref)))
  IN {repository \in entries : Familiar(repository) = own}

\* The host whose credentials are used, by canonicalize_host.
CanonicalHost(host) == IF host = <<"registry-1.docker.io">> \/ IsHub(host) THEN <<"docker.io">> ELSE host

\* Where fetch_digest sends its requests, and what it asks for.
Query(ref) ==
  LET split == Split(Parse(ref).repository)
  IN <<CanonicalHost(split[1]), split[2], Parse(ref).tag>>

\* What pull_image hands to the daemon, and whose credentials.
PullRequest(ref) == Parse(ref).repository \o <<":">> \o Parse(ref).tag
PullHost(ref) == CanonicalHost(Split(Parse(ref).repository)[1])

\* Mutant: the image id decides, for a digest reference as well.
SameImageById(ref, id, trigger, triggerId) ==
  Parse(ref) = Parse(trigger) \/ (NoImage # id /\ id = triggerId)

SameImageAs(ref, id, trigger, triggerId) ==
  \/ Parse(ref) = Parse(trigger)
  \/ ~Pinned(ref) /\ NoImage # id /\ id = triggerId

-----------------------------------------------------------------------------
(* Docker's own reading: <<domain, path>>, of a reference without tag and digest,  *)
(* and the two forms in which a daemon lists it.                           *)

Normal(name) ==
  LET slash == FirstOf(name, "/")
      first == Upto(name, slash - 1)
      named == slash > 0 /\ HostLike(first)
      hub == ~named \/ IsHub(first)
      path == IF named THEN After(name, slash) ELSE name
  IN IF hub THEN << <<"docker.io">>, IF Has(path, "/") THEN path ELSE <<"library", "/">> \o path>>
     ELSE <<first, path>>

FullForm(normal) == normal[1] \o <<"/">> \o normal[2]
ShortForm(normal) ==
  IF normal[1] # <<"docker.io">> THEN FullForm(normal)
  ELSE IF FirstOf(normal[2], "/") = LastOf(normal[2], "/") /\ normal[2][1] = "library"
    THEN After(normal[2], 2) ELSE normal[2]

-----------------------------------------------------------------------------
(* The references there are.                                               *)

Segments == {<<w>> : w \in Dotted \cup Plain}
Ported == {<<"localhost", ":", "5000">>}
Joined(a, b) == a \o <<"/">> \o b

\* A name on Docker Hub has no dots and is not localhost.
OnHub(name) == Normal(name)[1] = <<"docker.io">>
Proper(name) ==
  OnHub(name) => LET path == Normal(name)[2] IN
    path # <<>> /\ ~HostLike(<<path[1]>>) /\ ~HostLike(After(path, LastOf(path, "/")))

Repositories ==
  {n \in Segments
         \cup {Joined(a, b) : a \in Segments \cup Ported, b \in Segments}
         \cup {Joined(a, Joined(b, c)) : a \in Segments \cup Ported, b \in Segments, c \in Segments} :
     Proper(n)}

Tags == {<<>>, <<":", "latest">>, <<":", "v1">>}
Digested == {<<>>, <<"@", "sha256">>}
References == [name : Repositories, tag : Tags, digest : Digested]
Text(r) == r.name \o r.tag \o r.digest

\* What a container created from an image's id has in a reference's place.
BareId == <<"sha256", ":", "4f2a">>

NormalOf == [n \in Repositories |-> Normal(n)]
Written == UNION {{ShortForm(NormalOf[n]), FullForm(NormalOf[n])} : n \in Repositories}
NormalOfWritten == [w \in Written |-> Normal(w)]

-----------------------------------------------------------------------------
(* What the readings promise, of the reference `r`.                        *)

\* The digest is fetched from the registry that the daemon pulls the reference from,
\* for the repository and tag that it pulls, and what is handed to the daemon for the
\* pull is that same repository, with that registry's credentials.
AsksWhatIsPulled(r) ==
  r.digest = <<>> =>
    LET normal == NormalOf[r.name]
        tag == IF r.tag = <<>> THEN <<"latest">> ELSE Tail(r.tag)
        pulled == PullRequest(Text(r))
    IN /\ Query(Text(r)) = <<normal[1], normal[2], tag>>
       /\ \E n \in Repositories : pulled = n \o <<":">> \o tag /\ NormalOf[n] = normal
       /\ PullHost(Text(r)) = normal[1]

\* An image is known by exactly the digests that the daemon lists under the
\* reference's repository, in either form a daemon writes them: with one too few the
\* image would never be found current, with one too many never outdated.
KnownByItsDigests(r) ==
  Matching(Text(r), Written) = {w \in Written : NormalOfWritten[w] = NormalOf[r.name]}

\* A rollout counts two members as on one image if their references say so, and by
\* the image id only if the reference can move: not if it has a digest, nor if the
\* member was created from the very id of the trigger's image.
RolledOutTogether(r) ==
  \A trigger \in {n \in Repositories : Len(n) <= 3} :
    LET same == NormalOf[r.name] = NormalOf[trigger] /\ r.tag \in {<<>>, <<":", "latest">>}
    IN /\ ~SameImageAs(BareId, 1, trigger, 1)
       /\ IF r.digest # <<>> THEN ~SameImageAs(Text(r), 1, trigger, 1)
          ELSE /\ SameImageAs(Text(r), 1, trigger, 1)
               /\ \A id \in {NoImage, 2} : SameImageAs(Text(r), id, trigger, 1) <=> same
=============================================================================
