---------------------------- MODULE DockerDaemon ----------------------------
(***************************************************************************)
(* The container daemon as freshdock sees it through the DockerOps trait   *)
(* (docker/recreate.rs, wired in docker/mod.rs).  The daemon is external   *)
(* to the repository: each operation below does to the daemon's state what *)
(* the code relies on it doing, and each Can... operator is the condition  *)
(* under which the daemon accepts the call.                                *)
(*                                                                         *)
(* A container id is <<r, n>>: the container that update r created for the *)
(* service n, or <<Before, n>> for the one that ran before any update.  A  *)
(* container name is <<n, 0>> for the live name of n, and <<n, k>> for the *)
(* k-th archive candidate "n-old-ts", "n-old-ts-1", ...                    *)
(***************************************************************************)
EXTENDS Naturals

CONSTANTS
  Runs,         \* the updates of the owner: scheduler passes and CLI calls
  Before,       \* the author of the containers that exist at the start
  Owner,        \* the service being updated
  Deps,         \* services sharing the owner's network namespace
  ByNameDeps,   \* those whose NetworkMode names the owner instead of its id
  Images,       \* image ids
  FirstImage,   \* the image everything runs at the start
  MaxAttempts,  \* archive names tried after the first (64 in the code)
  None, ByName

ServiceNames == {Owner} \cup Deps

ASSUME DaemonAssumption ==
  /\ Before \notin Runs
  /\ Owner \notin Deps
  /\ ByNameDeps \subseteq Deps
  /\ FirstImage \in Images
  /\ None \notin Images
  /\ MaxAttempts \in Nat
  /\ None # ByName

Ids == (Runs \cup {Before}) \X ServiceNames
Names == ServiceNames \X (0 .. MaxAttempts + 1)
Live(n) == <<n, 0>>

ASSUME ReferenceAssumption == {None, ByName} \cap Ids = {} /\ None \notin Names

VARIABLES
  exists,   \* the ids of the containers there are
  name,     \* id -> the name it holds
  up,       \* id -> is it running
  image,    \* id -> the image it was created from
  ref,      \* id -> is Config.Image its tag or a fixed image id
  joins,    \* id -> the container its NetworkMode references, if any
  ns,       \* id -> the running container whose namespace it is attached to
  tag,      \* what the services' image tag resolves to locally
  store     \* the images in the local store

docker == <<exists, name, up, image, ref, joins, ns, tag, store>>

DockerTypeOK ==
  /\ exists \subseteq Ids
  /\ name \in [Ids -> Names]
  /\ up \in [Ids -> BOOLEAN]
  /\ image \in [Ids -> Images]
  /\ ref \in [Ids -> {"tag", "id"}]
  /\ joins \in [Ids -> Ids \cup {None, ByName}]
  /\ ns \in [Ids -> Ids \cup {None}]
  /\ tag \in Images \cup {None}
  /\ store \subseteq Images

\* Every service runs from the shared tag, and every dependent is attached; an
\* owner that has `exited` can be nobody's namespace.
DockerInit(exited) ==
  LET first(n) == <<Before, n>> IN
  /\ exists = {first(n) : n \in ServiceNames}
  /\ name = [c \in Ids |-> Live(c[2])]
  /\ up = [c \in Ids |-> c \in exists /\ (exited => c[2] # Owner)]
  /\ image = [c \in Ids |-> FirstImage]
  /\ ref = [c \in Ids |-> "tag"]
  /\ joins = [c \in Ids |-> IF c[2] = Owner THEN None
                            ELSE IF c[2] \in ByNameDeps THEN ByName
                            ELSE first(Owner)]
  /\ ns = [c \in Ids |-> IF c \in exists /\ c[2] # Owner /\ ~exited
                         THEN first(Owner) ELSE None]
  /\ tag = FirstImage
  /\ store = {FirstImage}

-----------------------------------------------------------------------------
(* Resolution of names and of network references.                          *)

Named(nm) == {c \in exists : name[c] = nm}
Free(nm) == Named(nm) = {}

\* The containers a stored network reference resolves to (at most one).
Referenced(j) == IF j = ByName THEN Named(Live(Owner)) ELSE exists \cap {j}

\* Whatever was attached to c's namespace loses it once c is no longer up.
Detached(c) == [d \in Ids |-> IF d = c \/ ns[d] = c THEN None ELSE ns[d]]

-----------------------------------------------------------------------------
(* Container operations.                                                   *)

\* Stopping a stopped container is answered 304, which is no error.
StopContainer(c) ==
  /\ up' = [up EXCEPT ![c] = FALSE]
  /\ ns' = Detached(c)
  /\ UNCHANGED <<exists, name, image, ref, joins, tag, store>>

RenameContainer(c, nm) ==
  /\ name' = [name EXCEPT ![c] = nm]
  /\ UNCHANGED <<exists, up, image, ref, joins, ns, tag, store>>

\* `how` is the Config.Image handed to the create: the tag, resolved by the
\* daemon now, or the fixed image id `img`.
Resolved(how, img) == IF how = "tag" THEN tag ELSE img

CanCreate(c, nm, how, img) ==
  /\ c \notin exists
  /\ Free(nm)
  /\ Resolved(how, img) \in store

CreateContainer(c, nm, how, img, target) ==
  /\ exists' = exists \cup {c}
  /\ name' = [name EXCEPT ![c] = nm]
  /\ up' = [up EXCEPT ![c] = FALSE]
  /\ image' = [image EXCEPT ![c] = Resolved(how, img)]
  /\ ref' = [ref EXCEPT ![c] = how]
  /\ joins' = [joins EXCEPT ![c] = target]
  /\ ns' = [ns EXCEPT ![c] = None]
  /\ UNCHANGED <<tag, store>>

\* A container joining a namespace starts only while its target is running.
CanStart(c) ==
  /\ c \in exists
  /\ joins[c] # None => \E t \in Referenced(joins[c]) : up[t]

StartContainer(c) ==
  /\ up' = [up EXCEPT ![c] = TRUE]
  /\ IF joins[c] = None \/ up[c]
       THEN ns' = ns
       ELSE \E t \in Referenced(joins[c]) : ns' = [ns EXCEPT ![c] = t]
  /\ UNCHANGED <<exists, name, image, ref, joins, tag, store>>

\* Without force the daemon refuses (409) a running container, and one whose
\* namespace a running container still references.
CanRemove(c) ==
  /\ ~up[c]
  /\ ~ \E d \in exists : up[d] /\ joins[d] = c

RemoveContainer(c) ==
  /\ exists' = exists \ {c}
  /\ up' = [up EXCEPT ![c] = FALSE]
  /\ ns' = Detached(c)
  /\ UNCHANGED <<name, image, ref, joins, tag, store>>

-----------------------------------------------------------------------------
(* Image operations.                                                       *)

PullImage(i) ==
  /\ tag' = i
  /\ store' = store \cup {i}
  /\ UNCHANGED <<exists, name, up, image, ref, joins, ns>>

\* force = false: an image some container was created from is refused (409).
CanRemoveImage(i) == i \in store /\ \A c \in exists : image[c] # i

\* Removing an image by id also drops the tag pointing at it.
RemoveImage(i) ==
  /\ store' = store \ {i}
  /\ tag' = IF tag = i THEN None ELSE tag
  /\ UNCHANGED <<exists, name, up, image, ref, joins, ns>>

\* The dangling-image prune: untagged images no container was created from.
PruneImages ==
  /\ store' = {i \in store : i = tag \/ \E c \in exists : image[c] = i}
  /\ UNCHANGED <<exists, name, up, image, ref, joins, ns, tag>>
=============================================================================
