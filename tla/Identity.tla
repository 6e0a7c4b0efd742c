------------------------------- MODULE Identity -------------------------------
(***************************************************************************)
(* Who is who when containers are recreated: the spec that is read from    *)
(* the daemon and given back to it (docker/spec.rs), freshdock's own       *)
(* container (selfid.rs), and the containers in another's network          *)
(* namespace, which must be found before that one is stopped and pointed   *)
(* to its replacement afterwards (docker/mod.rs, docker/recreate.rs).      *)
(*                                                                         *)
(* Names, ids and hostnames are sequences of symbols.  Hex digits are the  *)
(* symbols of ids; Docker's short id, of 12 digits, has ShortLength here.  *)
(***************************************************************************)
EXTENDS Naturals, Sequences, SequencesExt

CONSTANTS
  Hex,          \* the hex digits
  ShortLength,  \* the length of a short id
  Nothing       \* no hostname, or no reference to a container

ASSUME IdentityAssumption == ShortLength \in Nat \ {0}

\* A container, or its spec, is [id, name, image, hostname, joins, networks, ports,
\* rest]: `joins` is what its network mode says after "container:", the host name
\* goes with the domain name, and `rest` stands for everything else that is copied.

ShortId(id) == SubSeq(id, 1, ShortLength)

-----------------------------------------------------------------------------
(* docker/spec.rs.                                                         *)

DaemonAssigned(id, host) == host # Nothing /\ Len(host) = ShortLength /\ IsPrefix(host, id)

\* Mutant: the hostname is taken over whoever gave it.
FromInspectVerbatim(c) == c

FromInspect(c) == IF DaemonAssigned(c.id, c.hostname) THEN [c EXCEPT !.hostname = Nothing] ELSE c

CreateBody(spec, image) == [spec EXCEPT !.image = image]

-----------------------------------------------------------------------------
(* selfid.rs.                                                              *)

LooksLikeId(host) == Len(host) >= ShortLength /\ ToSet(host) \subseteq Hex

\* Of the process whose /etc/hostname is `host`.
OwnPrefix(host) == IF LooksLikeId(host) THEN host ELSE Nothing

IsOwn(prefix, id) == prefix # Nothing /\ LooksLikeId(prefix) /\ IsPrefix(prefix, id)

-----------------------------------------------------------------------------
(* docker/mod.rs.                                                          *)

\* multi_network_guard: only a version that is understood to be old is a reason.
MultiNetworkGuard(version, networks) == networks <= 1 \/ version # "old"

Preflight(spec, version) == MultiNetworkGuard(version, spec.networks)

\* network_mode_references.
Joins(c, name, id) ==
  c.joins # Nothing /\ (c.joins = name \/ (Len(c.joins) >= ShortLength /\ IsPrefix(c.joins, id)))

\* network_dependent_names; freshdock is told by the hostname of its process.
Dependents(running, owner, host) ==
  {c \in running : /\ Joins(c, owner.name, owner.id) /\ c.name # owner.name
                   /\ ~IsOwn(OwnPrefix(host), c.id) /\ ~c.optedOut}

-----------------------------------------------------------------------------
(* docker/recreate.rs.                                                     *)

\* Mutant: only a reference by the whole id is taken for one by id.
RepointedWhole(spec, owner, newId) ==
  IF newId = Nothing \/ spec.joins # owner.id THEN spec ELSE [spec EXCEPT !.joins = newId]

\* rewrite_owner_reference; after a rollback there is no new id.
Repointed(spec, owner, newId) ==
  IF newId = Nothing \/ spec.joins \in {Nothing, owner.name} THEN spec ELSE [spec EXCEPT !.joins = newId]

\* strip_shared_namespace_conflicts.
Stripped(spec) ==
  IF spec.joins = Nothing THEN spec
  ELSE [spec EXCEPT !.hostname = Nothing, !.networks = 0, !.ports = FALSE]

\* reattach_one, with the image that repair_image chose.
RepairBody(dependent, owner, newId) ==
  CreateBody(Stripped(Repointed(FromInspect(dependent), owner, newId)), dependent.image)

-----------------------------------------------------------------------------
(* The daemon: what it refuses to create, what it creates, and which       *)
(* container a reference is, by name first and then by id.                 *)

RefusesToCreate(body, old) ==
  \/ body.joins # Nothing /\ (body.hostname # Nothing \/ body.ports)
  \/ body.networks > 1 /\ old

\* The image's exposed ports are added to the container's own, and a hostname is made.
Created(body, id, exposes) ==
  [body EXCEPT !.id = id, !.ports = @ \/ exposes, !.hostname = IF @ = Nothing THEN ShortId(id) ELSE @]

Means(reference, c) == reference # Nothing /\ (reference = c.name \/ IsPrefix(reference, c.id))

-----------------------------------------------------------------------------
(* What holds of every container that is recreated.                        *)

\* Updated twice, a container is what it was but for its id, its image and the ports
\* that images expose.  Its hostname is what its owner chose, or follows its id: so
\* that freshdock in such a container finds itself, and none but itself, among the
\* containers, however often it was replaced.  And once it was stopped its create is
\* not refused, if the daemon's version can be read and the container is not itself in
\* another's namespace: the conflicts of that are removed in a repair, not in an update.
StaysItself(x) ==
  LET update(c, id) == Created(CreateBody(FromInspect(c), <<"new">>), id, x.exposes)
      replaced == update(x.container, x.ids[1])
      again == update(replaced, x.ids[2])
      chosen == ~DaemonAssigned(x.container.id, x.container.hostname)
      spec == FromInspect(x.container)
  IN /\ Preflight(spec, x.version) /\ x.version # "unreadable" /\ spec.joins = Nothing
          => ~RefusesToCreate(CreateBody(spec, <<"new">>), x.version = "old")
     /\ \A c \in {replaced, again} :
          /\ \A f \in {"name", "joins", "networks", "rest", "optedOut"} : c[f] = x.container[f]
          /\ c.ports = (x.container.ports \/ x.exposes)
          /\ c.hostname = IF chosen THEN x.container.hostname ELSE ShortId(c.id)
          /\ \A d \in {x.container, replaced, again} :
               IsOwn(OwnPrefix(c.hostname), d.id) <=> ~chosen /\ d = c

\* Through two updates of the owner, of which the first may be rolled back: every
\* container in its namespace that is neither freshdock nor opted out is found
\* before the stop, and its repair is accepted and joins the container that serves,
\* never the archive; nothing outside the namespace is touched.  Only references by
\* a part of an id shorter than the short id are given up.
NamespaceFollows(x) ==
  LET owner == x.container
      archive == [owner EXCEPT !.name = <<"archive">>]
      newId == IF x.rolledBack THEN Nothing ELSE x.ids[1]
      serving == IF x.rolledBack THEN owner ELSE [owner EXCEPT !.id = x.ids[1]]
      others == IF x.rolledBack THEN {} ELSE {archive}
      d == x.dependent
      body == RepairBody(d, owner, newId)
      repaired == Created(body, x.repairedId, x.exposes)
      next == RepairBody(repaired, serving, x.ids[2])
      found(c, o) == c \in Dependents({c}, o, x.host)
      spared == d.optedOut \/ IsOwn(OwnPrefix(x.host), d.id)
      brief == d.joins # owner.name /\ d.joins # Nothing /\ Len(d.joins) < ShortLength
  IN /\ found(d, owner) <=> Means(d.joins, owner) /\ ~spared /\ ~brief
     /\ found(d, owner) =>
          /\ ~RefusesToCreate(body, x.version = "old")
          /\ Means(body.joins, serving) /\ \A c \in others : ~Means(body.joins, c)
          /\ body.image = d.image /\ body.rest = d.rest
          /\ found(repaired, serving) /\ Means(next.joins, [serving EXCEPT !.id = x.ids[2]])
=============================================================================
