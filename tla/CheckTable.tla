------------------------------ MODULE CheckTable ------------------------------
(***************************************************************************)
(* From what the daemon and the registry say to the table of `freshdock    *)
(* check` (commands/check.rs) and to the verdict that the scheduler acts   *)
(* on (probe.rs).                                                          *)
(***************************************************************************)
EXTENDS Sequences, SequencesExt

CONSTANTS
  Unknown,    \* an image id or a digest that is not known, the "-" of a cell
  FailedCall  \* a daemon call that failed

\* What stands in a row for an image that was not looked up.
Unfetched == {"auth required", "credentials rejected", "network unavailable", "error"}

ASSUME CheckAssumption == Unknown \notin Unfetched \cup {"pinned", "its own", "yes", "no", "?"}

-----------------------------------------------------------------------------
(* probe.rs.                                                               *)

BehindTag(running, tagged) == Unknown \notin {running, tagged} /\ running # tagged

\* Mutant: a container may be behind its tag before anything is known of the tag's image.
VerdictUngated(local, latest, running, tagged) ==
  IF BehindTag(running, tagged) THEN "yes"
  ELSE IF local = <<>> THEN "?" ELSE IF Contains(local, latest) THEN "no" ELSE "yes"

\* update_available_for: of a tag's image without digests nothing is known.
Verdict(local, latest, running, tagged) ==
  IF local = <<>> THEN "?"
  ELSE IF BehindTag(running, tagged) \/ ~Contains(local, latest) THEN "yes" ELSE "no"

CurrentFor(local, latest) ==
  IF Contains(local, latest) THEN latest ELSE IF local = <<>> THEN Unknown ELSE local[1]

\* container_image: what the daemon says of the container itself.
ContainerImage(c) ==
  IF c.inspected = FailedCall THEN FailedCall ELSE [image |-> c.inspected, running |-> c.running]

\* resolve_target: the listing's image, or of a bare image id what the inspect says.
Target(c) == IF c.bareId THEN ContainerImage(c) ELSE [image |-> c.image, running |-> c.running]

\* What the daemon has under the tag, of a failed inspect nothing.
LocalImage(image, world) ==
  IF world.tag[image] = FailedCall THEN [id |-> Unknown, digests |-> <<>>] ELSE world.tag[image]

\* probe_image: a pinned image is not looked up.
ProbeImage(image, world) ==
  IF world.pinned[image] THEN [kind |-> "pinned"]
  ELSE IF world.fetched[image] \in Unfetched THEN [kind |-> world.fetched[image]]
  ELSE [kind |-> "fetched", latest |-> world.fetched[image],
        local |-> LocalImage(image, world).digests, tagged |-> LocalImage(image, world).id]

-----------------------------------------------------------------------------
(* commands/check.rs.                                                      *)

\* Mutant: the tag's digest is shown whatever the container runs.
CellsOfTag(outcome, running) ==
  IF outcome.kind # "fetched" THEN <<IF outcome.kind = "pinned" THEN "its own" ELSE Unknown, outcome.kind, Unknown>>
  ELSE <<CurrentFor(outcome.local, outcome.latest), outcome.latest,
         Verdict(outcome.local, outcome.latest, running, outcome.tagged)>>

\* render_cells: current digest, latest digest and "update?".
Cells(outcome, running) ==
  IF outcome.kind # "fetched" THEN <<IF outcome.kind = "pinned" THEN "its own" ELSE Unknown, outcome.kind, Unknown>>
  ELSE <<IF BehindTag(running, outcome.tagged) THEN Unknown ELSE CurrentFor(outcome.local, outcome.latest),
         outcome.latest, Verdict(outcome.local, outcome.latest, running, outcome.tagged)>>

\* collect_cells: containers with broken labels, disabled ones and freshdock's own,
\* unless it is enabled by a label, are left out.
Listed(c) == c.policy = "enabled" \/ (c.policy = "auto" /\ ~c.own)

\* The images that are probed, each once, and the rows.
Probed(containers) ==
  {Target(c).image : c \in {c \in ToSet(containers) : Listed(c) /\ Target(c) # FailedCall}}

Row(c, world) ==
  IF Target(c) = FailedCall THEN [container |-> c, cells |-> <<Unknown, "error", Unknown>>]
  ELSE [container |-> c, cells |-> Cells(ProbeImage(Target(c).image, world), Target(c).running)]

\* The rows, at the places of their containers.
Table(containers, world) ==
  [i \in {i \in DOMAIN containers : Listed(containers[i])} |-> Row(containers[i], world)]

-----------------------------------------------------------------------------
(* What the table promises.                                                *)

\* Upstream's digest of the container's image was asked for and told.
LookedUp(c, world) ==
  /\ Target(c) # FailedCall
  /\ ~world.pinned[Target(c).image]
  /\ world.fetched[Target(c).image] \notin Unfetched

\* The tag's local image has digests to compare it with: one built locally has none.
TagKnown(c, world) ==
  LET tag == world.tag[Target(c).image]
  IN tag # FailedCall /\ tag.digests # <<>>

\* What a container runs is up to date if it is the image of its tag, as far as that is
\* known, and upstream's digest is one of that image's.
UpToDate(c, world) ==
  LET tag == world.tag[Target(c).image]
  IN ~BehindTag(c.running, tag.id) /\ Contains(tag.digests, world.fetched[Target(c).image])

\* The verdict of a row says what is so: "?" exactly where nothing is known of the tag of
\* an image that was looked up, also if the container is behind it; where something is
\* known, "no" exactly beside a container that is up to date and "yes" exactly beside one
\* that is not; and none of the three beside an image that was not looked up.
VerdictIsSo(c, verdict, world) ==
  /\ verdict = "?" <=> (LookedUp(c, world) /\ ~TagKnown(c, world))
  /\ verdict = "no" <=> (LookedUp(c, world) /\ TagKnown(c, world) /\ UpToDate(c, world))
  /\ verdict = "yes" <=> (LookedUp(c, world) /\ TagKnown(c, world) /\ ~UpToDate(c, world))

\* Every row can be read by itself: its verdict says what is so, "no" stands exactly where
\* the current digest is the latest one, beside "?" there is no current digest; and two
\* containers of one image are shown against the same latest digest.
RowsHold(containers, world) ==
  LET table == Table(containers, world)
  IN \A i \in DOMAIN table :
       LET c == table[i].container
           cells == table[i].cells
       IN /\ VerdictIsSo(c, cells[3], world)
          /\ cells[3] = "no" <=> cells[1] = cells[2]
          /\ cells[3] = "?" => cells[1] = Unknown
          /\ \A j \in DOMAIN table :
               Target(c) # FailedCall /\ Target(table[j].container) # FailedCall
               /\ Target(c).image = Target(table[j].container).image
                 => cells[2] = table[j].cells[2]
=============================================================================
