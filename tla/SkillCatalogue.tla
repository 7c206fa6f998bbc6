--------------------------- MODULE SkillCatalogue ---------------------------
(* What an agent tells of its skills (acp_relay.py 2790-2852, 9125-9229,    *)
(* 10819-10866, 14313-14532, 15187-15234): GET /skills, page by page,       *)
(* GET /skills/{id}/status, POST /skills/query; and PATCH                   *)
(* /skills/{id}/limitations, which changes what the agent declares while    *)
(* others read.  The card is built at the start and stays; skills are       *)
(* structured objects.  Search by tag and by keyword differ from the filter *)
(* by limitation only in reading fields that nothing changes.               *)
EXTENDS Integers, Sequences, FiniteSets, SequencesExt

CONSTANTS
  Skills,         \* the card's skills, in its order: [id, modes, lims, examples, limit]
  Modes,          \* input modes
  Lims,           \* limitations: [kind, code, permanent]
  NoMode,         \* a query without constraints.input_mode
  NoLimit, None,
  RelayMax,       \* max_msg_bytes
  Sizes,          \* of files asked for
  PageSizes,      \* limit parameters
  DefaultSize, LargestSize,  \* 50 and 200
  MaxPatches,     \* bound: calls of PATCH
  MaxLists        \* bound: readings of the list

Kinds == {l.kind : l \in Lims}

VARIABLES
  override,   \* _skill_limitations_overrides: id -> limitations, or None
  probed,     \* _skill_status_probed
  reader,     \* a client that follows next_offset: [pc, kind, size, offset, seen]
  \* history
  admitted,   \* the highest min_trust_score with which a query has returned each
  patches, lists

vars == <<override, probed, reader, admitted, patches, lists>>

Ids == {Skills[i].id : i \in DOMAIN Skills}
SkillOf(id) == Skills[CHOOSE i \in DOMAIN Skills : Skills[i].id = id]
Idle == [pc |-> "idle", kind |-> None, size |-> 0, offset |-> 0, seen |-> <<>>]

Init ==
  /\ override = [id \in Ids |-> None] /\ probed = {}
  /\ reader = Idle /\ admitted = [id \in Ids |-> 0] /\ patches = 0 /\ lists = 0

-----------------------------------------------------------------------------
(* PATCH /skills/{id}/limitations: the new ones replace those of the        *)
(* override, or with limitations_merge those of the same kind and code.     *)
SameKey(l, k) == l.kind = k.kind /\ l.code = k.code
Resolved(id, new, merge) ==
  IF merge /\ override[id] # None
  THEN {l \in override[id] : \A k \in new : ~SameKey(l, k)} \cup new
  ELSE new

(* Nothing left is no override: the card's own are in force again.          *)
Kept_Empty(lims) == lims
Kept(lims) == IF lims = {} THEN None ELSE lims

Patch(id) ==
  /\ patches < MaxPatches /\ patches' = patches + 1
  /\ \E new \in SUBSET Lims, merge \in BOOLEAN :
       override' = [override EXCEPT ![id] = Kept(Resolved(id, new, merge))]
  /\ UNCHANGED <<probed, reader, admitted, lists>>

InForce(id) == IF override[id] = None THEN SkillOf(id).lims ELSE override[id]

(* GET /skills/{id}/status: a limitation of capability or access that is    *)
(* not permanent makes the skill unavailable; the probe is remembered.      *)
Available(id) == ~\E l \in InForce(id) : ~l.permanent /\ l.kind \in {"capability", "access"}

Probe(id) ==
  /\ probed' = probed \cup {id}
  /\ UNCHANGED <<override, reader, admitted, patches, lists>>

(* _compute_skill_trust_score_v314: the number of kinds of evidence, of     *)
(* the limitations it is given, examples, limits and a probe.               *)
Evidence(id, lims) ==
  Cardinality({e \in {"limitations", "examples", "constraints", "status"} :
    CASE e = "limitations" -> lims # {}
      [] e = "examples" -> SkillOf(id).examples
      [] e = "constraints" -> SkillOf(id).limit # NoLimit
      [] e = "status" -> id \in probed})

(* A list shows the score of what is in force, a query goes by the card's.  *)
ListedScore(id) == Evidence(id, InForce(id))
QueriedScore(id) == Evidence(id, SkillOf(id).lims)

-----------------------------------------------------------------------------
(* GET /skills: the filter by limitation looks at the card, before the      *)
(* overrides are put in.                                                    *)
Matches_InForce(id, kind) == kind = None \/ \E l \in InForce(id) : kind \in {l.kind, l.code}
Matches(id, kind) == kind = None \/ \E l \in SkillOf(id).lims : kind \in {l.kind, l.code}

Listed(kind) == SelectSeq([i \in DOMAIN Skills |-> Skills[i].id], LAMBDA id : Matches(id, kind))

Clamped(size) == IF size = 0 THEN DefaultSize ELSE IF size > LargestSize THEN LargestSize ELSE size

StartList ==
  /\ reader.pc # "page" /\ lists < MaxLists /\ lists' = lists + 1
  /\ \E kind \in Kinds \cup {None}, size \in PageSizes :
       reader' = [pc |-> "page", kind |-> kind, size |-> size, offset |-> 0, seen |-> <<>>]
  /\ UNCHANGED <<override, probed, admitted, patches>>

Page ==
  /\ reader.pc = "page"
  /\ LET all == Listed(reader.kind)
         size == Clamped(reader.size)
         sliced == SubSeq(all, reader.offset + 1, Len(all))
         more == Len(sliced) > size
     IN reader' = [reader EXCEPT !.seen = @ \o SubSeq(sliced, 1, IF more THEN size ELSE Len(sliced)),
                                 !.offset = @ + size, !.pc = IF more THEN "page" ELSE "done"]
  /\ UNCHANGED <<override, probed, admitted, patches, lists>>

-----------------------------------------------------------------------------
(* POST /skills/query.  Without a skill id: those that name the input mode  *)
(* and have the score.                                                      *)
Reaches(id, min) == QueriedScore(id) >= min
Found(mode, min) == {id \in Ids : (mode = NoMode \/ mode \in SkillOf(id).modes) /\ Reaches(id, min)}

Query ==
  /\ \E mode \in Modes \cup {NoMode}, min \in 0 .. 4 :
       admitted' = [id \in Ids |-> IF id \in Found(mode, min) /\ min > admitted[id] THEN min ELSE admitted[id]]
  /\ UNCHANGED <<override, probed, reader, patches, lists>>

(* With one: what stands against a constraint.  Each axis has its limits;   *)
(* a skill that names no modes takes any.                                   *)
Axes == {"file_size_bytes", "max_file_size_bytes", "concurrent_tasks", "context_window"}
OfRelay == {"file_size_bytes", "max_file_size_bytes"}
OfSkill == Axes \ {"file_size_bytes"}

TooMuch(size, limit) == limit # NoLimit /\ size > limit
ByLimit(id, axis, size) ==
  {who \in {"relay", "skill"} :
     IF who = "relay" THEN axis \in OfRelay /\ TooMuch(size, RelayMax)
                      ELSE axis \in OfSkill /\ TooMuch(size, SkillOf(id).limit)}

(* Mutant: the modes the skill does name are those that stand against.      *)
ByMode_Listed(id, mode) == IF mode # NoMode /\ mode \in SkillOf(id).modes THEN {"mode"} ELSE {}
ByMode(id, mode) ==
  LET modes == SkillOf(id).modes IN IF mode # NoMode /\ modes # {} /\ mode \notin modes THEN {"mode"} ELSE {}

Level(id, mode, axis, size) ==
  IF id \notin Ids THEN "unsupported"
  ELSE IF ByMode(id, mode) \cup ByLimit(id, axis, size) = {} THEN "supported" ELSE "partial"

Next ==
  \/ \E id \in Ids : Patch(id) \/ Probe(id)
  \/ StartList \/ Page \/ Query

Spec == Init /\ [][Next]_vars

TypeOK ==
  /\ \A id \in Ids : override[id] = None \/ override[id] \subseteq Lims
  /\ probed \subseteq Ids /\ admitted \in [Ids -> 0 .. 4]
  /\ reader.pc \in {"idle", "page", "done"} /\ ToSet(reader.seen) \subseteq Ids

(* A client that follows next_offset has every skill its filter names, once *)
(* and in the card's order, though limitations are changed between its      *)
(* pages (9186-9203).                                                       *)
PagesAreTheList ==
  reader.pc = "done" => reader.seen = SelectSeq([i \in DOMAIN Skills |-> Skills[i].id],
    LAMBDA id : reader.kind = None \/ \E l \in SkillOf(id).lims : reader.kind \in {l.kind, l.code})

(* A skill that a query has returned for its score is listed with no less   *)
(* ever after, whatever is patched: probes are not forgotten and an         *)
(* override is never empty (9206-9222, 14363-14391, 15222-15226).           *)
AdmittedStaysWorthy == \A id \in Ids : ListedScore(id) >= admitted[id]

(* The two forms of a query agree: what is found for an input mode is       *)
(* supported when asked for by id with it and a size that the relay and the *)
(* skill allow (14356-14367, 14405-14481).                                  *)
FoundIsSupported ==
  \A mode \in Modes, size \in Sizes, axis \in Axes, min \in 0 .. 4 : \A id \in Found(mode, min) :
    ~TooMuch(size, RelayMax) /\ ~TooMuch(size, SkillOf(id).limit) => Level(id, mode, axis, size) = "supported"
=============================================================================
