------------------------------ MODULE RuntimeCard ------------------------------
(***************************************************************************)
(* What an agent changes of its AgentCard while it runs (acp_relay.py):    *)
(* principal chain and extensions (insert or replace, remove), limitations *)
(* of the agent and of its skills (replace or merge), policy compliance    *)
(* (replace, add and remove), availability (PATCH, heartbeat).             *)
(*                                                                         *)
(* Each is a global that a request reads, computes anew and binds again,   *)
(* on HTTP threads of their own and without a lock: reading, binding and   *)
(* what follows are steps.  Of an entry its key and a value are kept; the  *)
(* value is the number of the request that wrote it.                       *)
(***************************************************************************)
EXTENDS Integers, Sequences, FiniteSets, SequencesExt

CONSTANTS
  Editors,        \* HTTP threads
  Lists,          \* of "chain", "extensions"
  Maps,           \* "agent" for _limitations, and skills with overrides
  Keys,           \* dids, uris, (kind, code) pairs, policies
  Uses,           \* of "list", "limits", "policy", "availability": what clients ask
  Schedules,      \* schedule -> minutes to its next time, for the schedules used
  MaxEdits,       \* bound on the requests
  MaxNow          \* bound on the clock

VARIABLES
  lists,          \* _principal_chain, _extensions: sequences of [key, val]
  limits,         \* _limitations, _skill_limitations_overrides: key -> val
  policy,         \* _policy_compliance
  shown,          \* _status["policy_compliance"]
  avail,          \* _availability: [schedule, next, last]; 0 for no such field
  clock,
  edit,           \* request of each thread
  edits,          \* numbers the requests
  overlapped,     \* history: objects two requests were at at once
  asked,          \* history: per list, key -> val as the answered requests left it
  beats           \* history: answers of heartbeats

vars == <<lists, limits, policy, shown, avail, clock, edit, edits, overlapped, asked, beats>>
cards == <<lists, limits, policy, shown, avail>>
past == <<asked, beats>>

NoEdit == [pc |-> "idle", on |-> "nothing"]
Empty == [k \in {} |-> 0]
NoSchedule == 0

Init ==
  /\ lists = [l \in Lists |-> <<>>]
  /\ limits = [m \in Maps |-> Empty]
  /\ policy = {} /\ shown = {}
  /\ avail = [schedule |-> NoSchedule, next |-> 0, last |-> 0]
  /\ clock = 1
  /\ edit = [e \in Editors |-> NoEdit]
  /\ edits = 0
  /\ overlapped = {}
  /\ asked = [l \in Lists |-> Empty]
  /\ beats = {}

(* A request begins: it has read the object it is about to bind.            *)
Begin(e, on, r) ==
  /\ edit[e] = NoEdit /\ edits < MaxEdits
  /\ edits' = edits + 1
  /\ edit' = [edit EXCEPT ![e] = [pc |-> "bind", on |-> on, n |-> edits + 1] @@ r]
  /\ overlapped' = overlapped \cup {o \in {on} : \E d \in Editors : edit[d].on = on}
  /\ UNCHANGED <<cards, clock, past>>

Goto(e, pc) == edit' = [edit EXCEPT ![e].pc = pc]
Done(e) == edit' = [edit EXCEPT ![e] = NoEdit]
Beside == UNCHANGED <<clock, edits, overlapped>>

-----------------------------------------------------------------------------
(* Principal chain and extensions.                                          *)

Without(s, k) == SelectSeq(s, LAMBDA x : x.key # k)

(* Mutant: the entry with the key stays.                                    *)
AskUpsert_Keeps(e) ==
  \E l \in Lists, k \in Keys : "list" \in Uses /\ Begin(e, l, [op |-> "upsert", key |-> k, new |-> lists[l]])

AskUpsert(e) ==
  \E l \in Lists, k \in Keys : "list" \in Uses /\ Begin(e, l, [op |-> "upsert", key |-> k, new |-> Without(lists[l], k)])

AskRemove(e) ==
  \E l \in Lists, k \in Keys : "list" \in Uses /\ Begin(e, l, [op |-> "remove", key |-> k, new |-> Without(lists[l], k)])

BindList(e) ==
  /\ edit[e].pc = "bind" /\ edit[e].on \in Lists
  /\ LET l == edit[e].on
     IN /\ lists' = [lists EXCEPT ![l] = edit[e].new]
        /\ IF edit[e].op = "upsert" THEN Goto(e, "append") /\ UNCHANGED asked
           ELSE /\ Done(e)
                /\ asked' = [asked EXCEPT ![l] = [k \in DOMAIN @ \ {edit[e].key} |-> @[k]]]
  /\ UNCHANGED <<limits, policy, shown, avail, beats>> /\ Beside

(* Mutant: the entry is appended to the list the request bound.             *)
AppendEntry_Own(e) ==
  /\ edit[e].pc = "append"
  /\ LET l == edit[e].on
     IN /\ lists' = [lists EXCEPT ![l] = Append(edit[e].new, [key |-> edit[e].key, val |-> 0])]
        /\ asked' = [asked EXCEPT ![l] = edit[e].key :> edit[e].n @@ @]
  /\ Done(e)
  /\ UNCHANGED <<limits, policy, shown, avail, beats>> /\ Beside

(* The entry goes to the end of the list that is bound by now.              *)
AppendEntry(e) ==
  /\ edit[e].pc = "append"
  /\ LET l == edit[e].on
     IN /\ lists' = [lists EXCEPT ![l] = Append(@, [key |-> edit[e].key, val |-> edit[e].n])]
        /\ asked' = [asked EXCEPT ![l] = edit[e].key :> edit[e].n @@ @]
  /\ Done(e)
  /\ UNCHANGED <<limits, policy, shown, avail, beats>> /\ Beside

-----------------------------------------------------------------------------
(* Limitations: PATCH /card for the agent, PATCH /skills/{id}/limitations.  *)

(* merge is ignored for a skill without overrides; an empty result removes  *)
(* the override, which shows the declared defaults again.                   *)
AskLimits(e) ==
  \E m \in Maps, new \in SUBSET Keys, merge \in BOOLEAN :
    /\ "limits" \in Uses
    /\ LET fresh == [k \in new |-> edits + 1]
       IN Begin(e, m, [op |-> "limits", new |-> IF merge THEN fresh @@ limits[m] ELSE fresh])

BindLimits(e) ==
  /\ edit[e].pc = "bind" /\ edit[e].on \in Maps
  /\ limits' = [limits EXCEPT ![edit[e].on] = edit[e].new]
  /\ Done(e)
  /\ UNCHANGED <<lists, policy, shown, avail, past>> /\ Beside

-----------------------------------------------------------------------------
(* PATCH /policy-compliance: the whole list, or what to add and to remove.  *)

AskPolicy(e) ==
  /\ "policy" \in Uses
  /\ \/ \E new \in SUBSET Keys : Begin(e, "policy", [op |-> "policy", new |-> new])
     \/ \E add, remove \in SUBSET Keys :
          Begin(e, "policy", [op |-> "policy", new |-> (policy \cup add) \ remove])

BindPolicy(e) ==
  /\ edit[e].pc = "bind" /\ edit[e].on = "policy"
  /\ policy' = edit[e].new
  /\ Goto(e, "show")
  /\ UNCHANGED <<lists, limits, shown, avail, past>> /\ Beside

(* Mutant: /status is given what the request read before.                   *)
ShowPolicy_Old(e) ==
  /\ edit[e].pc = "show"
  /\ shown' = shown \cup edit[e].new
  /\ Done(e)
  /\ UNCHANGED <<lists, limits, policy, avail, past>> /\ Beside

ShowPolicy(e) ==
  /\ edit[e].pc = "show"
  /\ shown' = policy
  /\ Done(e)
  /\ UNCHANGED <<lists, limits, policy, avail, past>> /\ Beside

-----------------------------------------------------------------------------
(* Availability.                                                            *)

SomeSchedule == DOMAIN Schedules \cup {NoSchedule}

(* PATCH: the fields of the body over what was read.                        *)
AskAvailability(e) ==
  \E s \in SomeSchedule, n \in {avail.next, 0} :
    /\ "availability" \in Uses
    /\ Begin(e, "availability", [op |-> "patch", new |-> [avail EXCEPT !.schedule = s, !.next = n]])

(* A heartbeat: last_active_at over what was read, ...                      *)
AskHeartbeat(e) ==
  /\ "availability" \in Uses
  /\ Begin(e, "availability", [op |-> "beat", at |-> clock, new |-> [avail EXCEPT !.last = clock]])

BindAvailability(e) ==
  /\ edit[e].pc = "bind" /\ edit[e].on = "availability"
  /\ avail' = edit[e].new
  /\ IF edit[e].op = "beat" THEN Goto(e, "fields") ELSE Done(e)
  /\ UNCHANGED <<lists, limits, policy, shown, past>> /\ Beside

(* ... then the fields of its body in the dict that is bound by now, ...    *)
BeatFields(e) ==
  /\ edit[e].pc = "fields"
  /\ \E s \in {avail.schedule} \cup SomeSchedule, n \in {avail.next, clock - 1} :
       avail' = [avail EXCEPT !.schedule = s, !.next = n]
  /\ Goto(e, "next")
  /\ UNCHANGED <<lists, limits, policy, shown, past>> /\ Beside

(* Mutant: a next time that is set is kept.                                 *)
BeatNext_Keeps(e) ==
  /\ edit[e].pc = "next"
  /\ LET s == avail.schedule
     IN avail' = IF s = NoSchedule \/ avail.next # 0 THEN avail ELSE [avail EXCEPT !.next = clock + Schedules[s]]
  /\ Goto(e, "answer")
  /\ UNCHANGED <<lists, limits, policy, shown, past>> /\ Beside

(* ... then next_active_at, computed also when it was set.                  *)
BeatNext(e) ==
  /\ edit[e].pc = "next"
  /\ LET s == avail.schedule
     IN avail' = IF s = NoSchedule THEN avail ELSE [avail EXCEPT !.next = clock + Schedules[s]]
  /\ Goto(e, "answer")
  /\ UNCHANGED <<lists, limits, policy, shown, past>> /\ Beside

(* The answer carries what is bound then.                                   *)
BeatAnswer(e) ==
  /\ edit[e].pc = "answer"
  /\ beats' = beats \cup {[at |-> edit[e].at, schedule |-> avail.schedule, next |-> avail.next,
                          alone |-> "availability" \notin overlapped]}
  /\ Done(e)
  /\ UNCHANGED <<cards, asked>> /\ Beside

Tick ==
  /\ "availability" \in Uses /\ clock < MaxNow
  /\ clock' = clock + 1
  /\ UNCHANGED <<cards, edit, edits, overlapped, past>>

Next ==
  \/ \E e \in Editors :
       \/ AskUpsert(e) \/ AskRemove(e) \/ BindList(e) \/ AppendEntry(e)
       \/ AskLimits(e) \/ BindLimits(e)
       \/ AskPolicy(e) \/ BindPolicy(e) \/ ShowPolicy(e)
       \/ AskAvailability(e) \/ AskHeartbeat(e) \/ BindAvailability(e) \/ BeatFields(e) \/ BeatNext(e) \/ BeatAnswer(e)
  \/ Tick

Spec == Init /\ [][Next]_vars

(* ------------------------------ properties ------------------------------ *)

Quiet(on) == \A e \in Editors : edit[e].on # on

(* Types; an entry was written by a request.                                *)
TypeOK ==
  /\ \A l \in Lists : \A i \in DOMAIN lists[l] : lists[l][i].key \in Keys /\ lists[l][i].val \in 1..edits
  /\ \A m \in Maps : DOMAIN limits[m] \subseteq Keys
  /\ policy \subseteq Keys /\ shown \subseteq Keys
  /\ avail.schedule \in SomeSchedule /\ avail.last <= clock

(* Principal chain and extensions are what the answered requests made of    *)
(* them, each key once, in any sequence of requests that do not overlap     *)
(* (11100-11113, 14574-14596, 15098-15099).                                 *)
ListsTellTheRequests ==
  \A l \in Lists : Quiet(l) /\ l \notin overlapped =>
    /\ {<<x.key, x.val>> : x \in ToSet(lists[l])} = {<<k, asked[l][k]>> : k \in DOMAIN asked[l]}
    /\ Len(lists[l]) = Cardinality(DOMAIN asked[l])

(* /status shows the policies that are in force when no PATCH is under way, *)
(* unless two overlapped (15297-15323).                                     *)
ShownIsInForce == Quiet("policy") /\ "policy" \notin overlapped => shown = policy

(* A heartbeat of an agent with a schedule is answered with a time ahead of *)
(* it, whatever was stored before and whatever its body says, unless        *)
(* another change of the availability overlapped (11834-11863).             *)
HeartbeatLooksAhead ==
  \A b \in beats : b.alone /\ b.schedule # NoSchedule => b.next > b.at
===============================================================================
