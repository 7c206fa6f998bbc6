------------------------------ MODULE P2PGroups ------------------------------
(***************************************************************************)
(* Group chat of the peer-to-peer SDK (src/p2p/sdk/acp_p2p.py): there is   *)
(* no server, every member keeps its own list of members and tells the     *)
(* others what it changes, one post after the other.                       *)
(*                                                                         *)
(* One group; every agent runs one operation at a time, while the posts of *)
(* the others reach it at any of its awaits.  URIs have no query: the      *)
(* invitation link of a group whose founder's has one is not parsed back   *)
(* to the same group (162).                                                *)
(***************************************************************************)
EXTENDS Naturals, Sequences, FiniteSets

CONSTANTS
  Agents,
  Founder,
  MaxOps,     (* bound: operations                                          *)
  MaxLinks,   (* bound: links made                                          *)
  MaxLate,    (* bound: posts that time out                                 *)
  MaxDown     (* bound: agents that stop                                    *)

VARIABLES
  groups,     (* _groups of each agent, for the one group                   *)
  op,         (* the operation each agent is in                             *)
  links,      (* the member lists in the invitation links that were made    *)
  wire,       (* posts whose sender has stopped waiting                     *)
  up,         (* agents whose server runs                                   *)
  ops, late, down,
  joined,     (* history: agents that were in the group                     *)
  invited,    (* history: pairs of which invite returned True               *)
  faulty      (* history: operations overlapped, a post was late, an agent  *)
              (* of the group was invited or joined again, one joined by a  *)
              (* link older than the list, or an agent went down            *)

counters == <<ops, late, down>>
history == <<joined, invited, faulty>>
vars == <<groups, op, links, wire, up, counters, history>>

(* Not in the group; gen tells one Group object of an agent from another.   *)
NoGroup(g) == [in |-> FALSE, members |-> {}, gen |-> g]
Idle == [kind |-> "none"]
Bodies == [type : {"invite", "joined"}, members : SUBSET Agents] \cup
          [type : {"left", "message"}]
Posts == {m \in [from : Agents, to : Agents, body : Bodies] : m.from # m.to}

TypeOK ==
  /\ groups \in [Agents -> [in : BOOLEAN, members : SUBSET Agents, gen : 0 .. 3 * MaxOps]]
  /\ \A a \in Agents : op[a] = Idle \/
       /\ op[a].kind \in {"invite", "notify", "leave", "send"}
       /\ op[a].targets \subseteq Agents \ {a}
       /\ op[a].gen <= groups[a].gen
  /\ links \subseteq SUBSET Agents /\ wire \subseteq Posts /\ up \subseteq Agents
  /\ joined \subseteq Agents /\ invited \subseteq Agents \X Agents

(* create_group, by the founder.                                            *)
Init ==
  /\ groups = [a \in Agents |-> IF a = Founder THEN [in |-> TRUE, members |-> {a}, gen |-> 0]
                                               ELSE NoGroup(0)]
  /\ op = [a \in Agents |-> Idle] /\ links = {} /\ wire = {} /\ up = Agents
  /\ ops = 0 /\ late = 0 /\ down = 0
  /\ joined = {Founder} /\ invited = {} /\ faulty = FALSE

-----------------------------------------------------------------------------
(* Handlers: _dispatch at the agent a, of what b sent, as a function from   *)
(* its group to its group.                                                  *)

(* Mutant: the list of the link is taken as it is.                          *)
OnInvite_AsIs(a, g, members) == [in |-> TRUE, members |-> members, gen |-> g.gen + 1]

(* group.invite: a new Group object in place of any there was.              *)
OnInvite(a, g, members) == [in |-> TRUE, members |-> members \cup {a}, gen |-> g.gen + 1]

(* Mutant: the list stays.                                                  *)
OnLeft_Nothing(g, b) == g

(* group.member_left.                                                       *)
OnLeft(g, b) == IF g.in THEN [g EXCEPT !.members = @ \ {b}] ELSE g

(* group.message: of a group that is not known, one of two members.         *)
OnMessage(a, g, b) == IF g.in THEN g ELSE [in |-> TRUE, members |-> {a, b}, gen |-> g.gen + 1]

(* group.member_joined: the list as the sender has it.                      *)
OnJoined(g, members) == IF g.in THEN [g EXCEPT !.members = members] ELSE g

Handled(a, b, body) ==
  LET g == groups[a]
  IN CASE body.type = "invite"  -> OnInvite(a, g, body.members)
       [] body.type = "joined"  -> OnJoined(g, body.members)
       [] body.type = "left"    -> OnLeft(g, b)
       [] body.type = "message" -> OnMessage(a, g, b)

Receive(a, b, body) ==
  /\ groups' = [groups EXCEPT ![a] = Handled(a, b, body)]
  /\ joined' = IF groups'[a].in THEN joined \cup {a} ELSE joined

-----------------------------------------------------------------------------
(* Posts of an operation: to one of its targets, one after the other.  The  *)
(* code has an order for them, the model any.                               *)

Body(a) ==
  CASE op[a].kind = "invite" -> [type |-> "invite", members |-> op[a].members]
    [] op[a].kind = "notify" -> [type |-> "joined", members |-> op[a].members]
    [] op[a].kind = "leave"  -> [type |-> "left"]
    [] op[a].kind = "send"   -> [type |-> "message"]

Waits(a) == op[a] # Idle /\ op[a].targets # {}
Step(a, t) == op' = [op EXCEPT ![a].targets = @ \ {t}]

(* The post is handled and answered in time.                                *)
PostAnswered(a, t) ==
  /\ Waits(a) /\ t \in op[a].targets /\ t \in up
  /\ Receive(t, a, Body(a))
  /\ op' = [op EXCEPT ![a].targets = @ \ {t}, ![a].ok = TRUE]
  /\ UNCHANGED <<links, wire, up, counters, invited, faulty>>

(* It is not: refused, or still on its way when the sender gives up.        *)
PostRefused(a, t) ==
  /\ Waits(a) /\ t \in op[a].targets /\ t \notin up
  /\ Step(a, t)
  /\ UNCHANGED <<groups, links, wire, up, counters, history>>

PostLate(a, t) ==
  /\ Waits(a) /\ t \in op[a].targets /\ t \in up
  /\ late < MaxLate /\ late' = late + 1
  /\ Step(a, t)
  /\ wire' = wire \cup {[from |-> a, to |-> t, body |-> Body(a)]}
  /\ faulty' = TRUE
  /\ UNCHANGED <<groups, links, up, ops, down, joined, invited>>

ArriveLate(m) ==
  /\ m \in wire /\ m.to \in up
  /\ Receive(m.to, m.from, m.body)
  /\ wire' = wire \ {m}
  /\ UNCHANGED <<op, links, up, counters, invited, faulty>>

-----------------------------------------------------------------------------
(* Operations.                                                              *)

Overlaps(a) == \E b \in Agents \ {a} : op[b] # Idle

Begin(a) ==
  /\ op[a] = Idle /\ a \in up /\ ops < MaxOps /\ ops' = ops + 1

Run(a, kind, targets, members, p) ==
  op' = [op EXCEPT ![a] = [kind |-> kind, targets |-> targets, members |-> members,
                           peer |-> p, gen |-> groups[a].gen, ok |-> FALSE]]

(* to_invite_uri: the link has the list in it, as it is now.                *)
MakeLink(a) ==
  /\ a \in up /\ groups[a].in /\ Cardinality(links) < MaxLinks
  /\ links' = links \cup {groups[a].members}
  /\ UNCHANGED <<groups, op, wire, up, counters, history>>

(* invite: of anybody else, on the list or not.                             *)
Invite(a, p) ==
  /\ Begin(a) /\ groups[a].in /\ p # a
  /\ Run(a, "invite", {p}, groups[a].members, p)
  /\ faulty' = (faulty \/ Overlaps(a) \/ groups[p].in)
  /\ UNCHANGED <<groups, links, wire, up, late, down, joined, invited>>

(* The caller's Group object, which may no longer be the agent's own.       *)
Own(a) == groups[a].gen = op[a].gen /\ groups[a].in

(* Mutant: the peer is added and told of whether it answered or not.        *)
InviteDone_Anyway(a) ==
  LET p == op[a].peer
      members == (IF Own(a) THEN groups[a].members ELSE op[a].members) \cup {p}
  IN /\ op[a].kind = "invite" /\ op[a].targets = {}
     /\ groups' = IF Own(a) THEN [groups EXCEPT ![a].members = members] ELSE groups
     /\ Run(a, "notify", members \ {a, p}, members, p)
     /\ invited' = invited \cup {<<a, p>>}
     /\ UNCHANGED <<links, wire, up, counters, joined, faulty>>

(* The invited agent answered: it is added, and the others are told of the  *)
(* whole list.  Else invite returns False.                                  *)
InviteDone(a) ==
  LET p == op[a].peer
      members == (IF Own(a) THEN groups[a].members ELSE op[a].members) \cup {p}
  IN /\ op[a].kind = "invite" /\ op[a].targets = {}
     /\ IF op[a].ok
        THEN /\ groups' = IF Own(a) THEN [groups EXCEPT ![a].members = members] ELSE groups
             /\ Run(a, "notify", members \ {a, p}, members, p)
             /\ invited' = invited \cup {<<a, p>>}
        ELSE op' = [op EXCEPT ![a] = Idle] /\ UNCHANGED <<groups, invited>>
     /\ UNCHANGED <<links, wire, up, counters, joined, faulty>>

(* join_group, with a link made before: a new Group object with the link's  *)
(* list, in place of any there was.                                         *)
JoinGroup(a, link) ==
  /\ Begin(a) /\ link \in links
  /\ LET members == link \cup {a}
     IN /\ groups' = [groups EXCEPT ![a] = [in |-> TRUE, members |-> members, gen |-> @.gen + 1]]
        /\ op' = [op EXCEPT ![a] = [kind |-> "notify", targets |-> members \ {a}, members |-> members,
                                    peer |-> a, gen |-> groups[a].gen + 1, ok |-> FALSE]]
  /\ joined' = joined \cup {a}
  /\ faulty' = (faulty \/ Overlaps(a) \/ groups[a].in \/ link # {b \in Agents : groups[b].in})
  /\ UNCHANGED <<links, wire, up, late, down, invited>>

(* leave_group tells the others first.                                      *)
LeaveGroup(a) ==
  /\ Begin(a) /\ groups[a].in
  /\ Run(a, "leave", groups[a].members \ {a}, {}, a)
  /\ faulty' = (faulty \/ Overlaps(a))
  /\ UNCHANGED <<groups, links, wire, up, late, down, joined, invited>>

(* Then the agent forgets the group, whichever object holds it.             *)
LeaveDone(a) ==
  /\ op[a].kind = "leave" /\ op[a].targets = {}
  /\ op' = [op EXCEPT ![a] = Idle]
  /\ groups' = [groups EXCEPT ![a] = NoGroup(@.gen)]
  /\ UNCHANGED <<links, wire, up, counters, history>>

GroupSend(a) ==
  /\ Begin(a) /\ groups[a].in
  /\ Run(a, "send", groups[a].members \ {a}, {}, a)
  /\ faulty' = (faulty \/ Overlaps(a))
  /\ UNCHANGED <<groups, links, wire, up, late, down, joined, invited>>

Done(a) ==
  /\ op[a].kind \in {"notify", "send"} /\ op[a].targets = {}
  /\ op' = [op EXCEPT ![a] = Idle]
  /\ UNCHANGED <<groups, links, wire, up, counters, history>>

(* stop: the server goes, the operations and lists stay.                    *)
Stop(a) ==
  /\ a \in up /\ down < MaxDown /\ down' = down + 1
  /\ up' = up \ {a} /\ faulty' = TRUE
  /\ UNCHANGED <<groups, op, links, wire, ops, late, joined, invited>>

Next ==
  \/ \E a, t \in Agents : \/ PostAnswered(a, t) \/ PostRefused(a, t) \/ PostLate(a, t)
                          \/ Invite(a, t)
  \/ \E a \in Agents, link \in links : JoinGroup(a, link)
  \/ \E a \in Agents : \/ MakeLink(a) \/ InviteDone(a) \/ LeaveGroup(a) \/ LeaveDone(a)
                       \/ GroupSend(a) \/ Done(a) \/ Stop(a)
  \/ \E m \in wire : ArriveLate(m)

Spec == Init /\ [][Next]_vars

-----------------------------------------------------------------------------
(* Properties.                                                              *)

(* However operations overlap and posts come late, an agent is on its own   *)
(* list as long as it is in the group, so that whoever copies its list      *)
(* reaches it.                                                              *)
MembersListThemselves == \A a \in Agents : groups[a].in => a \in groups[a].members

(* When invite returns True the agent has joined, by this invitation or     *)
(* before.                                                                  *)
InvitedHaveJoined == \A pair \in invited : pair[2] \in joined

(* As long as operations do not overlap, no post is lost and nobody joins   *)
(* by a link that is older than the list (the second to use one makes the   *)
(* others forget the first), all members have the same list when nothing is *)
(* under way: it holds just the members.                                    *)
ListsAgree ==
  ~faulty /\ (\A a \in Agents : op[a] = Idle) =>
    \A a \in Agents : groups[a].in => groups[a].members = {b \in Agents : groups[b].in}

=============================================================================
