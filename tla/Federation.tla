------------------------------- MODULE Federation -------------------------------
(* Relays that route for each other (acp_relay.py): POST /federation makes  *)
(* a remote relay a peer and registers it, POST /federation/route sends it  *)
(* an envelope for one of its peers, and a relay that receives such an      *)
(* envelope passes it to the peer or queues it.                             *)
EXTENDS Integers, Sequences, FiniteSets, Functions

CONSTANTS
  Links,         \* acp:// links of remote relays
  Callers,       \* HTTP threads
  Locals,        \* peers of this relay that others route to
  None,
  MaxRows,       \* bound on the rows made for relays
  MaxRoutes,     \* bound on the routes asked of this relay
  MaxFeds        \* bound on the envelopes other relays send

VARIABLES
  rows,          \* _peers made by POST /federation, in order: [link, ws]
  relays,        \* _federation_relays: sequence of row numbers
  call,          \* requests under way
  routes,        \* routes answered: [row, code]
  sent,          \* messages_sent of each row
  routed,        \* messages_routed of each registered relay
  ws,            \* local peers with a socket
  queued,        \* offline queue of the local peers
  got,           \* what local peers received
  feds,          \* envelopes received
  twin           \* history: links two overlapping requests registered

outVars == <<rows, relays, call, routes, sent, routed, twin>>
inVars == <<ws, queued, got, feds>>
vars == <<outVars, inVars>>

Idle == [kind |-> "idle", link |-> None, pc |-> "none", row |-> 0]

Init ==
  /\ rows = <<>> /\ relays = <<>>
  /\ call = [c \in Callers |-> Idle]
  /\ routes = {} /\ sent = [r \in 1..MaxRows |-> 0] /\ routed = [r \in 1..MaxRows |-> 0]
  /\ ws \in SUBSET Locals
  /\ queued = [p \in Locals |-> <<>>] /\ got = [p \in Locals |-> <<>>]
  /\ feds = 0
  /\ twin = {}

(* ----------------------------- registration ----------------------------- *)

Registered(l) == \E i \in DOMAIN relays : rows[relays[i]].link = l

(* Mutant: the link is not looked for.                                      *)
Look_Never(c, l) ==
  /\ call[c] = Idle /\ Len(rows) < MaxRows
  /\ call' = [call EXCEPT ![c] = [Idle EXCEPT !.kind = "add", !.link = l, !.pc = "row"]]
  /\ twin' = IF \E d \in Callers : call[d].link = l THEN twin \cup {l} ELSE twin
  /\ UNCHANGED <<rows, relays, routes, sent, routed, inVars>>

(* The lock is held for the look, and given back before the row is made.    *)
Look(c, l) ==
  /\ call[c] = Idle /\ Len(rows) < MaxRows
  /\ IF Registered(l)
       THEN UNCHANGED <<call, twin>>
       ELSE /\ call' = [call EXCEPT ![c] = [Idle EXCEPT !.kind = "add", !.link = l, !.pc = "row"]]
            /\ twin' = IF \E d \in Callers : call[d].link = l THEN twin \cup {l} ELSE twin
  /\ UNCHANGED <<rows, relays, routes, sent, routed, inVars>>

MakeRow(c) ==
  /\ call[c].pc = "row" /\ Len(rows) < MaxRows
  /\ rows' = Append(rows, [link |-> call[c].link, ws |-> FALSE])
  /\ call' = [call EXCEPT ![c].pc = "add", ![c].row = Len(rows) + 1]
  /\ UNCHANGED <<relays, routes, sent, routed, twin, inVars>>

AddRelay(c) ==
  /\ call[c].pc = "add"
  /\ relays' = Append(relays, call[c].row)
  /\ call' = [call EXCEPT ![c] = Idle]
  /\ UNCHANGED <<rows, routes, sent, routed, twin, inVars>>

(* guest_mode, started for each registration: the first row of the link     *)
(* that has no socket gets the one it opened.                               *)
Connect(r) ==
  /\ r \in DOMAIN rows /\ ~rows[r].ws
  /\ \A q \in 1..(r - 1) : rows[q].link = rows[r].link => rows[q].ws
  /\ rows' = [rows EXCEPT ![r].ws = TRUE]
  /\ UNCHANGED <<relays, call, routes, sent, routed, twin, inVars>>

Disconnect(r) ==
  /\ r \in DOMAIN rows /\ rows[r].ws
  /\ rows' = [rows EXCEPT ![r].ws = FALSE]
  /\ UNCHANGED <<relays, call, routes, sent, routed, twin, inVars>>

(* ------------------------------- routing -------------------------------- *)

(* _ws_send(msg, peer_id) serialises msg.  Both callers here pass the       *)
(* socket in its place and the envelope after it, so json.dumps raises.     *)
Serialises(what) == what = "envelope"
FirstArgument == "socket"

(* POST /federation/route to a registered relay that is connected; another  *)
(* is answered 404 or 503 without a trace.                                  *)
AskRoute(c, i) ==
  /\ call[c] = Idle /\ Cardinality(routes) < MaxRoutes /\ i \in DOMAIN relays
  /\ rows[relays[i]].ws
  /\ \A d \in Callers : call[d].kind # "route"
  /\ call' = [call EXCEPT ![c] = [Idle EXCEPT !.kind = "route", !.pc = "send", !.row = relays[i]]]
  /\ UNCHANGED <<rows, relays, routes, sent, routed, twin, inVars>>

(* On the loop: without a socket "peer ws not ready"; else the counter of   *)
(* the peer goes up and the message is serialised.  messages_routed counts  *)
(* what went out.                                                           *)
Route(c) ==
  /\ call[c].pc = "send"
  /\ LET r == call[c].row
         out == rows[r].ws /\ Serialises(FirstArgument)
     IN /\ sent' = IF rows[r].ws THEN [sent EXCEPT ![r] = @ + 1] ELSE sent
        /\ routed' = IF out THEN [routed EXCEPT ![r] = @ + 1] ELSE routed
        /\ routes' = routes \cup {[n |-> Cardinality(routes) + 1, row |-> r, up |-> rows[r].ws, ok |-> out]}
  /\ call' = [call EXCEPT ![c] = Idle]
  /\ UNCHANGED <<rows, relays, twin, inVars>>

(* acp.federation.route comes in: to a peer that has a socket it is sent by *)
(* a task no one waits for, whose exception is dropped; for another it is   *)
(* queued.                                                                  *)
Receive(p) ==
  /\ feds < MaxFeds
  /\ feds' = feds + 1
  /\ IF p \in ws
       THEN /\ got' = IF Serialises(FirstArgument) THEN [got EXCEPT ![p] = Append(@, feds + 1)] ELSE got
            /\ UNCHANGED queued
       ELSE /\ queued' = [queued EXCEPT ![p] = Append(@, feds + 1)]
            /\ UNCHANGED got
  /\ UNCHANGED <<outVars, ws>>

(* Mutant: the flush sends the queue and leaves it.                         *)
Arrive_Keep(p) ==
  /\ p \notin ws
  /\ ws' = ws \cup {p}
  /\ got' = [got EXCEPT ![p] = @ \o queued[p]]
  /\ UNCHANGED <<outVars, feds, queued>>

(* A local peer connects, and what is queued for it is sent.                *)
Arrive(p) ==
  /\ p \notin ws
  /\ ws' = ws \cup {p}
  /\ got' = [got EXCEPT ![p] = @ \o queued[p]]
  /\ queued' = [queued EXCEPT ![p] = <<>>]
  /\ UNCHANGED <<outVars, feds>>

GoAway(p) ==
  /\ p \in ws
  /\ ws' = ws \ {p}
  /\ UNCHANGED <<outVars, feds, queued, got>>

Next ==
  \/ \E c \in Callers :
       \/ \E l \in Links : Look(c, l)
       \/ MakeRow(c) \/ AddRelay(c)
       \/ \E i \in 1..MaxRows : AskRoute(c, i)
       \/ Route(c)
  \/ \E r \in 1..MaxRows : Connect(r) \/ Disconnect(r)
  \/ \E p \in Locals : Receive(p) \/ Arrive(p) \/ GoAway(p)

Spec == Init /\ [][Next]_vars

(* ------------------------------ properties ------------------------------ *)

(* Types; what is queued is for a peer without a socket.                    *)
TypeOK ==
  /\ Range(relays) \subseteq DOMAIN rows /\ Len(rows) <= MaxRows
  /\ \A p \in Locals : queued[p] # <<>> => p \notin ws
  /\ \A r \in 1..MaxRows : routed[r] <= sent[r]

(* "Idempotent: re-registering same link" (CHANGELOG.md:234): a link has    *)
(* one relay, unless two requests for it overlapped: the lock is given up   *)
(* between the look and the registration (13259-13285).                     *)
OneRelayPerLink ==
  \A i, j \in DOMAIN relays :
    i # j /\ rows[relays[i]].link = rows[relays[j]].link => rows[relays[i]].link \in twin

(* An envelope for a local peer reaches it at most once, in the order they  *)
(* came, and those that came while it was away all reach it or are queued   *)
(* (5989-5998, CHANGELOG.md:236).                                           *)
FederatedInOrder ==
  \A p \in Locals :
    LET all == got[p] \o queued[p] IN \A i, j \in DOMAIN all : i < j => all[i] < all[j]

(* "Route message to a peer on a remote relay" (CHANGELOG.md:235): a route  *)
(* over a relay that is connected when it is sent is answered ok.           *)
RouteGoesOut == \A r \in routes : r.up => r.ok
===============================================================================
