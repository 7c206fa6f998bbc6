----------------------------- MODULE PeerSessions -----------------------------
(***************************************************************************)
(* The peer registry of one relay (src/relay/acp_relay.py): guests that    *)
(* connect to it (on_guest), links it dials for POST /peers/connect, POST  *)
(* /federation or --join (_connect_with_nat_traversal, guest_mode), their  *)
(* retries, the fallback to the HTTP relay, and HTTP threads whose send    *)
(* fails or times out and who unregister the peer.                         *)
(*                                                                         *)
(* Coroutines run on one event loop and interleave at their awaits; HTTP   *)
(* threads interleave anywhere.  Whether an attempt to connect succeeds is *)
(* the environment's choice.  The level-2 hole punch always ends in an     *)
(* exception in this version (attempt is called with an argument it does   *)
(* not have), so only its place in the order of steps is kept.             *)
(***************************************************************************)
EXTENDS Naturals, Sequences, FiniteSets

CONSTANTS
  Guests,      (* agents that connect to this relay's link                  *)
  Dials,       (* dials of other relays' links                              *)
  Links,
  Nobody,
  Joined,      (* the dials --join makes at the start, with their links     *)
  OneThread,   (* one HTTP thread at a time is in POST /peers/connect or    *)
               (* POST /federation                                          *)
  Threads,     (* HTTP threads that send to a peer                          *)
  Retries,     (* P2P_MAX_RETRIES                                           *)
  MaxSockets,  (* bound: sockets opened in a run                            *)
  MaxDead      (* bound: unregistrations by HTTP threads in a run           *)

Conns == Guests \cup Dials

ASSUME SessionAssumption ==
  /\ Guests \cap Dials = {} /\ Guests \cap Links = {} /\ Nobody \notin Conns \cup Links
  /\ Joined \subseteq Dials \X Links
  /\ \A x, y \in Joined : x[1] = y[1] => x = y
  /\ OneThread \in BOOLEAN
  /\ Retries \in Nat \ {0}
  /\ {MaxSockets, MaxDead} \subseteq Nat

VARIABLES
  peers,     (* _peers in the order of its ids: whom each is for, its ws    *)
  legacy,    (* _peer_ws                                                    *)
  flag,      (* _status["connected"]                                        *)
  count,     (* _status["peer_count"]                                       *)
  pc,        (* where each coroutine is                                     *)
  own,       (* on_guest's local peer_id                                    *)
  target,    (* the link each dial is for                                   *)
  tries,     (* guest_mode's retry                                          *)
  sock,      (* the socket of each connection: none, open, broken           *)
  no,        (* the number of its socket                                    *)
  opened,    (* sockets opened so far                                       *)
  storing,   (* each HTTP thread after a failed send: still to count the    *)
             (* connected peers, or to store the number n it counted        *)
  dead,      (* counts unregistrations by HTTP threads                      *)
  fed,       (* the links in _federation_relays                             *)
  doubled,   (* history: links POST /federation took that had a peer        *)
  late,      (* history: threads whose number is from before the registry   *)
             (* last changed                                                *)
  stale      (* history: count is from a late thread, or a send unregistered*)
             (* a peer and counted nothing                                  *)

registry == <<peers, legacy, flag, count>>
http == <<storing, dead, fed, doubled>>
race == <<late, stale>>
vars == <<registry, pc, own, target, tries, sock, no, opened, http, race>>

Socket == [conn : Conns, no : 1 .. MaxSockets]
NoWs == [conn |-> Nobody, no |-> 0]
Ws(c) == [conn |-> c, no |-> no[c]]
Places == {"off", "asked", "federate", "enter", "nat", "dial", "card", "reading", "sleep",
           "punch", "relay", "gone"}

Idle == [at |-> "idle", n |-> 0]
Storing == {t \in Threads : storing[t].at = "store"}

(* Types; on_guest and guest_mode know where they are: only a connection    *)
(* with a socket sends a card or reads, and a dial counts below Retries.    *)
TypeOK ==
  /\ peers \in Seq([of : Guests \cup Links, ws : Socket \cup {NoWs}])
  /\ legacy \in Socket \cup {NoWs}
  /\ flag \in BOOLEAN /\ count \in 0 .. Len(peers)
  /\ pc \in [Conns -> Places]
  /\ \A c \in Conns : pc[c] \in {"card", "reading"} => sock[c] # "none"
  /\ own \in [Guests -> 0 .. Len(peers)]
  /\ target \in [Dials -> Links \cup {Nobody}]
  /\ tries \in [Dials -> 0 .. Retries - 1]
  /\ sock \in [Conns -> {"none", "open", "broken"}]
  /\ no \in [Conns -> 0 .. MaxSockets]
  /\ opened \in 0 .. MaxSockets
  /\ storing \in [Threads -> [at : {"idle", "count", "store"}, n : 0 .. Len(peers)]]
  /\ dead \in 0 .. MaxDead
  /\ fed \subseteq Links /\ doubled \subseteq Links
  /\ late \subseteq Storing /\ stale \in BOOLEAN

Init ==
  /\ peers = <<>> /\ legacy = NoWs /\ flag = FALSE /\ count = 0
  /\ pc = [c \in Conns |-> IF \E l \in Links : <<c, l>> \in Joined THEN "dial" ELSE "off"]
  /\ own = [g \in Guests |-> 0]
  /\ target = [d \in Dials |-> IF \E l \in Links : <<d, l>> \in Joined
                               THEN CHOOSE l \in Links : <<d, l>> \in Joined ELSE Nobody]
  /\ tries = [d \in Dials |-> 0]
  /\ sock = [c \in Conns |-> "none"]
  /\ no = [c \in Conns |-> 0]
  /\ opened = 0 /\ storing = [t \in Threads |-> Idle] /\ dead = 0
  /\ fed = {} /\ doubled = {} /\ late = {} /\ stale = FALSE

-----------------------------------------------------------------------------
(* The registry.                                                            *)

Live(ps) == {p \in DOMAIN ps : ps[p].ws # NoWs}
With(l) == {p \in DOMAIN peers : peers[p].of = l}
First(ids) == CHOOSE p \in ids : \A q \in ids : p <= q
Unregister(ps, ids) == [p \in DOMAIN ps |-> IF p \in ids THEN [ps[p] EXCEPT !.ws = NoWs] ELSE ps[p]]

(* The loop thread changes _peers and stores the new count.                 *)
SetPeers(ps) ==
  /\ peers' = ps
  /\ count' = Cardinality(Live(ps))
  /\ late' = Storing /\ stale' = FALSE

Open(c) ==
  /\ opened < MaxSockets /\ opened' = opened + 1
  /\ sock' = [sock EXCEPT ![c] = "open"]
  /\ no' = [no EXCEPT ![c] = opened + 1]

Drop(c) == sock' = [sock EXCEPT ![c] = "none"] /\ UNCHANGED <<no, opened>>
Goto(c, place) == pc' = [pc EXCEPT ![c] = place]

-----------------------------------------------------------------------------
(* on_guest.                                                                *)

(* A guest connects: it is _peer_ws before its peer is registered.          *)
AcceptGuest(g) ==
  /\ pc[g] = "off"
  /\ Open(g)
  /\ legacy' = [conn |-> g, no |-> opened + 1]
  /\ flag' = TRUE
  /\ Goto(g, "card")
  /\ UNCHANGED <<peers, count, own, target, tries, http, race>>

(* The AgentCard is sent: a new peer.  (The search for a peer with the same *)
(* remote address finds none: an address is reused only after it is free.)  *)
RegisterGuest(g) ==
  /\ pc[g] = "card" /\ sock[g] = "open"
  /\ SetPeers(Append(peers, [of |-> g, ws |-> Ws(g)]))
  /\ own' = [own EXCEPT ![g] = Len(peers) + 1]
  /\ Goto(g, "reading")
  /\ UNCHANGED <<legacy, flag, target, tries, sock, no, opened, http>>

(* It cannot be sent: on_guest ends there, _peer_ws and the flag stay.      *)
CardFails(g) ==
  /\ pc[g] = "card" /\ sock[g] = "broken"
  /\ Drop(g)
  /\ Goto(g, "off")
  /\ UNCHANGED <<registry, own, target, tries, http, race>>

(* Mutant: the guest's peer is looked up by _peer_ws.                       *)
GuestLeaves_ByLegacy(g) ==
  /\ pc[g] = "reading" /\ sock[g] = "broken"
  /\ SetPeers(Unregister(peers, {p \in DOMAIN peers : peers[p].ws = legacy}))
  /\ legacy' = NoWs /\ flag' = FALSE
  /\ own' = [own EXCEPT ![g] = 0]
  /\ Drop(g)
  /\ Goto(g, "off")
  /\ UNCHANGED <<target, tries, http>>

(* The read loop ends.                                                      *)
GuestLeaves(g) ==
  /\ pc[g] = "reading" /\ sock[g] = "broken"
  /\ SetPeers(Unregister(peers, {own[g]}))
  /\ legacy' = NoWs /\ flag' = FALSE
  /\ own' = [own EXCEPT ![g] = 0]
  /\ Drop(g)
  /\ Goto(g, "off")
  /\ UNCHANGED <<target, tries, http>>

-----------------------------------------------------------------------------
(* POST /peers/connect and POST /federation.                                *)

Asking == {"asked", "federate", "enter"}

(* Mutant: only peers that are connected count as known (BUG-003).          *)
AskLink_Connected(d, l) ==
  /\ pc[d] = "off"
  /\ OneThread => \A e \in Dials : pc[e] \notin Asking
  /\ With(l) \cap Live(peers) = {}
  /\ target' = [target EXCEPT ![d] = l]
  /\ Goto(d, "asked")
  /\ UNCHANGED <<registry, own, tries, sock, no, opened, http, race>>

(* An HTTP thread finds no peer with the link; with one, connected or not,  *)
(* it answers already_connected and does nothing.                           *)
AskLink(d, l) ==
  /\ pc[d] = "off"
  /\ OneThread => \A e \in Dials : pc[e] \notin Asking
  /\ With(l) = {}
  /\ target' = [target EXCEPT ![d] = l]
  /\ Goto(d, "asked")
  /\ UNCHANGED <<registry, own, tries, sock, no, opened, http, race>>

(* The thread of /federation looks at the relays it knows, not at _peers.   *)
AskFederation(d, l) ==
  /\ pc[d] = "off"
  /\ OneThread => \A e \in Dials : pc[e] \notin Asking
  /\ l \notin fed
  /\ target' = [target EXCEPT ![d] = l]
  /\ doubled' = IF With(l) = {} THEN doubled ELSE doubled \cup {l}
  /\ Goto(d, "federate")
  /\ UNCHANGED <<registry, own, tries, sock, no, opened, storing, dead, fed, race>>

(* It registers a peer without a connection and starts the dial, ...        *)
RegisterLink(d) ==
  /\ pc[d] \in {"asked", "federate"}
  /\ peers' = Append(peers, [of |-> target[d], ws |-> NoWs])
  /\ Goto(d, IF pc[d] = "asked" THEN "nat" ELSE "enter")
  /\ UNCHANGED <<legacy, flag, count, own, target, tries, sock, no, opened, http, race>>

(* ... in /federation after the link is entered in _federation_relays.      *)
EnterFederation(d) ==
  /\ pc[d] = "enter"
  /\ fed' = fed \cup {target[d]}
  /\ Goto(d, "nat")
  /\ UNCHANGED <<registry, own, target, tries, sock, no, opened, storing, dead, doubled, race>>

(* _connect_with_nat_traversal: level 1 connects and leaves the socket to   *)
(* guest_mode,                                                              *)
Level1(d) ==
  /\ pc[d] = "nat"
  /\ Open(d)
  /\ Goto(d, "dial")
  /\ UNCHANGED <<registry, own, target, tries, http, race>>

(* or fails within 3 s, and level 2 after it.                               *)
Level1Fails(d) ==
  /\ pc[d] = "nat"
  /\ Goto(d, "punch")
  /\ UNCHANGED <<registry, own, target, tries, sock, no, opened, http, race>>

-----------------------------------------------------------------------------
(* guest_mode.                                                              *)

(* The connection is made, or taken over from level 1, and registered: in   *)
(* the first peer with this link that has no connection, if there is one.   *)
Connected(d) ==
  LET free == With(target[d]) \ Live(peers)
      n == IF sock[d] = "none" THEN opened + 1 ELSE no[d]
      ws == [conn |-> d, no |-> n]
  IN /\ pc[d] = "dial"
     /\ IF sock[d] = "none" THEN Open(d) ELSE UNCHANGED <<sock, no, opened>>
     /\ SetPeers(IF free = {} THEN Append(peers, [of |-> target[d], ws |-> ws])
                 ELSE [peers EXCEPT ![First(free)].ws = ws])
     /\ legacy' = ws /\ flag' = TRUE
     /\ Goto(d, "card")
     /\ UNCHANGED <<own, target, tries, http>>

(* Card and flush done; the count of failures starts again.                 *)
CardSent(d) ==
  /\ pc[d] = "card" /\ sock[d] = "open"
  /\ tries' = [tries EXCEPT ![d] = 0]
  /\ Goto(d, "reading")
  /\ UNCHANGED <<registry, own, target, sock, no, opened, http, race>>

(* The attempt is over: it never connected, or its socket broke.            *)
Over(d) ==
  \/ pc[d] = "dial" /\ sock[d] = "none"
  \/ pc[d] \in {"card", "reading"} /\ sock[d] = "broken"

(* Mutant: retry starts again with each attempt.                            *)
Retry_Forever(d) ==
  /\ Over(d)
  /\ SetPeers(Unregister(peers, IF With(target[d]) = {} THEN {} ELSE {First(With(target[d]))}))
  /\ legacy' = NoWs /\ flag' = FALSE
  /\ UNCHANGED tries
  /\ Drop(d)
  /\ Goto(d, "sleep")
  /\ UNCHANGED <<own, target, http>>

(* Mutant: one attempt too many.                                            *)
Retry_Once(d) ==
  /\ Over(d) /\ tries[d] < Retries
  /\ SetPeers(Unregister(peers, IF With(target[d]) = {} THEN {} ELSE {First(With(target[d]))}))
  /\ legacy' = NoWs /\ flag' = FALSE
  /\ tries' = [tries EXCEPT ![d] = @ + 1]
  /\ Drop(d)
  /\ Goto(d, "sleep")
  /\ UNCHANGED <<own, target, http>>

(* The finally clause unregisters the first peer with this link, whoever    *)
(* connected it; then guest_mode sleeps and tries again.                    *)
Retry(d) ==
  /\ Over(d) /\ tries[d] + 1 < Retries
  /\ SetPeers(Unregister(peers, IF With(target[d]) = {} THEN {} ELSE {First(With(target[d]))}))
  /\ legacy' = NoWs /\ flag' = FALSE
  /\ tries' = [tries EXCEPT ![d] = @ + 1]
  /\ Drop(d)
  /\ Goto(d, "sleep")
  /\ UNCHANGED <<own, target, http>>

Awake(d) ==
  /\ pc[d] = "sleep"
  /\ Goto(d, "dial")
  /\ UNCHANGED <<registry, own, target, tries, sock, no, opened, http, race>>

(* Mutant: the count is left to the next change.                            *)
GiveUp_Count(d) ==
  /\ Over(d) /\ tries[d] + 1 = Retries
  /\ peers' = Unregister(peers, DOMAIN peers)
  /\ late' = Storing /\ stale' = FALSE
  /\ legacy' = NoWs /\ flag' = FALSE
  /\ Drop(d)
  /\ Goto(d, "punch")
  /\ UNCHANGED <<count, own, target, tries, http>>

(* After the last attempt every peer of the relay is marked disconnected,   *)
(* also those whose connection is sound.                                    *)
GiveUp(d) ==
  /\ Over(d) /\ tries[d] + 1 = Retries
  /\ SetPeers(Unregister(peers, DOMAIN peers))
  /\ legacy' = NoWs /\ flag' = FALSE
  /\ Drop(d)
  /\ Goto(d, "punch")
  /\ UNCHANGED <<own, target, tries, http>>

(* Level 2 failed; level 3 joins the HTTP relay and polls it, or cannot.    *)
JoinRelay(d) ==
  /\ pc[d] = "punch"
  /\ flag' = TRUE
  /\ Goto(d, "relay")
  /\ UNCHANGED <<peers, legacy, count, own, target, tries, sock, no, opened, http, race>>

JoinFails(d) ==
  /\ pc[d] = "punch"
  /\ Goto(d, "gone")
  /\ UNCHANGED <<registry, own, target, tries, sock, no, opened, http, race>>

-----------------------------------------------------------------------------
(* Broken connections, and HTTP threads that notice first.                  *)

Break(c) ==
  /\ sock[c] = "open"
  /\ sock' = [sock EXCEPT ![c] = "broken"]
  /\ UNCHANGED <<registry, pc, own, target, tries, no, opened, http, race>>

(* A thread's send or ping to a peer fails or does not end within 5 s: the  *)
(* peer is unregistered,                                                    *)
UnregisterDead(t, p) ==
  /\ dead < MaxDead /\ dead' = dead + 1
  /\ storing[t].at = "idle" /\ peers[p].ws # NoWs
  /\ peers' = Unregister(peers, {p})
  /\ storing' = [storing EXCEPT ![t] = [at |-> "count", n |-> 0]]
  /\ late' = Storing
  /\ UNCHANGED <<legacy, flag, count, pc, own, target, tries, sock, no, opened, fed, doubled, stale>>

(* the connected peers are counted,                                         *)
CountPeers(t) ==
  /\ storing[t].at = "count"
  /\ storing' = [storing EXCEPT ![t] = [at |-> "store", n |-> Cardinality(Live(peers))]]
  /\ UNCHANGED <<registry, pc, own, target, tries, sock, no, opened, dead, fed, doubled, race>>

(* and the number is stored.                                                *)
StoreCount(t) ==
  /\ storing[t].at = "store"
  /\ count' = storing[t].n
  /\ storing' = [storing EXCEPT ![t] = Idle]
  /\ stale' = (t \in late) /\ late' = late \ {t}
  /\ UNCHANGED <<peers, legacy, flag, pc, own, target, tries, sock, no, opened, dead, fed, doubled>>

(* A message of a batch or of a WebSocket sender fails: the peer is         *)
(* unregistered and nobody counts.                                          *)
UnregisterOnly(p) ==
  /\ dead < MaxDead /\ dead' = dead + 1
  /\ peers[p].ws # NoWs
  /\ peers' = Unregister(peers, {p})
  /\ late' = Storing /\ stale' = TRUE
  /\ UNCHANGED <<legacy, flag, count, pc, own, target, tries, sock, no, opened, storing, fed, doubled>>

Guest(g) == AcceptGuest(g) \/ RegisterGuest(g) \/ CardFails(g) \/ GuestLeaves(g)

(* What a dial does by itself.                                              *)
Dial(d) ==
  \/ RegisterLink(d) \/ EnterFederation(d) \/ Level1(d) \/ Level1Fails(d) \/ Connected(d) \/ CardSent(d)
  \/ Retry(d) \/ Awake(d) \/ GiveUp(d) \/ JoinRelay(d) \/ JoinFails(d)

Next ==
  \/ \E g \in Guests : Guest(g)
  \/ \E d \in Dials : Dial(d) \/ \E l \in Links : AskLink(d, l) \/ AskFederation(d, l)
  \/ \E c \in Conns : Break(c)
  \/ \E p \in DOMAIN peers : UnregisterOnly(p) \/ \E t \in Threads : UnregisterDead(t, p)
  \/ \E t \in Threads : CountPeers(t) \/ StoreCount(t)

Spec == Init /\ [][Next]_vars

(* The event loop runs what is ready, and connecting ends with a socket or  *)
(* an error; nobody has to connect, ask, break or send.                     *)
FairSpec == Spec /\ \A d \in Dials : WF_vars(Dial(d))

-----------------------------------------------------------------------------
(* Properties.                                                              *)

(* With one HTTP thread in /peers/connect or /federation, and links that    *)
(* --join does not dial, a link is one peer for the life of the process: a  *)
(* reconnect gets the id back, and with it the messages queued for it       *)
(* (BUG-003, BUG-059).  Only POST /federation makes a second one, for a     *)
(* link that already has a peer.                                            *)
OnePeerPerLink == \A l \in Links \ doubled : Cardinality(With(l)) <= 1

(* There are no ghosts: a peer that counts as connected, if it is a guest   *)
(* or the only peer of its link, has the socket of a coroutine that is      *)
(* using it and will unregister the peer when it breaks (BUG-012).          *)
NoGhostPeer ==
  \A p \in Live(peers) :
    peers[p].of \in Guests \/ With(peers[p].of) = {p} =>
      LET c == peers[p].ws.conn
      IN peers[p].ws = Ws(c) /\ pc[c] \in {"card", "reading"}

(* peer_count is the number of connected peers when no thread is between a  *)
(* failed send and storing its number; unless the number stored last was    *)
(* counted before the registry last changed, or a send that counts nothing  *)
(* failed since.                                                            *)
CountIsRight ==
  (\A t \in Threads : storing[t].at = "idle") /\ ~stale => count = Cardinality(Live(peers))

(* A dial that is under way ends: connected, polling the relay, or given    *)
(* up because the relay could not be joined either.                         *)
DialSettles ==
  \A d \in Dials : pc[d] \in Asking \cup {"nat", "dial"} ~> pc[d] \in {"reading", "relay", "gone"}

=============================================================================
