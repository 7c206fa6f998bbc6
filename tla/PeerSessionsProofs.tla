-------------------------- MODULE PeerSessionsProofs --------------------------
(***************************************************************************)
(* What TLAPS proves about the peer registry, for any number of guests,    *)
(* dials, links, retries, sockets and HTTP threads: its count of connected *)
(* peers, that it has no ghosts, and, where one HTTP thread at a time is   *)
(* in POST /peers/connect or /federation and --join dials no link, that a  *)
(* link is one peer unless /federation doubles it; then about the hole     *)
(* punch, for any number of sessions and messages, and about GET /recv,    *)
(* for any readers, limits and size of the queue.                          *)
(***************************************************************************)
EXTENDS MCPeerSessions, PickingProofs, FiniteSetTheorems

Peer == [of : Guests \cup Links, ws : Socket \cup {NoWs}]

(* The part of the types the argument needs.                                *)
Shape ==
  /\ peers \in Seq(Peer)
  /\ pc \in [Conns -> Places]
  /\ own \in [Guests -> Nat]
  /\ target \in [Dials -> Links \cup {Nobody}]
  /\ sock \in [Conns -> {"none", "open", "broken"}]
  /\ no \in [Conns -> 0 .. MaxSockets]
  /\ opened \in 0 .. MaxSockets
  /\ \A c \in Conns : sock[c] # "none" => no[c] \in 1 .. MaxSockets
  /\ \A c \in Conns : pc[c] \in {"card", "reading"} => sock[c] # "none"
  /\ \A d \in Dials : pc[d] # "off" => target[d] \in Links

(* A link is one peer, unless /federation doubled it.                       *)
Unique ==
  \A p, q \in DOMAIN peers : peers[p].of = peers[q].of /\ peers[p].of \in Links \ doubled => p = q

(* The HTTP thread that asked for a link is alone and found no peer.        *)
AskedIsNew ==
  /\ \A d \in Dials : pc[d] \in {"asked", "federate"} /\ target[d] \notin doubled =>
       \A p \in DOMAIN peers : peers[p].of # target[d]
  /\ \A d, e \in Dials : pc[d] \in Asking /\ pc[e] \in Asking => d = e

(* A dial has a peer, and a link that is not doubled one dial.              *)
DialHasPeer ==
  \A d \in Dials : pc[d] \notin {"off", "asked", "federate"} =>
    \E p \in DOMAIN peers : peers[p].of = target[d]
OneDialPerLink ==
  \A d, e \in Dials :
    pc[d] # "off" /\ pc[e] # "off" /\ target[d] = target[e] /\ target[d] \notin doubled => d = e

Links1 == Unique /\ AskedIsNew /\ DialHasPeer /\ OneDialPerLink

(* A connected peer, if it is a guest or the only one of its link, has the  *)
(* socket of the coroutine that will unregister it when it ends.            *)
Sole(p) == peers[p].of \in Guests \/ With(peers[p].of) = {p}
Holds(c, p) ==
  /\ c \in Conns /\ peers[p].ws = Ws(c)
  /\ c \in Guests => pc[c] = "reading" /\ own[c] = p /\ peers[p].of = c
  /\ c \in Dials => pc[c] \in {"card", "reading"} /\ peers[p].of = target[c]
SocketInUse == \A p \in Live(peers) : Sole(p) => Holds(peers[p].ws.conn, p)

SessionInv == Shape /\ SocketInUse

-----------------------------------------------------------------------------
(* The registry's operations.                                               *)

LEMMA SocketTypes ==
  /\ NoWs \notin Socket
  /\ \A c \in Conns : no[c] \in 1 .. MaxSockets => Ws(c) \in Socket
  BY SessionAssumption DEF Socket, NoWs, Ws

LEMMA UnregisterPeers ==
  ASSUME NEW ps \in Seq(Peer), NEW ids
  PROVE  /\ Unregister(ps, ids) \in Seq(Peer)
         /\ DOMAIN Unregister(ps, ids) = DOMAIN ps
         /\ \A p \in DOMAIN ps : Unregister(ps, ids)[p].of = ps[p].of
         /\ \A p \in DOMAIN ps : Unregister(ps, ids)[p].ws = IF p \in ids THEN NoWs ELSE ps[p].ws
  <1>1. \A p \in DOMAIN ps : ps[p] \in Peer
    OBVIOUS
  <1>2. \A p \in DOMAIN ps : [ps[p] EXCEPT !.ws = NoWs] \in Peer
    BY <1>1 DEF Peer
  <1>3. Unregister(ps, ids) \in [1 .. Len(ps) -> Peer]
    BY <1>1, <1>2 DEF Unregister
  <1>4. \A p \in DOMAIN ps : Unregister(ps, ids)[p] = IF p \in ids THEN [ps[p] EXCEPT !.ws = NoWs] ELSE ps[p]
    BY DEF Unregister
  <1>5. Len(ps) \in Nat /\ DOMAIN ps = 1 .. Len(ps)
    OBVIOUS
  <1>6. Unregister(ps, ids) \in Seq(Peer) /\ DOMAIN Unregister(ps, ids) = DOMAIN ps
    BY <1>3, <1>5
  <1> QED
    BY <1>1, <1>4, <1>6 DEF Peer

LEMMA AppendPeer ==
  ASSUME NEW ps \in Seq(Peer), NEW x \in Peer
  PROVE  /\ Append(ps, x) \in Seq(Peer)
         /\ DOMAIN Append(ps, x) = DOMAIN ps \cup {Len(ps) + 1}
         /\ Len(ps) + 1 \notin DOMAIN ps /\ Len(ps) + 1 \in Nat
         /\ \A p \in DOMAIN ps : Append(ps, x)[p] = ps[p]
         /\ Append(ps, x)[Len(ps) + 1] = x
  <1>1. Len(Append(ps, x)) = Len(ps) + 1 /\ Append(ps, x) \in Seq(Peer)
    OBVIOUS
  <1> QED
    BY <1>1

(* A peer that is the only one of its link was so before.                   *)
LEMMA SoleBefore ==
  ASSUME DOMAIN peers \subseteq DOMAIN peers',
         \A p \in DOMAIN peers : peers'[p].of = peers[p].of,
         NEW p \in DOMAIN peers, Sole(p)'
  PROVE  Sole(p)
  <1>1. peers'[p].of = peers[p].of
    OBVIOUS
  <1>2. CASE peers[p].of \in Guests
    BY <1>2 DEF Sole
  <1>3. CASE With(peers[p].of)' = {p}
    <2>1. \A q \in DOMAIN peers : peers[q].of = peers[p].of => q = p
      BY <1>1, <1>3 DEF With
    <2> QED
      BY <2>1 DEF Sole, With
  <1> QED
    BY <1>1, <1>2, <1>3 DEF Sole

-----------------------------------------------------------------------------
(* Steps that leave the registry as it is.                                  *)

(* One coroutine moves on; it has no peer that counts as connected, or is a *)
(* dial that goes from its card to reading.                                 *)
LEMMA Moves ==
  ASSUME SessionInv, Shape', peers' = peers, own' = own,
         NEW c \in Conns, NEW x \in Places, pc' = [pc EXCEPT ![c] = x],
         \A e \in Conns \ {c} : no'[e] = no[e],
         \A d \in Dials \ {c} : target'[d] = target[d],
         \/ c \in Guests /\ pc[c] # "reading"
         \/ c \in Dials /\ pc[c] \notin {"card", "reading"}
         \/ c \in Dials /\ pc[c] = "card" /\ x = "reading" /\ no'[c] = no[c] /\ target'[c] = target[c]
  PROVE  SessionInv'
  <1>1. /\ pc'[c] = x /\ \A e \in Conns \ {c} : pc'[e] = pc[e]
        /\ Guests \cap Dials = {} /\ Dials \subseteq Conns /\ Guests \subseteq Conns
    BY SessionAssumption DEF SessionInv, Shape, Conns
  <1>2. ASSUME NEW p \in Live(peers), Sole(p)
        PROVE  Holds(peers[p].ws.conn, p)'
    <2>1. Holds(peers[p].ws.conn, p)
      BY <1>2 DEF SessionInv, SocketInUse
    <2>2. \/ peers[p].ws.conn # c
          \/ pc[c] = "card" /\ c \in Dials /\ x = "reading" /\ no'[c] = no[c] /\ target'[c] = target[c]
      BY <1>1, <2>1 DEF Holds
    <2>3. CASE peers[p].ws.conn # c
      BY <1>1, <2>1, <2>3 DEF Holds, Ws
    <2>4. CASE pc[c] = "card" /\ c \in Dials /\ x = "reading" /\ no'[c] = no[c] /\ target'[c] = target[c]
      BY <1>1, <2>1, <2>4 DEF Holds, Ws
    <2> QED
      BY <2>2, <2>3, <2>4
  <1>3. SocketInUse'
    BY <1>2 DEF SocketInUse, Live, Sole, With
  <1> QED
    BY <1>3 DEF SessionInv

-----------------------------------------------------------------------------
(* Types.                                                                   *)

LEMMA ShapeInit == Init => Shape
  <1> SUFFICES ASSUME Init PROVE Shape
    OBVIOUS
  <1>1. ASSUME NEW d \in Dials, \E l \in Links : <<d, l>> \in Joined
        PROVE  (CHOOSE l \in Links : <<d, l>> \in Joined) \in Links
    BY <1>1
  <1>2. target \in [Dials -> Links \cup {Nobody}]
    BY <1>1 DEF Init
  <1>3. /\ pc \in [Conns -> Places]
        /\ \A c \in Conns : pc[c] \in {"off", "dial"}
    BY DEF Init, Places
  <1>4. ASSUME NEW d \in Dials, pc[d] # "off" PROVE target[d] \in Links
    <2>1. \E l \in Links : <<d, l>> \in Joined
      BY <1>4 DEF Init, Conns
    <2> QED
      BY <1>1, <2>1 DEF Init
  <1>5. /\ peers = <<>> /\ own = [g \in Guests |-> 0] /\ opened = 0
        /\ sock = [c \in Conns |-> "none"] /\ no = [c \in Conns |-> 0]
    BY DEF Init
  <1> QED
    BY <1>2, <1>3, <1>4, <1>5, SessionAssumption DEF Shape

LEMMA OpenTypes ==
  ASSUME Shape, NEW c \in Conns, Open(c)
  PROVE  /\ sock' \in [Conns -> {"none", "open", "broken"}]
         /\ no' \in [Conns -> 0 .. MaxSockets] /\ opened' \in 0 .. MaxSockets
         /\ \A e \in Conns : sock'[e] # "none" => no'[e] \in 1 .. MaxSockets
         /\ sock'[c] = "open" /\ no'[c] = opened + 1
         /\ \A e \in Conns \ {c} : sock'[e] = sock[e] /\ no'[e] = no[e]
  <1>1. opened + 1 \in 1 .. MaxSockets /\ opened + 1 \in 0 .. MaxSockets
    BY SessionAssumption DEF Shape, Open
  <1>2. sock' \in [Conns -> {"none", "open", "broken"}] /\ no' \in [Conns -> 0 .. MaxSockets]
    BY <1>1 DEF Shape, Open
  <1>3. /\ sock'[c] = "open" /\ no'[c] = opened + 1
        /\ \A e \in Conns \ {c} : sock'[e] = sock[e] /\ no'[e] = no[e]
    BY DEF Shape, Open
  <1> QED
    BY <1>1, <1>2, <1>3 DEF Shape, Open

LEMMA DropTypes ==
  ASSUME Shape, NEW c \in Conns, Drop(c)
  PROVE  /\ sock' \in [Conns -> {"none", "open", "broken"}]
         /\ no' = no /\ opened' = opened /\ sock'[c] = "none"
         /\ \A e \in Conns \ {c} : sock'[e] = sock[e]
  BY DEF Shape, Drop

(* A step of one coroutine keeps the types if what it writes has them.      *)
LEMMA ShapeMoves ==
  ASSUME Shape, NEW c \in Conns, NEW x \in Places, pc' = [pc EXCEPT ![c] = x],
         peers' \in Seq(Peer), own' \in [Guests -> Nat],
         target' \in [Dials -> Links \cup {Nobody}],
         \A d \in Dials \ {c} : target'[d] = target[d],
         c \in Dials => target'[c] \in Links,
         sock' \in [Conns -> {"none", "open", "broken"}],
         no' \in [Conns -> 0 .. MaxSockets], opened' \in 0 .. MaxSockets,
         \A e \in Conns : sock'[e] # "none" => no'[e] \in 1 .. MaxSockets,
         \A e \in Conns \ {c} : sock'[e] = sock[e],
         x \in {"card", "reading"} => sock'[c] # "none"
  PROVE  Shape'
  <1>1. pc' \in [Conns -> Places] /\ pc'[c] = x /\ \A e \in Conns \ {c} : pc'[e] = pc[e]
    BY DEF Shape
  <1>2. \A e \in Conns : pc'[e] \in {"card", "reading"} => sock'[e] # "none"
    BY <1>1 DEF Shape
  <1>3. \A d \in Dials : pc'[d] # "off" => target'[d] \in Links
    BY <1>1 DEF Shape, Conns
  <1> QED
    BY <1>1, <1>2, <1>3 DEF Shape

-----------------------------------------------------------------------------
(* Guests.                                                                  *)

LEMMA AcceptGuestStep ==
  ASSUME SessionInv, NEW g \in Guests, AcceptGuest(g)
  PROVE  SessionInv'
  <1>1. g \in Conns /\ g \notin Dials /\ Shape
    BY SessionAssumption DEF Conns, SessionInv
  <1>2. Shape'
    <2>1. Open(g) /\ pc' = [pc EXCEPT ![g] = "card"] /\ UNCHANGED <<peers, own, target>>
      BY DEF AcceptGuest, Goto
    <2>2. "card" \in Places
      BY DEF Places
    <2> QED
      BY <1>1, <2>1, <2>2, OpenTypes, ShapeMoves DEF Shape
  <1>3. \A e \in Conns \ {g} : no'[e] = no[e]
    BY <1>1, OpenTypes DEF AcceptGuest
  <1>4. /\ peers' = peers /\ own' = own /\ target' = target
        /\ pc' = [pc EXCEPT ![g] = "card"] /\ "card" \in Places /\ pc[g] # "reading"
    BY DEF AcceptGuest, Goto, Places
  <1> QED
    BY <1>1, <1>2, <1>3, <1>4, Moves

LEMMA CardFailsStep ==
  ASSUME SessionInv, NEW g \in Guests, CardFails(g)
  PROVE  SessionInv'
  <1>1. g \in Conns /\ g \notin Dials /\ Shape /\ "off" \in Places
    BY SessionAssumption DEF Conns, SessionInv, Places
  <1>2. /\ Drop(g) /\ pc' = [pc EXCEPT ![g] = "off"] /\ UNCHANGED <<peers, own, target>>
        /\ pc[g] # "reading"
    BY DEF CardFails, Goto, registry
  <1>3. Shape' /\ \A e \in Conns \ {g} : no'[e] = no[e]
    BY <1>1, <1>2, DropTypes, ShapeMoves DEF Shape
  <1> QED
    BY <1>1, <1>2, <1>3, Moves

-----------------------------------------------------------------------------
(* Dials that leave the registry as it is.                                  *)

LEMMA Level1Step ==
  ASSUME SessionInv, NEW d \in Dials, Level1(d)
  PROVE  SessionInv'
  <1>1. d \in Conns /\ d \notin Guests /\ Shape /\ "dial" \in Places
    BY SessionAssumption DEF Conns, SessionInv, Places
  <1>2. /\ Open(d) /\ pc' = [pc EXCEPT ![d] = "dial"] /\ UNCHANGED <<peers, own, target>>
        /\ pc[d] = "nat"
    BY DEF Level1, Goto, registry
  <1>3. Shape' /\ \A e \in Conns \ {d} : no'[e] = no[e]
    <2>1. target[d] \in Links
      BY <1>1, <1>2 DEF Shape
    <2> QED
      BY <1>1, <1>2, <2>1, OpenTypes, ShapeMoves DEF Shape
  <1> QED
    BY <1>1, <1>2, <1>3, Moves

(* The steps that touch no socket.                                          *)
LEMMA QuietDial ==
  ASSUME SessionInv, NEW d \in Dials, NEW x \in Places, pc' = [pc EXCEPT ![d] = x],
         UNCHANGED <<peers, own, target, sock, no, opened>>, x # "card", pc[d] # "off",
         \/ pc[d] \notin {"card", "reading"} /\ x # "reading"
         \/ pc[d] = "card" /\ x = "reading"
  PROVE  SessionInv'
  <1>1. d \in Conns /\ d \notin Guests /\ Shape
    BY SessionAssumption DEF Conns, SessionInv
  <1>2. target[d] \in Links /\ (x \in {"card", "reading"} => sock[d] # "none")
    BY <1>1 DEF Shape
  <1>3. Shape'
    BY <1>1, <1>2, ShapeMoves DEF Shape
  <1>4. /\ peers' = peers /\ own' = own /\ target' = target
        /\ \A e \in Conns \ {d} : no'[e] = no[e]
    OBVIOUS
  <1>5. \/ d \in Dials /\ pc[d] \notin {"card", "reading"}
        \/ d \in Dials /\ pc[d] = "card" /\ x = "reading" /\ no'[d] = no[d] /\ target'[d] = target[d]
    OBVIOUS
  <1> QED
    BY <1>1, <1>3, <1>4, <1>5, Moves

LEMMA QuietDialStep ==
  ASSUME SessionInv, NEW d \in Dials,
         \/ EnterFederation(d) \/ Level1Fails(d) \/ CardSent(d) \/ Awake(d)
         \/ JoinRelay(d) \/ JoinFails(d)
  PROVE  SessionInv'
  <1>1. {"nat", "punch", "reading", "dial", "relay", "gone"} \subseteq Places
    BY DEF Places
  <1>2. CASE Level1Fails(d)
    BY <1>1, <1>2, QuietDial DEF Level1Fails, Goto, registry
  <1>3. CASE CardSent(d)
    BY <1>1, <1>3, QuietDial DEF CardSent, Goto, registry
  <1>4. CASE Awake(d)
    BY <1>1, <1>4, QuietDial DEF Awake, Goto, registry
  <1>5. CASE JoinRelay(d)
    BY <1>1, <1>5, QuietDial DEF JoinRelay, Goto
  <1>6. CASE JoinFails(d)
    BY <1>1, <1>6, QuietDial DEF JoinFails, Goto, registry
  <1>7. CASE EnterFederation(d)
    BY <1>1, <1>7, QuietDial DEF EnterFederation, Goto, registry
  <1> QED
    BY <1>2, <1>3, <1>4, <1>5, <1>6, <1>7

LEMMA BreakStep ==
  ASSUME SessionInv, NEW c \in Conns, Break(c)
  PROVE  SessionInv'
  <1>1. /\ sock' = [sock EXCEPT ![c] = "broken"] /\ sock[c] = "open"
        /\ UNCHANGED <<peers, pc, own, target, no, opened>>
    BY DEF Break, registry
  <1>2. Shape'
    BY <1>1 DEF SessionInv, Shape
  <1>3. SocketInUse'
    BY <1>1 DEF SessionInv, SocketInUse, Holds, Live, Ws, Sole, With
  <1> QED
    BY <1>2, <1>3 DEF SessionInv

LEMMA StillStep ==
  ASSUME SessionInv, UNCHANGED <<peers, pc, own, target, sock, no, opened>>
  PROVE  SessionInv'
  BY DEF SessionInv, Shape, SocketInUse, Holds, Live, Ws, Sole, With

(* An HTTP thread asks for a link.                                          *)
LEMMA AskedStep ==
  ASSUME SessionInv, NEW d \in Dials, NEW l \in Links, NEW x \in {"asked", "federate"},
         pc[d] = "off", pc' = [pc EXCEPT ![d] = x], target' = [target EXCEPT ![d] = l],
         UNCHANGED <<peers, own, sock, no, opened>>
  PROVE  SessionInv'
  <1>1. d \in Conns /\ d \notin Guests /\ Shape /\ x \in Places
    BY SessionAssumption DEF Conns, SessionInv, Places
  <1>2. /\ target' \in [Dials -> Links \cup {Nobody}] /\ target'[d] = l
        /\ \A e \in Dials \ {d} : target'[e] = target[e]
    BY <1>1 DEF Shape
  <1>3. Shape'
    BY <1>1, <1>2, ShapeMoves DEF Shape
  <1>4. peers' = peers /\ own' = own /\ \A e \in Conns \ {d} : no'[e] = no[e]
    OBVIOUS
  <1> QED
    BY <1>1, <1>2, <1>3, <1>4, Moves

-----------------------------------------------------------------------------
(* Steps that unregister peers.                                             *)

(* And a connected peer that stays is as it was.                            *)
LEMMA UnregisterLive ==
  ASSUME Shape, NEW ids, peers' = Unregister(peers, ids)
  PROVE  /\ peers' \in Seq(Peer)
         /\ Live(peers') = Live(peers) \ ids /\ DOMAIN peers' = DOMAIN peers
         /\ \A p \in DOMAIN peers : peers'[p].of = peers[p].of
         /\ \A p \in Live(peers') : /\ peers'[p].ws = peers[p].ws
                                    /\ peers'[p].of = peers[p].of
  <1>1. peers \in Seq(Peer)
    BY DEF Shape
  <1>2. /\ peers' \in Seq(Peer) /\ DOMAIN peers' = DOMAIN peers
        /\ \A p \in DOMAIN peers : peers'[p].of = peers[p].of
        /\ \A p \in DOMAIN peers : peers'[p].ws = IF p \in ids THEN NoWs ELSE peers[p].ws
    BY <1>1, UnregisterPeers
  <1> QED
    BY <1>2 DEF Live

(* A coroutine that ends, or ends an attempt, unregisters what it held.     *)
LEMMA Ends ==
  ASSUME SessionInv, Shape', NEW c \in Conns, NEW x \in Places, pc' = [pc EXCEPT ![c] = x],
         NEW ids, peers' = Unregister(peers, ids), target' = target, no' = no,
         \A g \in Guests \ {c} : own'[g] = own[g],
         \A p \in Live(peers) : Sole(p) /\ peers[p].ws.conn = c => p \in ids
  PROVE  SessionInv'
  <1>1. /\ pc'[c] = x /\ \A e \in Conns \ {c} : pc'[e] = pc[e]
        /\ Dials \subseteq Conns /\ Shape
    BY DEF SessionInv, Shape, Conns
  <1>2. ASSUME NEW p \in Live(peers'), Sole(p)'
        PROVE  Holds(peers[p].ws.conn, p)'
    <2>1. /\ p \in Live(peers) /\ p \notin ids /\ peers'[p].ws = peers[p].ws /\ peers'[p].of = peers[p].of
          /\ DOMAIN peers' = DOMAIN peers /\ \A q \in DOMAIN peers : peers'[q].of = peers[q].of
      BY <1>1, UnregisterLive
    <2>2. p \in DOMAIN peers
      BY <2>1 DEF Live
    <2>3. Sole(p)
      BY <1>2, <2>1, <2>2, SoleBefore
    <2>4. Holds(peers[p].ws.conn, p) /\ peers[p].ws.conn # c
      BY <2>1, <2>3 DEF SessionInv, SocketInUse
    <2> QED
      BY <1>1, <2>1, <2>4 DEF Holds, Ws
  <1>3. SocketInUse'
    BY <1>2 DEF SocketInUse, Live
  <1> QED
    BY <1>3 DEF SessionInv

LEMMA GuestLeavesStep ==
  ASSUME SessionInv, NEW g \in Guests, GuestLeaves(g)
  PROVE  SessionInv'
  <1>1. g \in Conns /\ g \notin Dials /\ Shape /\ "off" \in Places
    BY SessionAssumption DEF Conns, SessionInv, Places
  <1>2. /\ Drop(g) /\ pc' = [pc EXCEPT ![g] = "off"] /\ target' = target
        /\ peers' = Unregister(peers, {own[g]}) /\ own' = [own EXCEPT ![g] = 0]
    BY DEF GuestLeaves, Goto, SetPeers
  <1>3. own' \in [Guests -> Nat] /\ \A h \in Guests \ {g} : own'[h] = own[h]
    BY <1>1, <1>2 DEF Shape
  <1>4. Shape' /\ no' = no
    <2>1. peers' \in Seq(Peer)
      BY <1>1, <1>2, UnregisterLive
    <2>2. /\ sock' \in [Conns -> {"none", "open", "broken"}] /\ no' = no /\ opened' = opened
          /\ sock'[g] = "none" /\ \A e \in Conns \ {g} : sock'[e] = sock[e]
      BY <1>1, <1>2, DropTypes
    <2>3. \A e \in Conns : sock'[e] # "none" => no'[e] \in 1 .. MaxSockets
      BY <1>1, <2>2 DEF Shape
    <2> QED
      BY <1>1, <1>2, <1>3, <2>1, <2>2, <2>3, ShapeMoves DEF Shape
  <1>5. \A p \in Live(peers) : Sole(p) /\ peers[p].ws.conn = g => p \in {own[g]}
    BY DEF SessionInv, SocketInUse, Holds
  <1> QED
    BY <1>1, <1>2, <1>3, <1>4, <1>5, Ends

LEMMA FirstOfOne == ASSUME NEW p \in Nat PROVE First({p}) = p
  BY DEF First

LEMMA DialEndsStep ==
  ASSUME SessionInv, NEW d \in Dials, Retry(d) \/ GiveUp(d)
  PROVE  SessionInv'
  <1>1. d \in Conns /\ d \notin Guests /\ Shape /\ {"sleep", "punch"} \subseteq Places
    BY SessionAssumption DEF Conns, SessionInv, Places
  <1>2. Drop(d) /\ target' = target /\ own' = own /\ pc[d] # "off"
    BY DEF Retry, GiveUp, Over
  <1>3. target[d] \in Links
    BY <1>1, <1>2 DEF Shape
  <1>4. ASSUME NEW x \in {"sleep", "punch"}, pc' = [pc EXCEPT ![d] = x],
               NEW ids, peers' = Unregister(peers, ids),
               \A p \in Live(peers) : Sole(p) /\ peers[p].ws.conn = d => p \in ids
        PROVE  SessionInv'
    <2>1. Shape' /\ no' = no
      BY <1>1, <1>2, <1>3, <1>4, DropTypes, UnregisterLive, ShapeMoves DEF Shape
    <2>2. \A g \in Guests \ {d} : own'[g] = own[g]
      BY <1>2
    <2> QED
      BY <1>1, <1>2, <1>4, <2>1, <2>2, Ends
  <1>5. CASE Retry(d)
    <2> DEFINE ids == IF With(target[d]) = {} THEN {} ELSE {First(With(target[d]))}
    <2>1. peers' = Unregister(peers, ids) /\ pc' = [pc EXCEPT ![d] = "sleep"]
      BY <1>5 DEF Retry, SetPeers, Goto
    <2>2. ASSUME NEW p \in Live(peers), Sole(p), peers[p].ws.conn = d PROVE p \in ids
      <3>1. p \in DOMAIN peers /\ peers[p].of = target[d]
        BY <2>2 DEF SessionInv, SocketInUse, Holds, Live
      <3>2. peers[p].of \notin Guests
        BY <1>3, <3>1, SessionAssumption
      <3>3. With(target[d]) = {p} /\ p \in Nat
        BY <1>1, <2>2, <3>1, <3>2 DEF Sole, Shape
      <3> QED
        BY <3>3, FirstOfOne
    <2> HIDE DEF ids
    <2> QED
      BY <1>4, <2>1, <2>2
  <1>6. CASE GiveUp(d)
    <2>1. peers' = Unregister(peers, DOMAIN peers) /\ pc' = [pc EXCEPT ![d] = "punch"]
      BY <1>6 DEF GiveUp, SetPeers, Goto
    <2>2. \A p \in Live(peers) : p \in DOMAIN peers
      BY DEF Live
    <2> QED
      BY <1>4, <2>1, <2>2
  <1> QED
    BY <1>5, <1>6

(* HTTP threads unregister a peer whose coroutine goes on.                  *)
LEMMA UnregisterDeadStep ==
  ASSUME SessionInv, NEW q, peers' = Unregister(peers, {q}),
         UNCHANGED <<pc, own, target, sock, no, opened>>
  PROVE  SessionInv'
  <1>1. Shape
    BY DEF SessionInv
  <1>2. Shape'
    BY <1>1, UnregisterLive DEF Shape
  <1>3. SocketInUse'
    <2>1. ASSUME NEW p \in Live(peers'), Sole(p)'
          PROVE  Holds(peers[p].ws.conn, p)'
      <3>1. /\ p \in Live(peers) /\ peers'[p].ws = peers[p].ws /\ peers'[p].of = peers[p].of
            /\ DOMAIN peers' = DOMAIN peers /\ \A r \in DOMAIN peers : peers'[r].of = peers[r].of
        BY <1>1, UnregisterLive
      <3>2. p \in DOMAIN peers
        BY <3>1 DEF Live
      <3>3. Sole(p)
        BY <2>1, <3>1, <3>2, SoleBefore
      <3>4. Holds(peers[p].ws.conn, p)
        BY <3>1, <3>3 DEF SessionInv, SocketInUse
      <3> QED
        BY <3>1, <3>4 DEF Holds, Ws
    <2> QED
      BY <2>1 DEF SocketInUse, Live
  <1> QED
    BY <1>2, <1>3 DEF SessionInv

-----------------------------------------------------------------------------
(* Steps that register peers.                                               *)

LEMMA RegisterGuestStep ==
  ASSUME SessionInv, NEW g \in Guests, RegisterGuest(g)
  PROVE  SessionInv'
  <1> DEFINE n == Len(peers) + 1
             x == [of |-> g, ws |-> Ws(g)]
  <1>1. g \in Conns /\ g \notin Dials /\ g \notin Links /\ Shape /\ "reading" \in Places
    BY SessionAssumption DEF Conns, SessionInv, Places
  <1>2. /\ peers' = Append(peers, x) /\ own' = [own EXCEPT ![g] = n]
        /\ pc' = [pc EXCEPT ![g] = "reading"] /\ pc[g] = "card"
        /\ UNCHANGED <<target, sock, no, opened>>
    BY DEF RegisterGuest, SetPeers, Goto
  <1>3. Ws(g) \in Socket /\ x \in Peer /\ peers \in Seq(Peer) /\ sock[g] # "none"
    BY <1>1, <1>2, SocketTypes DEF Shape, Peer
  <1>4. /\ peers' \in Seq(Peer) /\ DOMAIN peers' = DOMAIN peers \cup {n}
        /\ n \notin DOMAIN peers /\ n \in Nat /\ peers'[n] = x
        /\ \A p \in DOMAIN peers : peers'[p] = peers[p]
    BY <1>2, <1>3, AppendPeer
  <1>5. Shape'
    <2>1. own' \in [Guests -> Nat]
      BY <1>1, <1>2, <1>4 DEF Shape
    <2> QED
      BY <1>1, <1>2, <1>3, <1>4, <2>1, ShapeMoves DEF Shape
  <1>6. \A e \in Conns \ {g} : pc'[e] = pc[e]
    BY <1>1, <1>2 DEF Shape
  <1>7. ASSUME NEW p \in Live(peers'), Sole(p)'
        PROVE  Holds(peers[p].ws.conn, p)'
    <2>1. CASE p = n
      <3>1. own'[g] = n /\ pc'[g] = "reading"
        BY <1>1, <1>2 DEF Shape
      <3> QED
        BY <1>1, <1>2, <1>4, <2>1, <3>1 DEF Holds, Ws
    <2>2. CASE p \in Live(peers)
      <3>1. p \in DOMAIN peers /\ peers'[p] = peers[p]
        BY <1>4, <2>2 DEF Live
      <3>2. Sole(p)
        BY <1>4, <1>7, <3>1, SoleBefore
      <3>3. Holds(peers[p].ws.conn, p)
        BY <2>2, <3>2 DEF SessionInv, SocketInUse
      <3>4. peers[p].ws.conn # g
        BY <1>1, <1>2, <3>3 DEF Holds
      <3>5. \A h \in Guests \ {g} : own'[h] = own[h]
        BY <1>1, <1>2 DEF Shape
      <3>6. PICK c \in Conns : c = peers[p].ws.conn
        BY <3>3 DEF Holds
      <3>7. /\ pc'[c] = pc[c] /\ no' = no /\ target' = target
            /\ c \in Guests => own'[c] = own[c]
        BY <1>2, <1>6, <3>4, <3>5, <3>6
      <3>8. Holds(c, p)
        BY <3>3, <3>6
      <3>9. Holds(c, p)'
        BY <3>1, <3>7, <3>8 DEF Holds, Ws
      <3> QED
        BY <3>1, <3>6, <3>9
    <2> QED
      BY <1>4, <2>1, <2>2 DEF Live
  <1>8. SocketInUse'
    BY <1>7 DEF SocketInUse, Live
  <1> QED
    BY <1>5, <1>8 DEF SessionInv

LEMMA RegisterLinkStep ==
  ASSUME SessionInv, NEW d \in Dials, RegisterLink(d)
  PROVE  SessionInv'
  <1> DEFINE n == Len(peers) + 1
             x == [of |-> target[d], ws |-> NoWs]
  <1>1. d \in Conns /\ d \notin Guests /\ Shape /\ {"nat", "enter"} \subseteq Places
    BY SessionAssumption DEF Conns, SessionInv, Places
  <1>2. /\ peers' = Append(peers, x) /\ pc[d] \in {"asked", "federate"}
        /\ UNCHANGED <<own, target, sock, no, opened>>
    BY DEF RegisterLink
  <1>3. PICK y \in {"nat", "enter"} : pc' = [pc EXCEPT ![d] = y]
    BY DEF RegisterLink, Goto
  <1>4. target[d] \in Links /\ x \in Peer /\ peers \in Seq(Peer)
    BY <1>1, <1>2 DEF Shape, Peer
  <1>5. /\ peers' \in Seq(Peer) /\ DOMAIN peers' = DOMAIN peers \cup {n}
        /\ n \notin DOMAIN peers /\ peers'[n] = x
        /\ \A p \in DOMAIN peers : peers'[p] = peers[p]
    BY <1>2, <1>4, AppendPeer
  <1>6. Shape'
    BY <1>1, <1>2, <1>3, <1>4, <1>5, ShapeMoves DEF Shape
  <1>7. \A e \in Conns \ {d} : pc'[e] = pc[e]
    BY <1>1, <1>3 DEF Shape
  <1>8. ASSUME NEW p \in Live(peers'), Sole(p)'
        PROVE  Holds(peers[p].ws.conn, p)'
    <2>1. p \in Live(peers) /\ p \in DOMAIN peers /\ peers'[p] = peers[p]
      BY <1>5 DEF Live
    <2>2. Sole(p)
      BY <1>5, <1>8, <2>1, SoleBefore
    <2>3. Holds(peers[p].ws.conn, p)
      BY <2>1, <2>2 DEF SessionInv, SocketInUse
    <2> QED
      BY <1>1, <1>2, <1>7, <2>1, <2>3 DEF Holds, Ws
  <1>9. SocketInUse'
    BY <1>8 DEF SocketInUse, Live
  <1> QED
    BY <1>6, <1>9 DEF SessionInv

(* A dial that connects: its socket goes into the entry p, an old one       *)
(* without a connection or a new one.                                       *)
LEMMA ConnectedStep ==
  ASSUME SessionInv, NEW d \in Dials, Connected(d)
  PROVE  SessionInv'
  <1> DEFINE n == IF sock[d] = "none" THEN opened + 1 ELSE no[d]
             ws == [conn |-> d, no |-> n]
             free == With(target[d]) \ Live(peers)
  <1>1. d \in Conns /\ d \notin Guests /\ Shape /\ "card" \in Places
    BY SessionAssumption DEF Conns, SessionInv, Places
  <1>2. /\ pc[d] = "dial" /\ pc' = [pc EXCEPT ![d] = "card"] /\ UNCHANGED <<own, target>>
        /\ IF sock[d] = "none" THEN Open(d) ELSE UNCHANGED <<sock, no, opened>>
    BY DEF Connected, Goto
  <1>3. target[d] \in Links
    BY <1>1, <1>2 DEF Shape
  <1>4. /\ sock' \in [Conns -> {"none", "open", "broken"}] /\ no' \in [Conns -> 0 .. MaxSockets]
        /\ opened' \in 0 .. MaxSockets
        /\ \A e \in Conns : sock'[e] # "none" => no'[e] \in 1 .. MaxSockets
        /\ sock'[d] # "none" /\ no'[d] = n
        /\ \A e \in Conns \ {d} : sock'[e] = sock[e] /\ no'[e] = no[e]
    BY <1>1, <1>2, OpenTypes DEF Shape
  <1>5. ws \in Socket /\ ws # NoWs
    BY <1>1, <1>4, SocketTypes DEF Socket
  <1>6. peers \in Seq(Peer) /\ \A q \in DOMAIN peers : peers[q] \in Peer
    BY <1>1 DEF Shape
  <1>7. PICK p \in Nat : /\ peers' \in Seq(Peer) /\ DOMAIN peers' = DOMAIN peers \cup {p}
                         /\ peers'[p].of = target[d] /\ peers'[p].ws = ws
                         /\ \A q \in DOMAIN peers : peers'[q].of = peers[q].of
                         /\ \A q \in DOMAIN peers \ {p} : peers'[q] = peers[q]
    <2>1. CASE free = {}
      <3> DEFINE x == [of |-> target[d], ws |-> ws]
      <3>1. x \in Peer /\ x.of = target[d] /\ x.ws = ws
        BY <1>3, <1>5 DEF Peer
      <3>2. peers' = Append(peers, x)
        BY <2>1 DEF Connected, SetPeers
      <3> HIDE DEF x, ws
      <3>3. /\ peers' \in Seq(Peer) /\ DOMAIN peers' = DOMAIN peers \cup {Len(peers) + 1}
            /\ Len(peers) + 1 \notin DOMAIN peers /\ Len(peers) + 1 \in Nat
            /\ peers'[Len(peers) + 1] = x /\ \A q \in DOMAIN peers : peers'[q] = peers[q]
        BY <1>6, <3>1, <3>2, AppendPeer
      <3> QED
        BY <3>1, <3>3
    <2>2. CASE free # {}
      <3>1. PICK p \in free : First(free) = p
        <4>1. free \subseteq Nat
          BY <1>6 DEF With
        <4>2. \E p \in free : \A q \in free : p <= q
          BY <2>2, <4>1, Least
        <4> QED
          BY <4>2 DEF First
      <3>2. p \in DOMAIN peers /\ p \in Nat /\ peers[p].of = target[d]
        BY <1>6 DEF With
      <3>3. peers' = [peers EXCEPT ![p] = [peers[p] EXCEPT !.ws = ws]]
        BY <2>2, <3>1 DEF Connected, SetPeers
      <3> HIDE DEF free, ws
      <3>4. /\ [peers[p] EXCEPT !.ws = ws] \in Peer
            /\ [peers[p] EXCEPT !.ws = ws].of = peers[p].of /\ [peers[p] EXCEPT !.ws = ws].ws = ws
        BY <1>5, <1>6, <3>2 DEF Peer
      <3>5. /\ peers' \in Seq(Peer) /\ DOMAIN peers' = DOMAIN peers
            /\ \A q \in DOMAIN peers \ {p} : peers'[q] = peers[q]
            /\ peers'[p] = [peers[p] EXCEPT !.ws = ws]
        BY <1>6, <3>2, <3>3, <3>4
      <3> QED
        BY <3>2, <3>4, <3>5
    <2> QED
      BY <2>1, <2>2
  <1> HIDE DEF ws, n
  <1>8. pc'[d] = "card" /\ \A e \in Conns \ {d} : pc'[e] = pc[e]
    BY <1>1, <1>2 DEF Shape
  <1>9. Shape'
    BY <1>1, <1>2, <1>3, <1>4, <1>7, ShapeMoves DEF Shape
  <1>10. ws = Ws(d)'
    BY <1>4 DEF ws, Ws
  <1>11. ASSUME NEW q \in Live(peers'), Sole(q)'
         PROVE  Holds(peers[q].ws.conn, q)'
    <2>1. CASE q = p
      <3>1. peers'[q].ws.conn = d
        BY <1>7, <2>1 DEF ws
      <3> QED
        BY <1>1, <1>2, <1>7, <1>8, <1>10, <2>1, <3>1 DEF Holds
    <2>2. CASE q # p
      <3>1. q \in Live(peers) /\ q \in DOMAIN peers /\ peers'[q] = peers[q]
        BY <1>7, <2>2 DEF Live
      <3>2. Sole(q)
        BY <1>7, <1>11, <3>1, SoleBefore
      <3>3. Holds(peers[q].ws.conn, q)
        BY <3>1, <3>2 DEF SessionInv, SocketInUse
      <3>4. peers[q].ws.conn # d
        BY <1>1, <1>2, <3>3 DEF Holds
      <3> QED
        BY <1>2, <1>4, <1>8, <3>1, <3>3, <3>4 DEF Holds, Ws
    <2> QED
      BY <2>1, <2>2
  <1>12. SocketInUse'
    BY <1>11 DEF SocketInUse, Live
  <1> QED
    BY <1>9, <1>12 DEF SessionInv

-----------------------------------------------------------------------------
(* No ghosts.                                                               *)

LEMMA SessionInit == Init => SessionInv
  <1>1. ASSUME Init PROVE peers = <<>>
    BY <1>1 DEF Init
  <1> QED
    BY <1>1, ShapeInit DEF SessionInv, SocketInUse, Live

LEMMA SessionStep ==
  ASSUME SessionInv, [Next]_vars
  PROVE  SessionInv'
  <1>1. ASSUME NEW g \in Guests, Guest(g) PROVE SessionInv'
    BY <1>1, AcceptGuestStep, RegisterGuestStep, CardFailsStep, GuestLeavesStep DEF Guest
  <1>2. ASSUME NEW d \in Dials, Dial(d) PROVE SessionInv'
    BY <1>2, RegisterLinkStep, Level1Step, QuietDialStep, ConnectedStep, DialEndsStep DEF Dial
  <1>3. ASSUME NEW d \in Dials, NEW l \in Links, AskLink(d, l) PROVE SessionInv'
    BY <1>3, AskedStep DEF AskLink, Goto, registry
  <1>4. ASSUME NEW d \in Dials, NEW l \in Links, AskFederation(d, l) PROVE SessionInv'
    BY <1>4, AskedStep DEF AskFederation, Goto, registry
  <1>5. ASSUME NEW c \in Conns, Break(c) PROVE SessionInv'
    BY <1>5, BreakStep
  <1>6. ASSUME NEW p \in DOMAIN peers, UnregisterOnly(p) PROVE SessionInv'
    BY <1>6, UnregisterDeadStep DEF UnregisterOnly
  <1>7. ASSUME NEW p \in DOMAIN peers, NEW t \in Threads, UnregisterDead(t, p) PROVE SessionInv'
    BY <1>7, UnregisterDeadStep DEF UnregisterDead
  <1>8. ASSUME NEW t \in Threads, CountPeers(t) \/ StoreCount(t) PROVE SessionInv'
    BY <1>8, StillStep DEF CountPeers, StoreCount, registry
  <1>9. CASE UNCHANGED vars
    BY <1>9, StillStep DEF vars, registry
  <1> QED
    BY <1>1, <1>2, <1>3, <1>4, <1>5, <1>6, <1>7, <1>8, <1>9 DEF Next

LEMMA SessionAlways == Spec => []SessionInv
  <1>1. Init => SessionInv
    BY SessionInit
  <1>2. SessionInv /\ [Next]_vars => SessionInv'
    BY SessionStep
  <1> QED
    BY <1>1, <1>2, PTL DEF Spec

(* A peer that counts as connected, if it is a guest or the only peer of    *)
(* its link, has the socket of a coroutine that is using it, and that       *)
(* unregisters the peer when the socket breaks (on_guest's and guest_mode's *)
(* finally clauses, BUG-012); however many threads connect or --join dials. *)
THEOREM NoGhosts == Spec => []NoGhostPeer
  <1>1. SessionInv => NoGhostPeer
    BY DEF SessionInv, SocketInUse, Sole, Holds, NoGhostPeer, Conns
  <1> QED
    BY <1>1, SessionAlways, PTL

-----------------------------------------------------------------------------
(* Links.                                                                   *)

(* What is said of links stays while the peers are of the same agents and   *)
(* nobody asks or registers.                                                *)
LEMMA LinksStay ==
  ASSUME Links1, DOMAIN peers' = DOMAIN peers,
         \A p \in DOMAIN peers : peers'[p].of = peers[p].of,
         target' = target, doubled' = doubled,
         \A d \in Dials : /\ pc'[d] = "off" <=> pc[d] = "off"
                          /\ pc'[d] = "asked" <=> pc[d] = "asked"
                          /\ pc'[d] = "federate" <=> pc[d] = "federate"
                          /\ pc'[d] = "enter" => pc[d] = "enter"
  PROVE  Links1'
  <1>1. Unique' /\ DialHasPeer' /\ OneDialPerLink'
    BY DEF Links1, Unique, DialHasPeer, OneDialPerLink
  <1>2. AskedIsNew'
    BY DEF Links1, AskedIsNew, Asking
  <1> QED
    BY <1>1, <1>2 DEF Links1

(* A dial's own steps after it registered keep its place among them.        *)
LEMMA LinksMove ==
  ASSUME Shape, Links1, DOMAIN peers' = DOMAIN peers,
         \A p \in DOMAIN peers : peers'[p].of = peers[p].of,
         target' = target, doubled' = doubled,
         NEW c \in Conns, NEW x, pc' = [pc EXCEPT ![c] = x],
         c \in Dials => /\ pc[c] \notin {"off", "asked", "federate"}
                        /\ x \notin {"off", "asked", "federate", "enter"}
  PROVE  Links1'
  <1>1. pc'[c] = x /\ \A e \in Conns \ {c} : pc'[e] = pc[e]
    BY DEF Shape
  <1>2. \A d \in Dials : /\ pc'[d] = "off" <=> pc[d] = "off"
                         /\ pc'[d] = "asked" <=> pc[d] = "asked"
                         /\ pc'[d] = "federate" <=> pc[d] = "federate"
                         /\ pc'[d] = "enter" => pc[d] = "enter"
    BY <1>1 DEF Conns
  <1> QED
    BY <1>2, LinksStay

LEMMA GuestLinks ==
  ASSUME SessionInv, Links1, NEW g \in Guests, Guest(g)
  PROVE  Links1'
  <1>1. g \in Conns /\ g \notin Dials /\ g \notin Links /\ Shape
    BY SessionAssumption DEF Conns, SessionInv
  <1>2. CASE AcceptGuest(g)
    <2>1. peers' = peers /\ target' = target /\ doubled' = doubled /\ pc' = [pc EXCEPT ![g] = "card"]
      BY <1>2 DEF AcceptGuest, http, Goto
    <2> QED
      BY <1>1, <2>1, LinksMove
  <1>3. CASE CardFails(g)
    <2>1. peers' = peers /\ target' = target /\ doubled' = doubled /\ pc' = [pc EXCEPT ![g] = "off"]
      BY <1>3 DEF CardFails, registry, http, Goto
    <2> QED
      BY <1>1, <2>1, LinksMove
  <1>4. CASE GuestLeaves(g)
    <2>1. peers' = Unregister(peers, {own[g]}) /\ target' = target /\ doubled' = doubled
      BY <1>4 DEF GuestLeaves, SetPeers, http
    <2>2. pc' = [pc EXCEPT ![g] = "off"]
      BY <1>4 DEF GuestLeaves, Goto
    <2>3. DOMAIN peers' = DOMAIN peers /\ \A p \in DOMAIN peers : peers'[p].of = peers[p].of
      BY <1>1, <2>1, UnregisterLive
    <2> QED
      BY <1>1, <2>1, <2>2, <2>3, LinksMove
  <1>5. CASE RegisterGuest(g)
    <2> DEFINE n == Len(peers) + 1
               x == [of |-> g, ws |-> Ws(g)]
    <2>1. /\ peers' = Append(peers, x) /\ pc' = [pc EXCEPT ![g] = "reading"] /\ pc[g] = "card"
          /\ target' = target /\ doubled' = doubled
      BY <1>5 DEF RegisterGuest, SetPeers, Goto, http
    <2>2. x \in Peer /\ peers \in Seq(Peer)
      BY <1>1, <2>1, SocketTypes DEF Shape, Peer
    <2>3. /\ DOMAIN peers' = DOMAIN peers \cup {n} /\ n \notin DOMAIN peers /\ peers'[n].of = g
          /\ \A p \in DOMAIN peers : peers'[p] = peers[p]
      BY <2>1, <2>2, AppendPeer
    <2>4. \A d \in Dials : pc'[d] = pc[d]
      BY <1>1, <2>1 DEF Shape, Conns
    <2>5. \A d \in Dials : pc[d] # "off" => target[d] # g
      BY <1>1 DEF Shape
    <2> HIDE DEF n, x
    <2>6. Unique'
      BY <1>1, <2>1, <2>3 DEF Links1, Unique
    <2>7. AskedIsNew'
      BY <2>1, <2>3, <2>4, <2>5 DEF Links1, AskedIsNew, Asking
    <2>8. DialHasPeer' /\ OneDialPerLink'
      BY <2>1, <2>3, <2>4 DEF Links1, DialHasPeer, OneDialPerLink
    <2> QED
      BY <2>6, <2>7, <2>8 DEF Links1
  <1> QED
    BY <1>2, <1>3, <1>4, <1>5 DEF Guest

(* A thread asks: for a link that has no peer and no dial, or one that      *)
(* /federation doubles.                                                     *)
LEMMA AskLinks ==
  ASSUME SessionInv, Links1, NEW d \in Dials, NEW l \in Links, NEW x \in {"asked", "federate"},
         pc[d] = "off", pc' = [pc EXCEPT ![d] = x], target' = [target EXCEPT ![d] = l],
         \A e \in Dials : pc[e] \notin Asking, peers' = peers,
         doubled \subseteq doubled', With(l) = {} \/ l \in doubled'
  PROVE  Links1'
  <1>1. /\ target'[d] = l /\ \A e \in Dials \ {d} : target'[e] = target[e]
        /\ pc'[d] = x /\ \A e \in Dials \ {d} : pc'[e] = pc[e]
    BY DEF SessionInv, Shape, Conns
  <1>2. Unique'
    BY DEF Links1, Unique
  <1>3. AskedIsNew'
    BY <1>1 DEF AskedIsNew, Asking, With
  <1>4. DialHasPeer'
    BY <1>1 DEF Links1, DialHasPeer
  <1>5. \A e \in Dials \ {d} : pc[e] # "off" /\ l \notin doubled' => target[e] # l
    <2>1. ASSUME NEW e \in Dials \ {d}, pc[e] # "off", target[e] = l, l \notin doubled' PROVE FALSE
      <3>1. pc[e] \notin {"off", "asked", "federate"}
        BY <2>1 DEF Asking
      <3>2. \E p \in DOMAIN peers : peers[p].of = l
        BY <2>1, <3>1 DEF Links1, DialHasPeer
      <3> QED
        BY <2>1, <3>2 DEF With
    <2> QED
      BY <2>1
  <1>6. OneDialPerLink'
    BY <1>1, <1>5 DEF Links1, OneDialPerLink
  <1> QED
    BY <1>2, <1>3, <1>4, <1>6 DEF Links1

LEMMA RegisterLinkLinks ==
  ASSUME SessionInv, Links1, NEW d \in Dials, RegisterLink(d)
  PROVE  Links1'
  <1> DEFINE n == Len(peers) + 1
             x == [of |-> target[d], ws |-> NoWs]
  <1>1. /\ peers' = Append(peers, x) /\ pc[d] \in {"asked", "federate"}
        /\ target' = target /\ doubled' = doubled
    BY DEF RegisterLink, http
  <1>2. PICK y \in {"nat", "enter"} : pc' = [pc EXCEPT ![d] = y]
    BY DEF RegisterLink, Goto
  <1>3. x \in Peer /\ peers \in Seq(Peer) /\ d \in Conns
    BY <1>1 DEF SessionInv, Shape, Peer, Conns
  <1>4. /\ DOMAIN peers' = DOMAIN peers \cup {n} /\ n \notin DOMAIN peers /\ peers'[n].of = target[d]
        /\ \A p \in DOMAIN peers : peers'[p] = peers[p]
    BY <1>1, <1>3, AppendPeer
  <1> HIDE DEF n, x
  <1>5. pc'[d] = y /\ \A e \in Dials \ {d} : pc'[e] = pc[e] /\ pc[e] \notin Asking
    BY <1>1, <1>2, <1>3 DEF SessionInv, Shape, Conns, Links1, AskedIsNew, Asking
  <1>6. target[d] \notin doubled => \A p \in DOMAIN peers : peers[p].of # target[d]
    BY <1>1 DEF Links1, AskedIsNew
  <1>7. Unique'
    BY <1>1, <1>4, <1>6 DEF Links1, Unique
  <1>8. AskedIsNew'
    BY <1>5 DEF AskedIsNew, Asking
  <1>9. DialHasPeer'
    BY <1>1, <1>4, <1>5 DEF Links1, DialHasPeer
  <1>10. OneDialPerLink'
    BY <1>1, <1>5 DEF Links1, OneDialPerLink
  <1> QED
    BY <1>7, <1>8, <1>9, <1>10 DEF Links1

(* A dial that connects finds its link's peer without a connection, unless  *)
(* the link is doubled.                                                     *)
LEMMA FreePeer ==
  ASSUME SessionInv, Links1, NEW d \in Dials, pc[d] = "dial", target[d] \notin doubled
  PROVE  With(target[d]) \ Live(peers) # {}
  <1>1. target[d] \in Links /\ target[d] \notin Guests
    BY SessionAssumption DEF SessionInv, Shape
  <1>2. PICK p \in DOMAIN peers : peers[p].of = target[d]
    BY DEF Links1, DialHasPeer
  <1>3. With(target[d]) = {p}
    BY <1>1, <1>2 DEF Links1, Unique, With
  <1>4. ASSUME p \in Live(peers) PROVE FALSE
    <2>1. Holds(peers[p].ws.conn, p)
      BY <1>2, <1>3, <1>4 DEF SessionInv, SocketInUse, Sole
    <2>2. CASE peers[p].ws.conn \in Guests
      BY <1>1, <1>2, <2>1, <2>2 DEF Holds
    <2>3. CASE peers[p].ws.conn \in Dials
      <3>1. peers[p].ws.conn = d
        BY <1>2, <2>1, <2>3 DEF Holds, Links1, OneDialPerLink
      <3> QED
        BY <2>1, <3>1 DEF Holds
    <2> QED
      BY <2>1, <2>2, <2>3 DEF Holds, Conns
  <1> QED
    BY <1>3, <1>4

LEMMA ConnectedLinks ==
  ASSUME SessionInv, Links1, NEW d \in Dials, Connected(d)
  PROVE  Links1'
  <1> DEFINE ws == [conn |-> d, no |-> IF sock[d] = "none" THEN opened + 1 ELSE no[d]]
             free == With(target[d]) \ Live(peers)
             x == [of |-> target[d], ws |-> ws]
  <1>1. /\ pc[d] = "dial" /\ pc' = [pc EXCEPT ![d] = "card"] /\ target' = target /\ doubled' = doubled
        /\ d \in Conns /\ Shape /\ peers \in Seq(Peer)
    BY DEF Connected, Goto, http, Conns, SessionInv, Shape
  <1>2. CASE free # {}
    <2>1. peers' = [peers EXCEPT ![First(free)].ws = ws]
      BY <1>2 DEF Connected, SetPeers
    <2> HIDE DEF free, ws
    <2>2. DOMAIN peers' = DOMAIN peers /\ \A p \in DOMAIN peers : peers'[p].of = peers[p].of
      <3>1. \A p \in DOMAIN peers : peers[p] \in Peer
        BY <1>1
      <3> QED
        BY <2>1, <3>1 DEF Peer
    <2> QED
      BY <1>1, <2>2, LinksMove
  <1>3. CASE free = {}
    <2>1. target[d] \in doubled
      BY <1>1, <1>3, FreePeer
    <2>2. peers' = Append(peers, x)
      BY <1>3 DEF Connected, SetPeers
    <2>3. /\ DOMAIN peers' = DOMAIN peers \cup {Len(peers) + 1} /\ peers'[Len(peers) + 1] = x
          /\ \A p \in DOMAIN peers : peers'[p] = peers[p]
      BY <1>1, <2>2
    <2>4. x.of = target[d]
      OBVIOUS
    <2> HIDE DEF x
    <2>5. \A e \in Dials : /\ pc'[e] = "off" <=> pc[e] = "off"
                           /\ pc'[e] = "asked" <=> pc[e] = "asked"
                           /\ pc'[e] = "federate" <=> pc[e] = "federate"
                           /\ pc'[e] = "enter" => pc[e] = "enter"
      BY <1>1 DEF Shape, Conns
    <2>6. Unique'
      BY <1>1, <2>1, <2>3, <2>4 DEF Links1, Unique
    <2>7. AskedIsNew'
      BY <1>1, <2>1, <2>3, <2>4, <2>5 DEF Links1, AskedIsNew, Asking
    <2>8. DialHasPeer' /\ OneDialPerLink'
      BY <1>1, <2>3, <2>5 DEF Links1, DialHasPeer, OneDialPerLink
    <2> QED
      BY <2>6, <2>7, <2>8 DEF Links1
  <1> QED
    BY <1>2, <1>3

LEMMA DialLinks ==
  ASSUME SessionInv, Links1, NEW d \in Dials, Dial(d)
  PROVE  Links1'
  <1>1. d \in Conns /\ Shape /\ peers \in Seq(Peer)
    BY DEF Conns, SessionInv, Shape
  <1>2. CASE Retry(d) \/ GiveUp(d)
    <2>1. PICK ids : peers' = Unregister(peers, ids)
      BY <1>2 DEF Retry, GiveUp, SetPeers
    <2>2. DOMAIN peers' = DOMAIN peers /\ \A p \in DOMAIN peers : peers'[p].of = peers[p].of
      BY <1>1, <2>1, UnregisterLive
    <2>3. target' = target /\ doubled' = doubled /\ pc[d] \in {"dial", "card", "reading"}
      BY <1>2 DEF Retry, GiveUp, Over, http
    <2>4. PICK y \in {"sleep", "punch"} : pc' = [pc EXCEPT ![d] = y]
      BY <1>2 DEF Retry, GiveUp, Goto
    <2> QED
      BY <1>1, <2>2, <2>3, <2>4, LinksMove
  <1>3. CASE \/ EnterFederation(d) \/ Level1(d) \/ Level1Fails(d) \/ CardSent(d) \/ Awake(d)
             \/ JoinRelay(d) \/ JoinFails(d)
    <2>1. peers' = peers /\ target' = target /\ doubled' = doubled
      BY <1>3 DEF EnterFederation, Level1, Level1Fails, CardSent, Awake, JoinRelay, JoinFails, registry, http
    <2>2. pc[d] \in {"enter", "nat", "card", "sleep", "punch"}
      BY <1>3 DEF EnterFederation, Level1, Level1Fails, CardSent, Awake, JoinRelay, JoinFails
    <2>3. PICK y \in {"nat", "dial", "punch", "reading", "relay", "gone"} : pc' = [pc EXCEPT ![d] = y]
      BY <1>3 DEF EnterFederation, Level1, Level1Fails, CardSent, Awake, JoinRelay, JoinFails, Goto
    <2> QED
      BY <1>1, <2>1, <2>2, <2>3, LinksMove
  <1> QED
    BY <1>2, <1>3, RegisterLinkLinks, ConnectedLinks DEF Dial

LEMMA LinksStep ==
  ASSUME OneThread, SessionInv, Links1, [Next]_vars
  PROVE  Links1'
  <1>1. ASSUME NEW g \in Guests, Guest(g) PROVE Links1'
    BY <1>1, GuestLinks
  <1>2. ASSUME NEW d \in Dials, Dial(d) PROVE Links1'
    BY <1>2, DialLinks
  <1>3. ASSUME NEW d \in Dials, NEW l \in Links, AskLink(d, l) PROVE Links1'
    <2>1. /\ pc[d] = "off" /\ pc' = [pc EXCEPT ![d] = "asked"] /\ target' = [target EXCEPT ![d] = l]
          /\ \A e \in Dials : pc[e] \notin Asking
          /\ peers' = peers /\ doubled' = doubled /\ With(l) = {}
      BY <1>3 DEF AskLink, Goto, registry, http
    <2> QED
      BY <2>1, AskLinks
  <1>4. ASSUME NEW d \in Dials, NEW l \in Links, AskFederation(d, l) PROVE Links1'
    <2>1. /\ pc[d] = "off" /\ pc' = [pc EXCEPT ![d] = "federate"] /\ target' = [target EXCEPT ![d] = l]
          /\ \A e \in Dials : pc[e] \notin Asking
          /\ peers' = peers /\ doubled \subseteq doubled' /\ (With(l) = {} \/ l \in doubled')
      BY <1>4 DEF AskFederation, Goto, registry
    <2> QED
      BY <2>1, AskLinks
  <1>5. ASSUME NEW ids, peers' = Unregister(peers, ids), UNCHANGED <<pc, target, doubled>>
        PROVE  Links1'
    <2>1. DOMAIN peers' = DOMAIN peers /\ \A p \in DOMAIN peers : peers'[p].of = peers[p].of
      BY <1>5, UnregisterLive DEF SessionInv
    <2> QED
      BY <1>5, <2>1, LinksStay
  <1>6. CASE UNCHANGED <<peers, pc, target, doubled>>
    BY <1>6, LinksStay
  <1>7. ASSUME NEW c \in Conns, Break(c) PROVE Links1'
    BY <1>6, <1>7 DEF Break, registry, http
  <1>8. ASSUME NEW p \in DOMAIN peers, UnregisterOnly(p) PROVE Links1'
    BY <1>5, <1>8 DEF UnregisterOnly
  <1>9. ASSUME NEW p \in DOMAIN peers, NEW t \in Threads, UnregisterDead(t, p) PROVE Links1'
    BY <1>5, <1>9 DEF UnregisterDead
  <1>10. ASSUME NEW t \in Threads, CountPeers(t) \/ StoreCount(t) PROVE Links1'
    BY <1>6, <1>10 DEF CountPeers, StoreCount, registry
  <1>11. CASE UNCHANGED vars
    BY <1>6, <1>11 DEF vars, registry, http
  <1> QED
    BY <1>1, <1>2, <1>3, <1>4, <1>7, <1>8, <1>9, <1>10, <1>11 DEF Next

(* With one HTTP thread in POST /peers/connect or /federation, and no link  *)
(* dialled by --join, a link that /federation did not take over from        *)
(* another registrar is one peer for the life of the process, so a          *)
(* reconnect finds the id and the messages queued for it (guest_mode,       *)
(* BUG-059).                                                                *)
THEOREM LinkIsOnePeer == ASSUME OneThread, Joined = {} PROVE Spec => []OnePeerPerLink
  <1>1. Init => Links1
    <2>1. ASSUME Init PROVE peers = <<>> /\ \A c \in Conns : pc[c] = "off"
      BY <2>1 DEF Init
    <2> QED
      BY <2>1 DEF Links1, Unique, AskedIsNew, DialHasPeer, OneDialPerLink, Asking, Conns
  <1>2. SessionInv /\ Links1 /\ [Next]_vars => Links1'
    BY LinksStep
  <1>3. SessionInv /\ Links1 => OnePeerPerLink
    <2>1. ASSUME Links1, NEW l \in Links \ doubled PROVE Cardinality(With(l)) <= 1
      <3>1. CASE With(l) = {}
        BY <3>1, FS_EmptySet
      <3>2. ASSUME NEW p \in With(l) PROVE Cardinality(With(l)) = 1
        <4>1. With(l) = {p}
          BY <2>1 DEF Links1, Unique, With
        <4> QED
          BY <4>1, FS_Singleton
      <3> QED
        BY <3>1, <3>2
    <2> QED
      BY <2>1 DEF OnePeerPerLink
  <1> QED
    BY <1>1, <1>2, <1>3, SessionAlways, PTL DEF Spec

-----------------------------------------------------------------------------
(* The count of connected peers; this needs no assumption on threads.       *)

Entry == [of : Guests \cup Links \cup {Nobody}, ws : [conn : Conns \cup {Nobody}, no : Nat]]
Entries ==
  /\ peers \in Seq(Entry) /\ target \in [Dials -> Links \cup {Nobody}]
  /\ no \in [Conns -> Nat] /\ opened \in Nat

(* A thread that is not late stores what is right, and the count is wrong   *)
(* only while a thread is still to count or to store such a number, or      *)
(* after one that was late or did not count.                                *)
Counters == DOMAIN storing = Threads /\ late \subseteq Storing
Tally ==
  /\ \A t \in Storing \ late : storing[t].n = Cardinality(Live(peers))
  /\ \/ stale \/ count = Cardinality(Live(peers))
     \/ Storing \ late # {} \/ \E t \in Threads : storing[t].at = "count"
CountInv == Entries /\ Counters /\ Tally

LEMMA SetPeersCounts ==
  ASSUME NEW ps, SetPeers(ps), DOMAIN storing = Threads, storing' = storing
  PROVE  Counters' /\ Tally'
  BY DEF SetPeers, Counters, Tally, Live, Storing

LEMMA StillCounts ==
  ASSUME Counters, Tally, Live(peers') = Live(peers), UNCHANGED <<count, storing, late, stale>>
  PROVE  Counters' /\ Tally'
  BY DEF Counters, Tally, Live, Storing

LEMMA UnregisterEntries ==
  ASSUME NEW ps \in Seq(Entry), NEW ids
  PROVE  Unregister(ps, ids) \in Seq(Entry)
  <1>1. \A p \in DOMAIN ps : ps[p] \in Entry
    OBVIOUS
  <1>2. \A p \in DOMAIN ps : [ps[p] EXCEPT !.ws = NoWs] \in Entry
    BY <1>1 DEF Entry, NoWs
  <1>3. Unregister(ps, ids) \in [1 .. Len(ps) -> Entry]
    BY <1>1, <1>2 DEF Unregister
  <1> QED
    BY <1>3

LEMMA SocketEntries ==
  ASSUME Entries, NEW c \in Conns, Open(c) \/ Drop(c) \/ UNCHANGED <<sock, no, opened>>
  PROVE  no' \in [Conns -> Nat] /\ opened' \in Nat
  BY DEF Entries, Open, Drop

LEMMA GuestCounts ==
  ASSUME CountInv, NEW g \in Guests, Guest(g)
  PROVE  CountInv'
  <1>1. g \in Conns /\ Entries /\ Counters /\ Tally /\ DOMAIN storing = Threads
    BY DEF Conns, CountInv, Counters
  <1>2. CASE AcceptGuest(g)
    <2>1. Entries' /\ UNCHANGED <<peers, count, storing, late, stale>>
      BY <1>1, <1>2, SocketEntries DEF AcceptGuest, Entries, http, race
    <2> QED
      BY <1>1, <2>1, StillCounts DEF CountInv
  <1>3. CASE RegisterGuest(g)
    <2>1. [of |-> g, ws |-> Ws(g)] \in Entry
      BY <1>1 DEF Entry, Ws, Entries
    <2>2. Entries'
      BY <1>1, <1>3, <2>1 DEF RegisterGuest, SetPeers, Entries
    <2>3. Counters' /\ Tally'
      BY <1>1, <1>3, SetPeersCounts DEF RegisterGuest, http
    <2> QED
      BY <2>2, <2>3 DEF CountInv
  <1>4. CASE CardFails(g)
    <2>1. Entries' /\ UNCHANGED <<peers, count, storing, late, stale>>
      BY <1>1, <1>4, SocketEntries DEF CardFails, Entries, http, race, registry
    <2> QED
      BY <1>1, <2>1, StillCounts DEF CountInv
  <1>5. CASE GuestLeaves(g)
    <2>1. Entries'
      BY <1>1, <1>5, SocketEntries, UnregisterEntries DEF GuestLeaves, SetPeers, Entries
    <2>2. Counters' /\ Tally'
      BY <1>1, <1>5, SetPeersCounts DEF GuestLeaves, http
    <2> QED
      BY <2>1, <2>2 DEF CountInv
  <1> QED
    BY <1>2, <1>3, <1>4, <1>5 DEF Guest, CountInv

LEMMA DialCounts ==
  ASSUME CountInv, NEW d \in Dials, Dial(d)
  PROVE  CountInv'
  <1>1. d \in Conns /\ Entries /\ Counters /\ Tally /\ DOMAIN storing = Threads
    BY DEF Conns, CountInv, Counters
  <1>2. CASE RegisterLink(d)
    <2> DEFINE x == [of |-> target[d], ws |-> NoWs]
    <2>1. x \in Entry /\ x.ws = NoWs
      BY <1>1 DEF Entry, NoWs, Entries
    <2>2. peers' = Append(peers, x) /\ UNCHANGED <<target, no, opened, count, storing, late, stale>>
      BY <1>2 DEF RegisterLink, http, race
    <2> HIDE DEF x
    <2>3. peers' \in Seq(Entry) /\ Len(peers') = Len(peers) + 1
      BY <1>1, <2>1, <2>2 DEF Entries
    <2>4. /\ DOMAIN peers' = DOMAIN peers \cup {Len(peers) + 1}
          /\ peers'[Len(peers) + 1] = x /\ \A p \in DOMAIN peers : peers'[p] = peers[p]
      BY <1>1, <2>1, <2>2, <2>3 DEF Entries
    <2>5. Live(peers') = Live(peers)
      BY <1>1, <2>1, <2>4 DEF Live, Entries
    <2> QED
      BY <1>1, <2>2, <2>3, <2>5, StillCounts DEF CountInv, Entries
  <1>3. CASE Connected(d)
    <2>1. PICK i, ws : /\ ws \in [conn : Conns \cup {Nobody}, no : Nat]
                       /\ \/ peers' = Append(peers, [of |-> target[d], ws |-> ws])
                          \/ peers' = [peers EXCEPT ![i].ws = ws]
      <3> DEFINE n == IF sock[d] = "none" THEN opened + 1 ELSE no[d]
                 ws == [conn |-> d, no |-> n]
                 free == With(target[d]) \ Live(peers)
      <3>1. ws \in [conn : Conns \cup {Nobody}, no : Nat]
        BY <1>1 DEF Entries
      <3>2. \/ peers' = Append(peers, [of |-> target[d], ws |-> ws])
            \/ peers' = [peers EXCEPT ![First(free)].ws = ws]
        BY <1>3 DEF Connected, SetPeers
      <3> QED
        BY <3>1, <3>2
    <2>2. peers' \in Seq(Entry)
      <3>1. CASE peers' = Append(peers, [of |-> target[d], ws |-> ws])
        BY <1>1, <2>1, <3>1 DEF Entries, Entry
      <3>2. CASE peers' = [peers EXCEPT ![i].ws = ws]
        <4>1. \A p \in DOMAIN peers : peers[p] \in Entry
          BY <1>1 DEF Entries
        <4>2. \A p \in DOMAIN peers : [peers[p] EXCEPT !.ws = ws] \in Entry
          BY <2>1, <4>1 DEF Entry
        <4>3. peers' = [peers EXCEPT ![i] = [peers[i] EXCEPT !.ws = ws]]
          BY <3>2
        <4>4. DOMAIN peers = 1 .. Len(peers) /\ Len(peers) \in Nat
          BY <1>1 DEF Entries
        <4>5. peers' = [p \in 1 .. Len(peers) |->
                          IF p = i THEN [peers[p] EXCEPT !.ws = ws] ELSE peers[p]]
          BY <4>3, <4>4
        <4>6. peers' \in [1 .. Len(peers) -> Entry]
          BY <4>1, <4>2, <4>4, <4>5
        <4> QED
          BY <4>4, <4>6
      <3> QED
        BY <2>1, <3>1, <3>2
    <2>3. Entries'
      BY <1>1, <1>3, <2>2, SocketEntries DEF Connected, Entries
    <2>4. Counters' /\ Tally'
      BY <1>1, <1>3, SetPeersCounts DEF Connected, http
    <2> QED
      BY <2>3, <2>4 DEF CountInv
  <1>4. CASE Retry(d) \/ GiveUp(d)
    <2>1. Entries'
      BY <1>1, <1>4, SocketEntries, UnregisterEntries DEF Retry, GiveUp, SetPeers, Entries
    <2>2. Counters' /\ Tally'
      BY <1>1, <1>4, SetPeersCounts DEF Retry, GiveUp, http
    <2> QED
      BY <2>1, <2>2 DEF CountInv
  <1>5. CASE Level1(d)
    <2>1. Entries' /\ UNCHANGED <<peers, count, storing, late, stale>>
      BY <1>1, <1>5, SocketEntries DEF Level1, Entries, http, race, registry
    <2> QED
      BY <1>1, <2>1, StillCounts DEF CountInv
  <1>6. CASE \/ EnterFederation(d) \/ Level1Fails(d) \/ CardSent(d) \/ Awake(d)
             \/ JoinRelay(d) \/ JoinFails(d)
    <2>1. UNCHANGED <<peers, target, no, opened, count, storing, late, stale>>
      BY <1>6 DEF EnterFederation, Level1Fails, CardSent, Awake, JoinRelay, JoinFails, http, race, registry
    <2>2. Entries'
      BY <1>1, <2>1 DEF Entries
    <2> QED
      BY <1>1, <2>1, <2>2, StillCounts DEF CountInv
  <1> QED
    BY <1>2, <1>3, <1>4, <1>5, <1>6 DEF Dial

(* The HTTP threads.                                                        *)
LEMMA ThreadCounts ==
  ASSUME CountInv, NEW t \in Threads,
         CountPeers(t) \/ StoreCount(t) \/ \E p \in DOMAIN peers : UnregisterDead(t, p)
  PROVE  CountInv'
  <1>1. /\ DOMAIN storing = Threads /\ late \subseteq Storing /\ Entries
        /\ \A u \in Storing \ late : storing[u].n = Cardinality(Live(peers))
    BY DEF CountInv, Counters, Tally
  <1>2. CASE \E p \in DOMAIN peers : UnregisterDead(t, p)
    <2>1. PICK p \in DOMAIN peers : UnregisterDead(t, p)
      BY <1>2
    <2>2. Entries'
      BY <1>1, <2>1, UnregisterEntries DEF UnregisterDead, Entries
    <2>3. /\ DOMAIN storing' = Threads /\ storing'[t].at = "count" /\ late' = Storing
          /\ Storing' = Storing
      BY <1>1, <2>1 DEF UnregisterDead, Storing
    <2> QED
      BY <2>2, <2>3 DEF CountInv, Counters, Tally
  <1>3. CASE CountPeers(t)
    <2>1. Entries' /\ UNCHANGED <<peers, count, late, stale>>
      BY <1>1, <1>3 DEF CountPeers, registry, race, Entries
    <2>2. /\ DOMAIN storing' = Threads /\ storing'[t].at = "store" /\ t \notin Storing
          /\ storing'[t].n = Cardinality(Live(peers))
          /\ \A u \in Threads \ {t} : storing'[u] = storing[u]
      BY <1>1, <1>3 DEF CountPeers, Storing
    <2>3. Storing' = Storing \cup {t}
      BY <2>2 DEF Storing
    <2>4. Counters' /\ t \in Storing' \ late'
      BY <1>1, <2>1, <2>2, <2>3 DEF Counters
    <2>5. \A u \in Storing' \ late' : storing'[u].n = Cardinality(Live(peers))
      BY <1>1, <2>1, <2>2, <2>3 DEF Storing
    <2>6. Tally'
      BY <2>1, <2>4, <2>5 DEF Tally, Live
    <2> QED
      BY <2>1, <2>4, <2>6 DEF CountInv
  <1>4. CASE StoreCount(t)
    <2>1. Entries' /\ UNCHANGED peers
      BY <1>1, <1>4 DEF StoreCount, Entries
    <2>2. /\ DOMAIN storing' = Threads /\ storing'[t].at = "idle" /\ t \in Storing
          /\ count' = storing[t].n /\ late' = late \ {t} /\ stale' = (t \in late)
          /\ \A u \in Threads \ {t} : storing'[u] = storing[u]
      BY <1>1, <1>4 DEF StoreCount, Storing, Idle
    <2>3. Storing' = Storing \ {t}
      BY <2>2 DEF Storing
    <2>4. Counters'
      BY <1>1, <2>2, <2>3 DEF Counters
    <2>5. \A u \in Storing' \ late' : storing'[u].n = Cardinality(Live(peers))
      BY <1>1, <2>2, <2>3 DEF Storing
    <2>6. stale' \/ count' = Cardinality(Live(peers))
      BY <1>1, <2>2
    <2>7. Tally'
      BY <2>1, <2>5, <2>6 DEF Tally, Live
    <2> QED
      BY <2>1, <2>4, <2>7 DEF CountInv
  <1> QED
    BY <1>2, <1>3, <1>4

(* peer_count is the number of connected peers when no HTTP thread is       *)
(* between a failed send and storing its number, unless the number stored   *)
(* last is from before the registry last changed or a send that counts      *)
(* nothing failed since (_unregister_peer); whatever the threads do.        *)
THEOREM PeerCountIsRight == Spec => []CountIsRight
  <1>1. Init => CountInv
    <2>1. ASSUME Init PROVE Entries
      <3>1. ASSUME NEW d \in Dials, \E l \in Links : <<d, l>> \in Joined
            PROVE  (CHOOSE l \in Links : <<d, l>> \in Joined) \in Links
        BY <3>1
      <3>2. target \in [Dials -> Links \cup {Nobody}]
        BY <2>1, <3>1 DEF Init
      <3>3. peers = <<>> /\ no = [c \in Conns |-> 0] /\ opened = 0
        BY <2>1 DEF Init
      <3> QED
        BY <3>2, <3>3 DEF Entries
    <2>2. ASSUME Init
          PROVE  /\ Live(peers) = {} /\ count = 0 /\ late = {} /\ DOMAIN storing = Threads
                 /\ Storing = {}
      BY <2>2 DEF Init, Live, Storing, Idle
    <2>3. Init => Counters /\ Tally
      BY <2>2, FS_EmptySet DEF Counters, Tally
    <2> QED
      BY <2>1, <2>3 DEF CountInv
  <1>2. CountInv /\ [Next]_vars => CountInv'
    <2> SUFFICES ASSUME CountInv, [Next]_vars PROVE CountInv'
      OBVIOUS
    <2>1. ASSUME NEW g \in Guests, Guest(g) PROVE CountInv'
      BY <2>1, GuestCounts
    <2>2. ASSUME NEW d \in Dials, Dial(d) PROVE CountInv'
      BY <2>2, DialCounts
    <2>3. ASSUME NEW d \in Dials, NEW l \in Links, AskLink(d, l) \/ AskFederation(d, l) PROVE CountInv'
      <3>1. UNCHANGED <<peers, count, storing, late, stale, no, opened>>
        BY <2>3 DEF AskLink, AskFederation, http, race, registry
      <3>2. Entries'
        BY <2>3, <3>1 DEF AskLink, AskFederation, CountInv, Entries
      <3> QED
        BY <3>1, <3>2, StillCounts DEF CountInv
    <2>4. CASE UNCHANGED <<peers, target, no, opened, count, storing, late, stale>>
      <3>1. Entries'
        BY <2>4 DEF CountInv, Entries
      <3> QED
        BY <2>4, <3>1, StillCounts DEF CountInv
    <2>5. ASSUME NEW c \in Conns, Break(c) PROVE CountInv'
      BY <2>4, <2>5 DEF Break, http, race, registry
    <2>6. ASSUME NEW p \in DOMAIN peers, UnregisterOnly(p) PROVE CountInv'
      <3>1. Entries'
        BY <2>6, UnregisterEntries DEF UnregisterOnly, CountInv, Entries
      <3>2. Counters' /\ Tally'
        BY <2>6 DEF UnregisterOnly, CountInv, Counters, Tally, Storing
      <3> QED
        BY <3>1, <3>2 DEF CountInv
    <2>7. ASSUME NEW p \in DOMAIN peers, NEW t \in Threads, UnregisterDead(t, p) PROVE CountInv'
      BY <2>7, ThreadCounts
    <2>8. ASSUME NEW t \in Threads, CountPeers(t) \/ StoreCount(t) PROVE CountInv'
      BY <2>8, ThreadCounts
    <2>9. CASE UNCHANGED vars
      BY <2>4, <2>9 DEF vars, registry, http, race
    <2> QED
      BY <2>1, <2>2, <2>3, <2>5, <2>6, <2>7, <2>8, <2>9 DEF Next
  <1>3. CountInv => CountIsRight
    BY DEF CountInv, Tally, CountIsRight, Storing
  <1> QED
    BY <1>1, <1>2, <1>3, PTL DEF Spec

-----------------------------------------------------------------------------
(* The hole punch.                                                          *)

(* Addresses that lead somewhere else than to the socket that punches.      *)
Dead == {"local", "mapped"}
FarApart == ~net.lan /\ net.stun

Punched == ini.at = "punched" \/ res.at = "punched"

(* Messages that carry addresses; answers name a session.                   *)
Carried == [type : {"connect", "sync", "result", "other"}, session : Nat, addrs : SUBSET Punch!Addresses]
Told == [session : Nat, addrs : SUBSET Punch!Addresses]

PunchTypes ==
  /\ net \in [lan : BOOLEAN, preserving : BOOLEAN, stun : BOOLEAN, http : BOOLEAN]
  /\ ini \in [at : {"idle", "discover", "wait", "bound", "probing", "punched", "failed", "done"},
              session : Nat, addrs : SUBSET Punch!Addresses, peer : Told]
  /\ res \in [at : {"idle", "listen", "reply", "bound", "probing", "punched", "failed"}, peer : Told]
  /\ toIni \in Seq(Carried) /\ toRes \in Seq(Carried)
  /\ udp \subseteq [from : Punch!Sides, addr : Punch!Addresses \cup {"source"}] /\ hole \subseteq Punch!Sides
  /\ relayOpen \in BOOLEAN /\ direct \in BOOLEAN /\ punches \in Nat

(* Where the two hosts are apart and the STUN server answers, nobody tells, *)
(* is told or probes an address that a probe gets through to.               *)
OnlyDead ==
  FarApart =>
    /\ ~Punched /\ ini.peer.addrs \subseteq Dead /\ res.peer.addrs \subseteq Dead
    /\ \A i \in DOMAIN toIni : toIni[i].addrs \subseteq Dead
    /\ \A i \in DOMAIN toRes : toRes[i].addrs \subseteq Dead
    /\ \A p \in udp : p.addr \in Dead

PunchInv == PunchTypes /\ OnlyDead /\ Punch!AnswerIsOfThisSession /\ Punch!NeverWithoutChannel

LEMMA AtFirst ==
  /\ Punch!None \in Told /\ Punch!None.addrs = {}
  /\ \A place \in {"idle", "discover", "done"}, n \in Nat :
       [at |-> place, session |-> n, addrs |-> {}, peer |-> Punch!None]
         \in [at : {"idle", "discover", "wait", "bound", "probing", "punched", "failed", "done"},
              session : Nat, addrs : SUBSET Punch!Addresses, peer : Told]
  /\ \A place \in {"idle", "listen"} :
       [at |-> place, peer |-> Punch!None]
         \in [at : {"idle", "listen", "reply", "bound", "probing", "punched", "failed"}, peer : Told]
BY DEF Punch!None, Told

LEMMA PunchInit == Punch!Init => PunchInv
<1> SUFFICES ASSUME Punch!Init PROVE PunchInv
  OBVIOUS
<1>1. ini.peer = Punch!None /\ res.peer = Punch!None /\ ini.at = "idle" /\ res.at = "idle"
  BY DEF Punch!Init
<1>2. toIni = <<>> /\ toRes = <<>> /\ udp = {} /\ hole = {} /\ relayOpen = TRUE /\ direct = FALSE /\ punches = 0
  BY DEF Punch!Init
<1>3. PunchTypes
  <2>1. <<>> \in Seq(Carried)
    OBVIOUS
  <2>2. /\ ini = [at |-> "idle", session |-> 0, addrs |-> {}, peer |-> Punch!None]
        /\ res = [at |-> "idle", peer |-> Punch!None]
        /\ net \in [lan : BOOLEAN, preserving : BOOLEAN, stun : BOOLEAN, http : BOOLEAN]
    BY DEF Punch!Init
  <2> QED BY <1>2, <2>1, <2>2, AtFirst DEF PunchTypes
<1>4. OnlyDead
  BY <1>1, <1>2, AtFirst DEF OnlyDead, Punched
<1> QED BY <1>1, <1>2, <1>3, <1>4 DEF PunchInv, Punch!AnswerIsOfThisSession, Punch!NeverWithoutChannel

PutTo(q, m) == Append(q, m)

LEMMA CarriedMessages ==
  ASSUME NEW q \in Seq(Carried), NEW m \in Carried
  PROVE  Append(q, m) \in Seq(Carried)
         /\ ((\A i \in DOMAIN q : q[i].addrs \subseteq Dead) /\ m.addrs \subseteq Dead
              => \A i \in DOMAIN Append(q, m) : Append(q, m)[i].addrs \subseteq Dead)
<1>1. DOMAIN q = 1 .. Len(q) /\ DOMAIN Append(q, m) = 1 .. Len(q) + 1 /\ Len(q) \in Nat
  OBVIOUS
<1>2. \A i \in 1 .. Len(q) : Append(q, m)[i] = q[i]
  OBVIOUS
<1>3. Append(q, m)[Len(q) + 1] = m
  OBVIOUS
<1> QED BY <1>1, <1>2, <1>3

LEMMA ReadMessages ==
  ASSUME NEW q \in Seq(Carried), q # <<>>
  PROVE  /\ Tail(q) \in Seq(Carried) /\ Head(q) \in Carried
         /\ (\A i \in DOMAIN q : q[i].addrs \subseteq Dead)
              => Head(q).addrs \subseteq Dead /\ \A i \in DOMAIN Tail(q) : Tail(q)[i].addrs \subseteq Dead
<1>1. DOMAIN q = 1 .. Len(q) /\ Len(q) \in Nat \ {0} /\ DOMAIN Tail(q) = 1 .. Len(q) - 1
  OBVIOUS
<1>2. \A i \in 1 .. Len(q) - 1 : Tail(q)[i] = q[i + 1]
  OBVIOUS
<1>3. Head(q) = q[1] /\ Tail(q) \in Seq(Carried)
  OBVIOUS
<1> QED BY <1>1, <1>2, <1>3

LEMMA SomeMessages ==
  /\ Punch!Result \in Carried /\ Punch!Result.addrs = {} /\ Punch!Other \in Carried /\ Punch!Other.addrs = {}
  /\ \A n \in Nat, a \in SUBSET Punch!Addresses :
       /\ [type |-> "connect", session |-> n, addrs |-> a] \in Carried
       /\ [type |-> "sync", session |-> n, addrs |-> a] \in Carried
       /\ [session |-> n, addrs |-> a] \in Told
BY DEF Punch!Result, Punch!Other, Carried, Told

LEMMA TellKeeps ==
  ASSUME PunchTypes, NEW side \in Punch!Sides, Punch!Tell(side)
  PROVE  toRes' \in Seq(Carried)
         /\ ((\A i \in DOMAIN toRes : toRes[i].addrs \subseteq Dead) => \A i \in DOMAIN toRes' : toRes'[i].addrs \subseteq Dead)
BY CarriedMessages, SomeMessages DEF PunchTypes, Punch!Tell

LEMMA InitiatorStep ==
  ASSUME PunchInv, NEW ok \in BOOLEAN,
         Punch!Connect(ok) \/ Punch!Discover(ok) \/ Punch!Level2(ok) \/ Punch!Level3 \/ Punch!SyncTimeout
  PROVE  PunchInv'
<1> USE DEF PunchInv, PunchTypes, OnlyDead, Punched, FarApart, Punch!AnswerIsOfThisSession, Punch!NeverWithoutChannel,
            Punch!channel, Punch!bounds
<1>1. CASE Punch!Connect(ok)
  <2> DEFINE place == IF ok THEN "done" ELSE "discover"
  <2>1. /\ ini' = [at |-> place, session |-> punches + 1, addrs |-> {}, peer |-> Punch!None]
        /\ UNCHANGED <<net, res, toIni, toRes, relayOpen>> /\ punches' = punches + 1 /\ direct' = ok
        /\ udp' \subseteq udp /\ hole' \subseteq hole /\ relayOpen
    BY <1>1 DEF Punch!Connect
  <2>2. place \in {"idle", "discover", "done"} /\ punches + 1 \in Nat
    OBVIOUS
  <2>3. /\ ini' \in [at : {"idle", "discover", "wait", "bound", "probing", "punched", "failed", "done"},
                     session : Nat, addrs : SUBSET Punch!Addresses, peer : Told]
        /\ ini'.peer = Punch!None /\ ini'.at # "punched"
    BY <2>1, <2>2, AtFirst
  <2>4. ini'.peer.addrs \subseteq Dead
    BY <2>3, AtFirst
  <2> HIDE DEF place
  <2> QED BY <2>1, <2>2, <2>3, <2>4
<1>2. CASE Punch!Discover(ok)
  <2>1. ini \in [at : {"idle", "discover", "wait", "bound", "probing", "punched", "failed", "done"},
                 session : Nat, addrs : SUBSET Punch!Addresses, peer : Told] /\ ini.session \in Nat
    OBVIOUS
  <2> DEFINE local == Punch!Public \cup (IF ok THEN {"local"} ELSE {})
             m == [type |-> "connect", session |-> ini.session, addrs |-> local]
  <2>2. local \subseteq Punch!Addresses /\ (net.stun => local \subseteq Dead)
    BY DEF Punch!Public, Punch!Stun, Punch!MyIp, Punch!Addresses, Dead
  <2>3. m \in Carried /\ m.addrs = local
    BY <2>1, <2>2, SomeMessages
  <2>4. CASE local = {} \/ ~relayOpen
    BY <1>2, <2>4 DEF Punch!Discover
  <2>5. CASE ~(local = {} \/ ~relayOpen)
    <3>1. ini' = [ini EXCEPT !.at = "wait", !.addrs = local] /\ toRes' = Append(toRes, m)
      BY <1>2, <2>5 DEF Punch!Discover
    <3> HIDE DEF m, local
    <3> QED BY <1>2, <2>2, <2>3, <3>1, CarriedMessages DEF Punch!Discover
  <2> QED BY <2>4, <2>5
<1>3. CASE Punch!Level2(ok)
  BY <1>3 DEF Punch!Level2
<1>4. CASE Punch!Level3
  BY <1>4 DEF Punch!Level3
<1>5. CASE Punch!SyncTimeout
  BY <1>5 DEF Punch!SyncTimeout
<1> QED BY <1>1, <1>2, <1>3, <1>4, <1>5

LEMMA RecvSyncStep ==
  ASSUME PunchInv, Punch!RecvSync
  PROVE  PunchInv'
<1> USE DEF PunchInv, PunchTypes, OnlyDead, Punched, FarApart, Punch!AnswerIsOfThisSession, Punch!NeverWithoutChannel,
            Punch!bounds
<1> DEFINE m == Head(toIni)
<1>1. /\ toIni' = Tail(toIni) /\ UNCHANGED <<net, res, relayOpen, udp, hole, punches, direct>> /\ toIni # <<>>
      /\ ini.at = "wait"
  BY DEF Punch!RecvSync
<1>2. /\ Tail(toIni) \in Seq(Carried) /\ m \in Carried
      /\ FarApart => m.addrs \subseteq Dead /\ \A i \in DOMAIN Tail(toIni) : Tail(toIni)[i].addrs \subseteq Dead
  BY <1>1, ReadMessages
<1>3. CASE ~Punch!IsSync(m)
  <2>1. UNCHANGED <<ini, toRes>>
    BY <1>3 DEF Punch!RecvSync
  <2> QED BY <1>1, <1>2, <2>1
<1>4. CASE Punch!IsSync(m) /\ m.addrs = {}
  <2>1. ini' = [ini EXCEPT !.at = "failed"] /\ Punch!Tell("ini")
    BY <1>4 DEF Punch!RecvSync
  <2> QED BY <1>1, <1>2, <2>1, TellKeeps DEF Punch!Sides
<1>5. CASE Punch!IsSync(m) /\ m.addrs # {}
  <2>1. ini' = [ini EXCEPT !.at = "bound", !.peer = [session |-> m.session, addrs |-> m.addrs]] /\ UNCHANGED toRes
    BY <1>5 DEF Punch!RecvSync
  <2>2. [session |-> m.session, addrs |-> m.addrs] \in Told /\ m.session = ini.session
    BY <1>2, <1>5 DEF Carried, Told, Punch!IsSync
  <2> QED BY <1>1, <1>2, <2>1, <2>2
<1> QED BY <1>3, <1>4, <1>5

LEMMA ResponderStep ==
  ASSUME PunchInv, NEW ok \in BOOLEAN,
         Punch!Listen \/ Punch!RecvConnect \/ Punch!ListenTimeout \/ Punch!Reply(ok)
  PROVE  PunchInv'
<1> USE DEF PunchInv, PunchTypes, OnlyDead, Punched, FarApart, Punch!AnswerIsOfThisSession, Punch!NeverWithoutChannel,
            Punch!bounds, Punch!channel
<1>1. CASE Punch!Listen
  BY <1>1, SomeMessages DEF Punch!Listen, Punch!None
<1>2. CASE Punch!RecvConnect
  <2> DEFINE m == Head(toRes)
  <2>1. /\ toRes' = Tail(toRes) /\ UNCHANGED <<net, ini, toIni, relayOpen, udp, hole, punches, direct>>
        /\ toRes # <<>>
    BY <1>2 DEF Punch!RecvConnect
  <2>2. /\ Tail(toRes) \in Seq(Carried) /\ m \in Carried
        /\ FarApart => m.addrs \subseteq Dead /\ \A i \in DOMAIN Tail(toRes) : Tail(toRes)[i].addrs \subseteq Dead
    BY <2>1, ReadMessages
  <2>3. [session |-> m.session, addrs |-> m.addrs] \in Told
    BY <2>2 DEF Carried, Told
  <2>4. res' = res \/ res' = [at |-> "reply", peer |-> [session |-> m.session, addrs |-> m.addrs]]
    BY <1>2 DEF Punch!RecvConnect
  <2> QED BY <2>1, <2>2, <2>3, <2>4
<1>3. CASE Punch!ListenTimeout
  BY <1>3 DEF Punch!ListenTimeout
<1>4. CASE Punch!Reply(ok)
  <2> DEFINE local == Punch!Stun \cup IF ok THEN {"local"} ELSE {}
             m == [type |-> "sync", session |-> res.peer.session, addrs |-> local]
  <2>1. local \subseteq Punch!Addresses /\ local \subseteq Dead
    BY DEF Punch!Stun, Punch!Addresses, Dead
  <2>2. m \in Carried /\ m.addrs = local
    BY <2>1, SomeMessages DEF Told
  <2>3. CASE relayOpen
    <3>1. toIni' = Append(toIni, m) /\ res' = [res EXCEPT !.at = "bound"]
      BY <1>4, <2>3 DEF Punch!Reply
    <3> HIDE DEF m, local
    <3> QED BY <1>4, <2>1, <2>2, <3>1, CarriedMessages DEF Punch!Reply
  <2>4. CASE ~relayOpen
    BY <1>4, <2>4 DEF Punch!Reply
  <2> QED BY <2>3, <2>4
<1> QED BY <1>1, <1>2, <1>3, <1>4

(* A side changes its place: only that, and not to punched unless said.     *)
LEMMA PlaceStep ==
  ASSUME PunchTypes, NEW side \in Punch!Sides, NEW place \in {"probing", "punched", "failed"}, Punch!At(side, place)
  PROVE  /\ ini' \in [at : {"idle", "discover", "wait", "bound", "probing", "punched", "failed", "done"},
                      session : Nat, addrs : SUBSET Punch!Addresses, peer : Told]
         /\ res' \in [at : {"idle", "listen", "reply", "bound", "probing", "punched", "failed"}, peer : Told]
         /\ ini'.peer = ini.peer /\ res'.peer = res.peer /\ ini'.session = ini.session
         /\ ini'.at \in {ini.at, place} /\ res'.at \in {res.at, place}
BY DEF PunchTypes, Punch!At, Punch!Sides

LEMMA ProbeStep ==
  ASSUME PunchInv, NEW side \in Punch!Sides, Punch!Probe(side) \/ Punch!PunchTimeout(side)
  PROVE  PunchInv'
<1> USE DEF PunchInv, PunchTypes, OnlyDead, Punched, FarApart, Punch!AnswerIsOfThisSession, Punch!NeverWithoutChannel,
            Punch!bounds, Punch!channel
<1>1. CASE Punch!Probe(side)
  <2> DEFINE sent == {[from |-> side, addr |-> a] : a \in Punch!Peer(side).addrs}
  <2>1. Punch!Peer(side) \in Told /\ (FarApart => Punch!Peer(side).addrs \subseteq Dead)
    BY DEF Punch!Peer
  <2>2. sent \subseteq [from : Punch!Sides, addr : Punch!Addresses \cup {"source"}]
        /\ (FarApart => \A p \in sent : p.addr \in Dead)
    BY <2>1 DEF Told
  <2>3. udp' = udp \cup sent /\ hole' \subseteq hole \cup {side} /\ UNCHANGED <<net, toIni, toRes, relayOpen, punches, direct>>
        /\ Punch!At(side, "probing")
    BY <1>1 DEF Punch!Probe
  <2> HIDE DEF sent
  <2> QED BY <2>2, <2>3, PlaceStep
<1>2. CASE Punch!PunchTimeout(side)
  <2>1. UNCHANGED <<net, toIni, relayOpen, udp, hole, punches, direct>> /\ Punch!At(side, "failed") /\ Punch!Tell(side)
    BY <1>2 DEF Punch!PunchTimeout
  <2>2. PunchTypes'
    BY <2>1, PlaceStep, TellKeeps
  <2>3. OnlyDead'
    BY <2>1, PlaceStep, TellKeeps
  <2>4. Punch!AnswerIsOfThisSession' /\ Punch!NeverWithoutChannel'
    BY <2>1, PlaceStep
  <2> HIDE DEF PunchTypes, OnlyDead, Punch!AnswerIsOfThisSession, Punch!NeverWithoutChannel
  <2> QED BY <2>2, <2>3, <2>4
<1> QED BY <1>1, <1>2

LEMMA PacketStep ==
  ASSUME PunchInv, NEW p \in udp, Punch!ProbeArrives(p) \/ Punch!ProbeLost(p)
  PROVE  PunchInv'
<1> USE DEF PunchInv, PunchTypes, OnlyDead, Punched, FarApart, Punch!AnswerIsOfThisSession, Punch!NeverWithoutChannel,
            Punch!bounds, Punch!channel
<1>1. CASE Punch!ProbeLost(p)
  BY <1>1 DEF Punch!ProbeLost
<1>2. CASE Punch!ProbeArrives(p)
  <2> DEFINE to == Punch!OtherOf(p.from)
             back == [from |-> to, addr |-> "source"]
  <2>1. to \in Punch!Sides /\ back \in [from : Punch!Sides, addr : Punch!Addresses \cup {"source"}]
    BY DEF Punch!OtherOf, Punch!Sides
  <2>2. ~FarApart
    BY <1>2 DEF Punch!ProbeArrives, Punch!Reaches, Dead
  <2>3. /\ UNCHANGED <<net, toIni, relayOpen, hole, punches, direct>> /\ Punch!At(to, "punched") /\ Punch!Tell(to)
        /\ udp' = (udp \ {p}) \cup {back}
    BY <1>2 DEF Punch!ProbeArrives
  <2> HIDE DEF to, back
  <2> QED BY <2>1, <2>2, <2>3, PlaceStep, TellKeeps
<1> QED BY <1>1, <1>2

LEMMA ChannelStep ==
  ASSUME PunchInv, Punch!SendOther \/ Punch!ReadOther
  PROVE  PunchInv'
<1> USE DEF PunchInv, PunchTypes, OnlyDead, Punched, FarApart, Punch!AnswerIsOfThisSession, Punch!NeverWithoutChannel,
            Punch!bounds, Punch!channel
<1>1. CASE Punch!SendOther
  BY <1>1, CarriedMessages, SomeMessages DEF Punch!SendOther
<1>2. CASE Punch!ReadOther
  BY <1>2, ReadMessages DEF Punch!ReadOther
<1> QED BY <1>1, <1>2

LEMMA PunchesStep == PunchInv /\ Punch!Next => PunchInv'
<1> SUFFICES ASSUME PunchInv, Punch!Next PROVE PunchInv'
  OBVIOUS
<1>1. ASSUME NEW ok \in BOOLEAN, Punch!Connect(ok) \/ Punch!Discover(ok) \/ Punch!Reply(ok) \/ Punch!Level2(ok)
      PROVE  PunchInv'
  BY <1>1, InitiatorStep, ResponderStep
<1>2. CASE Punch!RecvSync \/ Punch!SyncTimeout \/ Punch!Level3
  BY <1>2, InitiatorStep, RecvSyncStep
<1>3. CASE Punch!Listen \/ Punch!RecvConnect \/ Punch!ListenTimeout
  BY <1>3, ResponderStep
<1>4. ASSUME NEW side \in Punch!Sides, Punch!Probe(side) \/ Punch!PunchTimeout(side) PROVE PunchInv'
  BY <1>4, ProbeStep
<1>5. ASSUME NEW p \in udp, Punch!ProbeArrives(p) \/ Punch!ProbeLost(p) PROVE PunchInv'
  BY <1>5, PacketStep
<1>6. CASE Punch!SendOther \/ Punch!ReadOther
  BY <1>6, ChannelStep
<1> QED BY <1>1, <1>2, <1>3, <1>4, <1>5, <1>6 DEF Punch!Next

(* A hole punch takes no answer of an earlier session for its own, returns  *)
(* without a channel only if it had none, and succeeds by addresses a probe *)
(* can reach, whatever comes late, is lost or times out.                    *)
THEOREM PunchHolds == MCSpec => []PunchIsSound
<1> DEFINE Inv == part = "punch" => PunchInv
<1>1. MCInit => Inv
  BY PunchInit DEF MCInit
<1>2. Inv /\ [MCNext]_<<part, vars, punchVars, streamVars, recvVars, cronVars>> => Inv'
  <2> SUFFICES ASSUME part = "punch" => PunchInv, part' = "punch",
                      [MCNext]_<<part, vars, punchVars, streamVars, recvVars, cronVars>>
               PROVE  PunchInv'
    OBVIOUS
  <2>1. CASE PunchStep
    BY <2>1, PunchesStep DEF PunchStep
  <2>2. CASE UNCHANGED <<part, punchVars>>
    BY <2>2 DEF punchVars, PunchInv, PunchTypes, OnlyDead, Punched, FarApart, Punch!AnswerIsOfThisSession,
                Punch!NeverWithoutChannel
  <2> QED BY <2>1, <2>2 DEF MCNext, PeersStep, StreamStep, RecvStep, CronStep
<1>3. Inv => PunchIsSound
  BY DEF PunchIsSound, PunchInv, PunchTypes, OnlyDead, Punched, FarApart, Punch!PunchNeedsLanOrReflection
<1> QED BY <1>1, <1>2, <1>3, PTL DEF MCSpec

-----------------------------------------------------------------------------
(* The receive queue.                                                       *)

QueueEntry == [dir : {"inbound", "outbound"}, seq : Nat]
Reader == [pc : {"idle", "clear", "recheck", "sleep", "count", "pop"}, limit : Nat, left : Nat, over : BOOLEAN,
           n : Nat, taken : Seq(QueueEntry)]
Reply == [by : Readers, got : SUBSET QueueEntry]

(* What a call of GET /recv has taken and not answered yet.                 *)
Has(r) == ToSet(rd[r].taken)

RecvTypes ==
  /\ queue \in Seq(QueueEntry) /\ rd \in [Readers -> Reader] /\ answers \subseteq Reply
  /\ arrived \subseteq QueueEntry /\ evicted \subseteq QueueEntry /\ lost \subseteq QueueEntry /\ overlap \in BOOLEAN
  /\ counts \in [in : Nat, out : Nat] /\ counts.out = 0
  /\ \A e \in arrived : e.dir = "inbound" /\ e.seq <= counts.in
  /\ \A r \in Readers : rd[r].pc # "pop" => rd[r].taken = <<>>

(* Every message there was is somewhere, ...                                *)
Somewhere ==
  \A e : e \in arrived <=> \/ e \in ToSet(queue) \/ e \in evicted \/ e \in lost
                           \/ \E r \in Readers : e \in Has(r)
                           \/ \E a \in answers : e \in a.got

(* ... and in one place, though it may have been lost or evicted before.    *)
Apart ==
  /\ IsInjective(queue) /\ lost \cap ToSet(queue) = {}
  /\ \A r \in Readers : Has(r) \cap ToSet(queue) = {}
  /\ \A a \in answers : a.got \cap ToSet(queue) = {}
  /\ \A r, q \in Readers : r # q => Has(r) \cap Has(q) = {}
  /\ \A r \in Readers, a \in answers : Has(r) \cap a.got = {}
  /\ \A a, b \in answers : a # b => a.got \cap b.got = {}

(* As long as no two calls pop at once, what a call has counted is there.   *)
Counted ==
  /\ lost # {} => overlap
  /\ ~overlap => /\ \A r, q \in Readers : rd[r].pc = "pop" /\ rd[q].pc = "pop" => r = q
                 /\ \A r \in Readers : rd[r].pc = "pop" => rd[r].n <= Len(rd[r].taken) + Len(queue)

RecvInv == RecvTypes /\ Somewhere /\ Apart /\ Counted

LEMMA IdleReader == Recv!Idle \in Reader /\ Recv!Idle.taken = <<>> /\ Recv!Idle.pc = "idle"
<1>1. <<>> \in Seq(QueueEntry)
  OBVIOUS
<1> QED BY <1>1 DEF Recv!Idle, Reader

LEMMA RecvInit == Recv!Init => RecvInv
<1> SUFFICES ASSUME Recv!Init PROVE RecvInv
  OBVIOUS
<1>1. /\ queue = <<>> /\ counts = [in |-> 0, out |-> 0] /\ arrived = {} /\ evicted = {} /\ lost = {} /\ answers = {}
      /\ rd = [r \in Readers |-> Recv!Idle] /\ overlap = FALSE
  BY DEF Recv!Init
<1>2. \A r \in Readers : rd[r] = Recv!Idle /\ Has(r) = {}
  BY <1>1, IdleReader, ElementsOfEmpty DEF Has
<1>3. <<>> \in Seq(QueueEntry) /\ IsInjective(<<>>)
  BY DEF IsInjective
<1>4. RecvTypes
  BY <1>1, <1>2, <1>3, IdleReader DEF RecvTypes
<1>5. Somewhere /\ Apart
  BY <1>1, <1>2, <1>3, ElementsOfEmpty DEF Somewhere, Apart
<1>6. Counted
  BY <1>1, <1>2, IdleReader DEF Counted
<1> QED BY <1>4, <1>5, <1>6 DEF RecvInv

(* A call that takes nothing changes its place, and others nothing.         *)
ReaderMoves(r) ==
  /\ rd' \in [Readers -> Reader] /\ rd'[r].taken = <<>> /\ rd[r].taken = <<>>
  /\ \A q \in Readers : q # r => rd'[q] = rd[q]
  /\ UNCHANGED <<queue, counts, arrived, evicted, answers, lost>>

LEMMA MovesKeep ==
  ASSUME RecvInv, NEW r \in Readers, ReaderMoves(r)
  PROVE  (overlap' \in BOOLEAN => RecvTypes') /\ Somewhere' /\ Apart'
<1>1. \A q \in Readers : rd'[q].taken = rd[q].taken /\ Has(q)' = Has(q)
  BY DEF ReaderMoves, Has
<1>2. overlap' \in BOOLEAN => RecvTypes'
  <2>1. \A q \in Readers : rd'[q].pc # "pop" => rd'[q].taken = <<>>
    BY <1>1 DEF ReaderMoves, RecvInv, RecvTypes
  <2> QED BY <2>1 DEF ReaderMoves, RecvInv, RecvTypes
<1>3. Somewhere'
  BY <1>1 DEF ReaderMoves, RecvInv, Somewhere
<1>4. Apart'
  BY <1>1 DEF ReaderMoves, RecvInv, Apart
<1> QED BY <1>2, <1>3, <1>4

LEMMA AskStep ==
  ASSUME RecvInv, NEW r \in Readers, Recv!Ask(r)
  PROVE  RecvInv'
<1>1. PICK l \in Limits, w \in 0 .. MaxSlices :
        rd' = [rd EXCEPT ![r] = [Recv!Idle EXCEPT !.limit = l, !.left = w,
                                   !.pc = IF w > 0 /\ queue = <<>> THEN "clear" ELSE "count"]]
  BY DEF Recv!Ask
<1> DEFINE new == [Recv!Idle EXCEPT !.limit = l, !.left = w,
                                    !.pc = IF w > 0 /\ queue = <<>> THEN "clear" ELSE "count"]
<1>2. new \in Reader /\ new.taken = <<>> /\ new.pc # "pop"
  <2>1. l \in Nat /\ w \in Nat
    BY ReadAssumption
  <2>2. Recv!Idle \in Reader /\ Recv!Idle.taken = <<>>
    BY IdleReader
  <2> QED BY <2>1, <2>2 DEF Reader
<1>3. rd[r] = Recv!Idle /\ UNCHANGED <<queue, counts, arrived, evicted, answers, lost, overlap>>
  BY DEF Recv!Ask
<1> HIDE DEF new
<1>4. rd' = [rd EXCEPT ![r] = new] /\ rd \in [Readers -> Reader]
  BY <1>1 DEF RecvInv, RecvTypes, new
<1>5. rd'[r] = new /\ \A q \in Readers : q # r => rd'[q] = rd[q]
  BY <1>4
<1>6. rd' \in [Readers -> Reader]
  BY <1>2, <1>4
<1>7. ReaderMoves(r)
  BY <1>2, <1>3, <1>5, <1>6, IdleReader DEF ReaderMoves
<1>8. Counted'
  BY <1>2, <1>3, <1>5 DEF RecvInv, Counted
<1>9. overlap' \in BOOLEAN
  BY <1>3 DEF RecvInv, RecvTypes
<1> QED BY <1>7, <1>8, <1>9, MovesKeep DEF RecvInv

Ticked(q, over) == [q EXCEPT !.left = IF q.left > 0 THEN q.left - 1 ELSE 0, !.over = over]

LEMMA TickedReader ==
  ASSUME NEW q \in Reader, NEW over \in BOOLEAN
  PROVE  Ticked(q, over) \in Reader /\ Ticked(q, over).taken = q.taken /\ Ticked(q, over).pc = q.pc
<1>1. q.left \in Nat
  BY DEF Reader
<1>2. (IF q.left > 0 THEN q.left - 1 ELSE 0) \in Nat
  BY <1>1
<1> QED BY <1>2 DEF Reader, Ticked

(* Waiting.                                                                 *)
LEMMA WaitStep ==
  ASSUME RecvInv, NEW r \in Readers, Recv!Clear(r) \/ Recv!Recheck(r) \/ Recv!Sleep(r) \/ Recv!Tick(r)
  PROVE  RecvInv'
<1>1. rd \in [Readers -> Reader] /\ rd[r].pc # "pop" /\ rd[r].taken = <<>>
  BY DEF Recv!Clear, Recv!Recheck, Recv!Sleep, Recv!Tick, RecvInv, RecvTypes
<1>2. rd[r] \in Reader
  BY <1>1
<1>3. PICK new \in Reader : new.taken = <<>> /\ new.pc # "pop" /\ rd' = [rd EXCEPT ![r] = new]
  <2>1. CASE Recv!Clear(r)
    <3>1. [rd[r] EXCEPT !.pc = "recheck"] \in Reader /\ [rd[r] EXCEPT !.pc = "recheck"].taken = <<>>
          /\ [rd[r] EXCEPT !.pc = "recheck"].pc # "pop"
      BY <1>1, <1>2 DEF Reader
    <3> QED BY <2>1, <3>1 DEF Recv!Clear
  <2>2. CASE Recv!Recheck(r)
    <3> DEFINE new == [rd[r] EXCEPT !.pc = IF queue # <<>> THEN "count" ELSE "sleep"]
    <3>1. new \in Reader /\ new.taken = <<>> /\ new.pc # "pop"
      BY <1>1, <1>2 DEF Reader
    <3> QED BY <2>2, <3>1 DEF Recv!Recheck
  <2>3. CASE Recv!Sleep(r)
    <3>1. Recv!Woken(r) \in Reader /\ Recv!Woken(r).taken = <<>> /\ Recv!Woken(r).pc # "pop"
      BY <1>1, <1>2 DEF Reader, Recv!Woken
    <3> QED BY <2>3, <3>1 DEF Recv!Sleep
  <2>4. CASE Recv!Tick(r)
    <3> DEFINE over == rd[r].pc = "sleep"
    <3>1. over \in BOOLEAN
      OBVIOUS
    <3>2. Ticked(rd[r], over) \in Reader /\ Ticked(rd[r], over).taken = <<>> /\ Ticked(rd[r], over).pc # "pop"
      BY <1>1, <1>2, <3>1, TickedReader
    <3>3. rd' = [rd EXCEPT ![r] = Ticked(rd[r], over)]
      BY <1>1, <2>4 DEF Recv!Tick, Ticked
    <3> HIDE DEF over
    <3> QED BY <3>2, <3>3
  <2> QED BY <2>1, <2>2, <2>3, <2>4
<1>4. UNCHANGED <<queue, counts, arrived, evicted, answers, lost, overlap>>
  BY DEF Recv!Clear, Recv!Recheck, Recv!Sleep, Recv!Tick
<1>5. rd'[r] = new /\ \A q \in Readers : q # r => rd'[q] = rd[q]
  BY <1>1, <1>3
<1>6. ReaderMoves(r)
  BY <1>1, <1>3, <1>4, <1>5 DEF ReaderMoves
<1>7. Counted'
  BY <1>3, <1>4, <1>5 DEF RecvInv, Counted
<1>8. overlap' \in BOOLEAN
  BY <1>4 DEF RecvInv, RecvTypes
<1> QED BY <1>6, <1>7, <1>8, MovesKeep DEF RecvInv

(* The count is of what the queue has; who is popping makes it an overlap.  *)
LEMMA CountStep ==
  ASSUME RecvInv, NEW r \in Readers, Recv!Count(r)
  PROVE  RecvInv'
<1> DEFINE n == Recv!Least(rd[r].limit, Len(queue))
           new == [rd[r] EXCEPT !.pc = "pop", !.n = n]
<1>1. rd \in [Readers -> Reader] /\ rd[r] \in Reader /\ rd[r].pc = "count" /\ rd[r].taken = <<>>
      /\ queue \in Seq(QueueEntry) /\ rd[r].limit \in Nat
  BY DEF Recv!Count, RecvInv, RecvTypes, Reader
<1>2. n \in Nat /\ n <= Len(queue) /\ Len(queue) \in Nat
  BY <1>1 DEF Recv!Least
<1> HIDE DEF n
<1>3. new \in Reader /\ new.taken = <<>> /\ new.pc = "pop" /\ new.n = n
  BY <1>1, <1>2 DEF Reader
<1>4. rd' = [rd EXCEPT ![r] = new] /\ UNCHANGED <<queue, counts, arrived, evicted, answers, lost>>
      /\ overlap' = (overlap \/ \E q \in Readers \ {r} : rd[q].pc = "pop")
  BY DEF Recv!Count, n
<1> HIDE DEF new
<1>5. rd'[r] = new /\ \A q \in Readers : q # r => rd'[q] = rd[q]
  BY <1>1, <1>4
<1>6. ReaderMoves(r)
  BY <1>1, <1>3, <1>4, <1>5 DEF ReaderMoves
<1>7. overlap' \in BOOLEAN /\ (overlap => overlap')
  BY <1>4 DEF RecvInv, RecvTypes
<1>8. Counted'
  <2>1. lost' # {} => overlap'
    BY <1>4, <1>7 DEF RecvInv, Counted
  <2>2. ASSUME ~overlap', NEW q \in Readers, rd'[q].pc = "pop" PROVE q = r
    BY <2>2, <1>4, <1>5
  <2>3. rd'[r].n <= Len(rd'[r].taken) + Len(queue')
    BY <1>2, <1>3, <1>4, <1>5
  <2> QED BY <2>1, <2>2, <2>3 DEF Counted
<1> QED BY <1>6, <1>7, <1>8, MovesKeep DEF RecvInv

(* A message is taken from the head of the queue.                           *)
LEMMA PopStep ==
  ASSUME RecvInv, NEW r \in Readers, Recv!Pop(r)
  PROVE  RecvInv'
<1> DEFINE h == Head(queue)
           new == [rd[r] EXCEPT !.taken = Append(rd[r].taken, h)]
<1>1. rd \in [Readers -> Reader] /\ rd[r] \in Reader /\ rd[r].pc = "pop" /\ queue \in Seq(QueueEntry) /\ queue # <<>>
      /\ rd[r].taken \in Seq(QueueEntry) /\ rd[r].n \in Nat
  BY DEF Recv!Pop, RecvInv, RecvTypes, Reader
<1>2. /\ h \in QueueEntry /\ h \in ToSet(queue) /\ Tail(queue) \in Seq(QueueEntry) /\ IsInjective(Tail(queue))
      /\ h \notin ToSet(Tail(queue)) /\ ToSet(queue) = ToSet(Tail(queue)) \cup {h}
  BY <1>1, ElementsOf, ElementsOfTail, TailKeepsInjective DEF RecvInv, Apart
<1>3. Len(Tail(queue)) = Len(queue) - 1 /\ Len(queue) \in Nat
  BY <1>1
<1> HIDE DEF h
<1>4. /\ Append(rd[r].taken, h) \in Seq(QueueEntry) /\ ToSet(Append(rd[r].taken, h)) = Has(r) \cup {h}
      /\ Len(Append(rd[r].taken, h)) = Len(rd[r].taken) + 1 /\ Len(rd[r].taken) \in Nat
  BY <1>1, <1>2, ElementsOfAppend DEF Has
<1>5. new \in Reader /\ new.taken = Append(rd[r].taken, h) /\ new.pc = "pop" /\ new.n = rd[r].n
  BY <1>1, <1>4 DEF Reader
<1>6. rd' = [rd EXCEPT ![r] = new] /\ queue' = Tail(queue) /\ UNCHANGED <<counts, arrived, evicted, answers, lost, overlap>>
  BY DEF Recv!Pop, h
<1> HIDE DEF new
<1>7. rd'[r] = new /\ \A q \in Readers : q # r => rd'[q] = rd[q]
  BY <1>1, <1>6
<1>8. Has(r)' = Has(r) \cup {h} /\ \A q \in Readers : q # r => Has(q)' = Has(q)
  BY <1>4, <1>5, <1>7 DEF Has
<1>9. RecvTypes'
  <2>1. \A q \in Readers : rd'[q].pc # "pop" => rd'[q].taken = <<>>
    BY <1>5, <1>7 DEF RecvInv, RecvTypes
  <2>2. rd' \in [Readers -> Reader]
    BY <1>1, <1>5, <1>6
  <2> QED BY <1>2, <1>6, <2>1, <2>2 DEF RecvInv, RecvTypes
<1>10. Somewhere'
  BY <1>2, <1>6, <1>8 DEF RecvInv, Somewhere
<1>11. Apart'
  BY <1>2, <1>6, <1>8 DEF RecvInv, Apart
<1>12. Counted'
  BY <1>3, <1>4, <1>5, <1>6, <1>7, <1>1 DEF RecvInv, Counted
<1> QED BY <1>9, <1>10, <1>11, <1>12 DEF RecvInv

(* A call ends: with what it has lost, or answered.                         *)
LEMMA EndStep ==
  ASSUME RecvInv, NEW r \in Readers, Recv!Fail(r) \/ Recv!Answer(r)
  PROVE  RecvInv'
<1>1. rd \in [Readers -> Reader] /\ rd[r] \in Reader /\ rd[r].pc = "pop" /\ queue \in Seq(QueueEntry)
      /\ rd[r].taken \in Seq(QueueEntry) /\ rd[r].n \in Nat
  BY DEF Recv!Fail, Recv!Answer, RecvInv, RecvTypes, Reader
<1>2. rd' = [rd EXCEPT ![r] = Recv!Idle] /\ UNCHANGED <<queue, counts, arrived, evicted, overlap>>
  BY DEF Recv!Fail, Recv!Answer
<1>3. rd'[r] = Recv!Idle /\ \A q \in Readers : q # r => rd'[q] = rd[q]
  BY <1>1, <1>2
<1>4. Has(r)' = {} /\ \A q \in Readers : q # r => Has(q)' = Has(q)
  BY <1>3, IdleReader, ElementsOfEmpty DEF Has
<1>5. Has(r) \subseteq QueueEntry
  BY <1>1, ElementsOf DEF Has
<1>6. Recv!Range(rd[r].taken) = Has(r)
  BY DEF Recv!Range, Has, ToSet
<1>7. rd' \in [Readers -> Reader] /\ \A q \in Readers : rd'[q].pc # "pop" => rd'[q].taken = <<>>
  BY <1>1, <1>2, <1>3, IdleReader DEF RecvInv, RecvTypes
<1>8. CASE Recv!Fail(r)
  <2>1. lost' = lost \cup Has(r) /\ answers' = answers /\ queue = <<>> /\ Len(rd[r].taken) < rd[r].n
    BY <1>6, <1>8 DEF Recv!Fail
  <2>2. overlap
    BY <1>1, <2>1 DEF RecvInv, Counted
  <2>3. RecvTypes'
    BY <1>2, <1>5, <1>7, <2>1 DEF RecvInv, RecvTypes
  <2>4. Somewhere' /\ Apart'
    BY <1>2, <1>4, <2>1, ElementsOfEmpty DEF RecvInv, Somewhere, Apart
  <2>5. Counted'
    BY <1>2, <2>2 DEF Counted
  <2> QED BY <2>3, <2>4, <2>5 DEF RecvInv
<1>9. CASE Recv!Answer(r)
  <2> DEFINE new == [by |-> r, got |-> Has(r)]
  <2>1. lost' = lost /\ answers' = answers \cup {new}
    BY <1>6, <1>9 DEF Recv!Answer
  <2>2. new \in Reply /\ new.got = Has(r)
    BY <1>5 DEF Reply
  <2> HIDE DEF new
  <2>3. RecvTypes'
    BY <1>2, <1>7, <2>1, <2>2 DEF RecvInv, RecvTypes
  <2>4. Somewhere'
    BY <1>2, <1>4, <2>1, <2>2 DEF RecvInv, Somewhere
  <2>5. Apart'
    BY <1>2, <1>4, <2>1, <2>2 DEF RecvInv, Apart
  <2>6. Counted'
    BY <1>2, <1>3, <2>1, IdleReader DEF RecvInv, Counted
  <2> QED BY <2>3, <2>4, <2>5, <2>6 DEF RecvInv
<1> QED BY <1>8, <1>9

(* A message arrives; the deque may drop its oldest.                        *)
LEMMA ReceiveStep ==
  ASSUME RecvInv, Recv!Receive
  PROVE  RecvInv'
<1> DEFINE e == [dir |-> "inbound", seq |-> counts.in + 1]
<1>1. counts \in [in : Nat, out : Nat] /\ counts' = [counts EXCEPT !.in = counts.in + 1] /\ counts.out = 0
      /\ UNCHANGED <<rd, answers, lost, overlap>> /\ Recv!Append1(e)
  BY DEF Recv!Receive, Recv!readVars, RecvInv, RecvTypes
<1>2. counts' \in [in : Nat, out : Nat] /\ counts'.out = 0 /\ counts'.in = counts.in + 1 /\ counts.in \in Nat
  BY <1>1
<1>3. e \in QueueEntry /\ e \notin arrived /\ e.dir = "inbound" /\ e.seq <= counts'.in
  BY <1>2 DEF QueueEntry, RecvInv, RecvTypes
<1> HIDE DEF e
<1>4. arrived' = arrived \cup {e} /\ arrived \subseteq QueueEntry
  BY <1>1 DEF Recv!Append1, RecvInv, RecvTypes
<1>5. \A q \in Readers : Has(q)' = Has(q)
  BY <1>1 DEF Has
<1>6. queue \in Seq(QueueEntry) /\ IsInjective(queue) /\ ToSet(queue) \subseteq arrived /\ Len(queue) \in Nat
  BY ElementsOf DEF RecvInv, RecvTypes, Somewhere, Apart
<1>7. /\ queue' \in Seq(QueueEntry) /\ IsInjective(queue') /\ evicted' \subseteq QueueEntry /\ Len(queue') >= Len(queue)
      /\ ToSet(queue') \cup evicted' = ToSet(queue) \cup evicted \cup {e} /\ ToSet(queue') \subseteq ToSet(queue) \cup {e}
  <2>1. CASE Len(queue) < QueueMax
    <3>1. queue' = Append(queue, e) /\ evicted' = evicted
      BY <1>1, <2>1 DEF Recv!Append1
    <3>2. /\ Append(queue, e) \in Seq(QueueEntry) /\ ToSet(Append(queue, e)) = ToSet(queue) \cup {e}
          /\ IsInjective(Append(queue, e))
      BY <1>3, <1>6, ElementsOfAppend, AppendKeepsInjective
    <3>3. Len(Append(queue, e)) = Len(queue) + 1
      BY <1>6
    <3> QED BY <1>6, <3>1, <3>2, <3>3 DEF RecvInv, RecvTypes
  <2>2. CASE ~(Len(queue) < QueueMax)
    <3>1. queue' = Append(Tail(queue), e) /\ evicted' = evicted \cup {Head(queue)}
      BY <1>1, <2>2 DEF Recv!Append1
    <3>2. queue # <<>>
      BY <1>6, <2>2, ReadAssumption
    <3>3. /\ Tail(queue) \in Seq(QueueEntry) /\ IsInjective(Tail(queue)) /\ ToSet(queue) = ToSet(Tail(queue)) \cup {Head(queue)}
          /\ Head(queue) \in QueueEntry /\ e \notin ToSet(Tail(queue))
      BY <1>3, <1>6, <3>2, ElementsOf, ElementsOfTail, TailKeepsInjective
    <3>4. /\ Append(Tail(queue), e) \in Seq(QueueEntry) /\ ToSet(Append(Tail(queue), e)) = ToSet(Tail(queue)) \cup {e}
          /\ IsInjective(Append(Tail(queue), e))
      <4> DEFINE s == Tail(queue)
      <4>1. s \in Seq(QueueEntry) /\ IsInjective(s) /\ e \in QueueEntry /\ e \notin ToSet(s)
        BY <1>3, <3>3
      <4> HIDE DEF s
      <4>2. Append(s, e) \in Seq(QueueEntry) /\ ToSet(Append(s, e)) = ToSet(s) \cup {e}
        BY <4>1, ElementsOfAppend
      <4>3. IsInjective(Append(s, e))
        BY <4>1, AppendKeepsInjective
      <4> QED BY <4>2, <4>3 DEF s
    <3>5. Len(Append(Tail(queue), e)) = Len(queue)
      BY <1>6, <3>2, <3>3
    <3> QED BY <1>6, <3>1, <3>3, <3>4, <3>5 DEF RecvInv, RecvTypes
  <2> QED BY <2>1, <2>2
<1>8. RecvTypes'
  <2>1. \A x \in arrived' : x.dir = "inbound" /\ x.seq <= counts'.in
    BY <1>2, <1>3, <1>4 DEF RecvInv, RecvTypes, QueueEntry
  <2> QED BY <1>1, <1>2, <1>3, <1>4, <1>7, <2>1 DEF RecvInv, RecvTypes
<1>9. Somewhere'
  BY <1>1, <1>4, <1>5, <1>7 DEF RecvInv, Somewhere
<1>10. Apart'
  <2>1. e \notin lost /\ (\A q \in Readers : e \notin Has(q)) /\ \A a \in answers : e \notin a.got
    BY <1>3 DEF RecvInv, Somewhere
  <2> QED BY <1>1, <1>5, <1>7, <2>1 DEF RecvInv, Apart
<1>11. Counted'
  <2>1. ASSUME NEW q \in Readers, rd[q].n <= Len(rd[q].taken) + Len(queue) PROVE rd[q].n <= Len(rd[q].taken) + Len(queue')
    <3>1. rd[q] \in Reader /\ rd[q].n \in Nat /\ Len(rd[q].taken) \in Nat /\ Len(queue') \in Nat
      BY <1>7 DEF RecvInv, RecvTypes, Reader
    <3> QED BY <1>6, <1>7, <2>1, <3>1
  <2> QED BY <1>1, <2>1 DEF RecvInv, Counted
<1> QED BY <1>8, <1>9, <1>10, <1>11 DEF RecvInv

LEMMA RecvStepKeeps == RecvInv /\ Recv!Next => RecvInv'
<1> SUFFICES ASSUME RecvInv, Recv!Next PROVE RecvInv'
  OBVIOUS
<1>1. CASE Recv!Receive
  BY <1>1, ReceiveStep
<1>2. CASE Recv!Send
  BY <1>2 DEF Recv!Send, RecvInv, RecvTypes
<1>3. CASE Recv!OtherEvent \/ Recv!StreamClears \/ Recv!StartPaging \/ Recv!NextPage \/ Recv!Fetch
  <2>1. UNCHANGED <<queue, counts, arrived, evicted, answers, lost, overlap, rd>>
    BY <1>3 DEF Recv!OtherEvent, Recv!StreamClears, Recv!StartPaging, Recv!NextPage, Recv!Fetch, Recv!readVars
  <2> QED BY <2>1 DEF RecvInv, RecvTypes, Somewhere, Apart, Counted, Has
<1>4. ASSUME NEW r \in Readers, Recv!Ask(r) \/ Recv!Tick(r) \/ Recv!ReadStep(r) PROVE RecvInv'
  BY <1>4, AskStep, WaitStep, CountStep, PopStep, EndStep DEF Recv!ReadStep
<1> QED BY <1>1, <1>2, <1>3, <1>4 DEF Recv!Next

LEMMA SizeOfInjective ==
  ASSUME NEW S, NEW s \in Seq(S), IsInjective(s)
  PROVE  Cardinality(ToSet(s)) = Len(s)
<1>1. s \in [1 .. Len(s) -> ToSet(s)] /\ Len(s) \in Nat
  BY DEF ToSet
<1>2. s \in Bijection(1 .. Len(s), ToSet(s))
  BY <1>1 DEF Bijection, Injection, Surjection, IsInjective, ToSet
<1>3. ExistsBijection(1 .. Len(s), ToSet(s))
  BY <1>2 DEF ExistsBijection
<1>4. IsFiniteSet(1 .. Len(s)) /\ Cardinality(1 .. Len(s)) = Len(s)
  <2>1. 1 \in Int /\ Len(s) \in Int /\ (IF 1 > Len(s) THEN 0 ELSE Len(s) - 1 + 1) = Len(s)
    BY <1>1
  <2>2. IsFiniteSet(1 .. Len(s)) /\ Cardinality(1 .. Len(s)) = IF 1 > Len(s) THEN 0 ELSE Len(s) - 1 + 1
    BY <2>1, FS_Interval
  <2> QED BY <2>1, <2>2
<1> QED BY <1>3, <1>4, FS_Bijection

LEMMA SameSize == ASSUME NEW S PROVE Recv!Cardinality(S) = Cardinality(S)
BY DEF Recv!Cardinality, Cardinality

LEMMA RecvInvMeans == RecvInv => Recv!TakenOnce /\ Recv!LostOnlyByOverlap
<1> SUFFICES ASSUME RecvInv PROVE Recv!TakenOnce /\ Recv!LostOnlyByOverlap
  OBVIOUS
<1>1. Recv!Range(queue) = ToSet(queue) /\ \A r \in Readers : Recv!Range(rd[r].taken) = Has(r)
  BY DEF Recv!Range, ToSet, Has
<1>2. Recv!Taken = UNION {Has(r) : r \in Readers}
  BY <1>1 DEF Recv!Taken
<1>3. Recv!Told = UNION {a.got : a \in answers}
  BY DEF Recv!Told
<1>4. \A e : /\ e \in Recv!Taken <=> \E r \in Readers : e \in Has(r)
             /\ e \in Recv!Told <=> \E a \in answers : e \in a.got
  BY <1>2, <1>3
<1>5. Cardinality(ToSet(queue)) = Len(queue)
  BY SizeOfInjective DEF RecvInv, RecvTypes, Apart
<1>6. Recv!TakenOnce
  <2>1. \A a, b \in answers : a # b => a.got \cap b.got = {}
    BY DEF RecvInv, Apart
  <2>2. Recv!Range(queue) \cap (Recv!Taken \cup Recv!Told \cup lost) = {}
    BY <1>1, <1>4 DEF RecvInv, Apart
  <2>3. Recv!Taken \cap Recv!Told = {}
    BY <1>4 DEF RecvInv, Apart
  <2>4. Recv!Cardinality(Recv!Range(queue)) = Len(queue)
    BY <1>1, <1>5, SameSize
  <2> QED BY <2>1, <2>2, <2>3, <2>4 DEF Recv!TakenOnce
<1>7. Recv!LostOnlyByOverlap
  BY <1>1, <1>4 DEF RecvInv, Somewhere, Counted, Recv!LostOnlyByOverlap
<1> QED BY <1>6, <1>7

(* Each message is in one answer of GET /recv at most and not in the queue  *)
(* as well, whatever calls overlap; and one is lost only when two calls pop *)
(* at once.                                                                 *)
THEOREM ReadOnce == MCSpec => []TakenOnce
<1> DEFINE Inv == part = "recv" => RecvInv
<1>1. MCInit => Inv
  BY RecvInit DEF MCInit
<1>2. Inv /\ [MCNext]_<<part, vars, punchVars, streamVars, recvVars, cronVars>> => Inv'
  <2> SUFFICES ASSUME part = "recv" => RecvInv, part' = "recv",
                      [MCNext]_<<part, vars, punchVars, streamVars, recvVars, cronVars>>
               PROVE  RecvInv'
    OBVIOUS
  <2>1. CASE RecvStep
    BY <2>1, RecvStepKeeps DEF RecvStep
  <2>2. CASE UNCHANGED <<part, recvVars>>
    BY <2>2 DEF recvVars, RecvInv, RecvTypes, Somewhere, Apart, Counted, Has
  <2> QED BY <2>1, <2>2 DEF MCNext, PeersStep, StreamStep, PunchStep, CronStep
<1>3. Inv => TakenOnce
  BY RecvInvMeans DEF TakenOnce
<1> QED BY <1>1, <1>2, <1>3, PTL DEF MCSpec
=============================================================================
