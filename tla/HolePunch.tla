----------------------------- MODULE HolePunch -----------------------------
(***************************************************************************)
(* The way to a peer behind a NAT: connect_with_holepunch, DCUtRPuncher    *)
(* and STUNClient of acp_relay.py.  The initiator and the responder find   *)
(* out their addresses, tell each other over a relay channel, and send     *)
(* probes at the same time.                                                *)
(*                                                                         *)
(* An address is what it is an address of: "local" of the host; "mapped"   *)
(* of the socket that asked the STUN server, which is closed by then;      *)
(* "reflected", the public one with the local port.                        *)
(***************************************************************************)
EXTENDS Naturals, Sequences, FiniteSets

CONSTANTS
  MaxTries,    (* bound: connect_with_holepunch with the same channel       *)
  MaxListens,  (* bound: listen_for_dcutr                                   *)
  MaxOthers    (* bound: messages of the application on the channel         *)

VARIABLES
  net,         (* the surroundings: lan, both hosts are on one; preserving, *)
               (* the NATs keep the port; stun, http, answer                *)
  ini, res,    (* the initiator, the responder                              *)
  toIni, toRes, (* the relay channel                                        *)
  relayOpen,
  udp,         (* probes on their way: from, to which address               *)
  hole,        (* sides whose NAT lets the other's packets in               *)
  tries, listens, others,
  direct       (* a direct WebSocket is connected                           *)

channel == <<toIni, toRes, relayOpen>>
bounds == <<tries, listens, others>>
vars == <<net, ini, res, channel, udp, hole, bounds, direct>>

Addresses == {"local", "mapped", "reflected"}
None == [session |-> 0, addrs |-> {}]
Msg == [type : {"connect", "sync"}, session : 1 .. MaxTries, addrs : SUBSET Addresses]
Result == [type |-> "result", session |-> 0, addrs |-> {}]
Other == [type |-> "other", session |-> 0, addrs |-> {}]
Sides == {"ini", "res"}

TypeOK ==
  /\ net \in [lan : BOOLEAN, preserving : BOOLEAN, stun : BOOLEAN, http : BOOLEAN]
  /\ ini.at \in {"idle", "discover", "wait", "bound", "probing", "punched", "failed", "done"}
  /\ res.at \in {"idle", "listen", "reply", "bound", "probing", "punched", "failed"}
  /\ ini.peer = None \/ ini.peer.addrs \subseteq Addresses
  /\ toIni \in Seq(Msg \cup {Other}) /\ toRes \in Seq(Msg \cup {Result})
  /\ udp \subseteq [from : Sides, addr : Addresses \cup {"source"}]
  /\ hole \subseteq Sides

Init ==
  /\ net \in [lan : BOOLEAN, preserving : BOOLEAN, stun : BOOLEAN, http : BOOLEAN]
  /\ ini = [at |-> "idle", session |-> 0, addrs |-> {}, peer |-> None]
  /\ res = [at |-> "idle", peer |-> None]
  /\ toIni = <<>> /\ toRes = <<>> /\ relayOpen = TRUE
  /\ udp = {} /\ hole = {} /\ tries = 0 /\ listens = 0 /\ others = 0 /\ direct = FALSE

-----------------------------------------------------------------------------
(* The initiator, up to the punch.                                          *)

(* Mutant: no session_id is made.                                           *)
Connect_NoSession(ok) ==
  /\ ini.at \in {"idle", "done"} /\ ~direct /\ relayOpen /\ tries < MaxTries
  /\ tries' = tries + 1
  /\ ini' = [at |-> IF ok THEN "done" ELSE "discover", session |-> 0, addrs |-> {}, peer |-> None]
  /\ direct' = ok
  /\ udp' = {p \in udp : p.from # "ini"} /\ hole' = hole \ {"ini"}
  /\ UNCHANGED <<net, res, channel, listens, others>>

(* Level 1, a direct connection, succeeds or not.                           *)
Connect(ok) ==
  /\ ini.at \in {"idle", "done"} /\ ~direct /\ relayOpen /\ tries < MaxTries
  /\ tries' = tries + 1
  /\ ini' = [at |-> IF ok THEN "done" ELSE "discover", session |-> tries + 1, addrs |-> {}, peer |-> None]
  /\ direct' = ok
  /\ udp' = {p \in udp : p.from # "ini"} /\ hole' = hole \ {"ini"}
  /\ UNCHANGED <<net, res, channel, listens, others>>

(* What the STUN server saw, if it answers: where the socket that asked is  *)
(* mapped to.                                                               *)
Stun == IF net.stun THEN {"mapped"} ELSE {}

(* What the relay saw, if it answers; the port is put in by the caller.     *)
MyIp == IF net.http THEN {"reflected"} ELSE {}

(* Mutant: the STUN server is asked from the local port.                    *)
Public_SamePort == IF net.stun \/ net.http THEN {"reflected"} ELSE {}

Public == IF Stun # {} THEN Stun ELSE MyIp

(* The local address is added, unless the host name does not resolve.       *)
Discover(local) ==
  /\ ini.at = "discover"
  /\ LET addrs == Public \cup (IF local THEN {"local"} ELSE {})
     IN IF addrs = {} \/ ~relayOpen
        THEN ini' = [ini EXCEPT !.at = "failed"] /\ UNCHANGED toRes
        ELSE /\ ini' = [ini EXCEPT !.at = "wait", !.addrs = addrs]
             /\ toRes' = Append(toRes, [type |-> "connect", session |-> ini.session, addrs |-> addrs])
  /\ UNCHANGED <<net, res, toIni, relayOpen, udp, hole, bounds, direct>>

(* Mutant: any dcutr_sync will do.                                          *)
IsSync_Any(m) == m.type = "sync"

(* A dcutr_sync of this session.  Every other message that comes is dropped.*)
IsSync(m) == m.type = "sync" /\ m.session = ini.session

(* The initiator sends a dcutr_result, which no listen_for_dcutr waits for. *)
Tell(side) == IF side = "ini" /\ relayOpen THEN toRes' = Append(toRes, Result) ELSE UNCHANGED toRes

(* Without an address to probe the punch fails at once.                     *)
RecvSync ==
  /\ ini.at = "wait" /\ toIni # <<>>
  /\ toIni' = Tail(toIni)
  /\ LET m == Head(toIni)
     IN IF ~IsSync(m) THEN UNCHANGED <<ini, toRes>>
        ELSE IF m.addrs = {} THEN ini' = [ini EXCEPT !.at = "failed"] /\ Tell("ini")
        ELSE /\ ini' = [ini EXCEPT !.at = "bound", !.peer = [session |-> m.session, addrs |-> m.addrs]]
             /\ UNCHANGED toRes
  /\ UNCHANGED <<net, res, relayOpen, udp, hole, bounds, direct>>

(* Mutant: the time is looked at when a message comes.                      *)
SyncTimeout_OnMessage ==
  /\ ini.at = "wait" /\ toIni # <<>>
  /\ ini' = [ini EXCEPT !.at = "failed"]
  /\ UNCHANGED <<net, res, channel, udp, hole, bounds, direct>>

SyncTimeout ==
  /\ ini.at = "wait"
  /\ ini' = [ini EXCEPT !.at = "failed"]
  /\ UNCHANGED <<net, res, channel, udp, hole, bounds, direct>>

-----------------------------------------------------------------------------
(* The responder, up to the punch.                                          *)

Listen ==
  /\ res.at \in {"idle", "punched", "failed"} /\ listens < MaxListens
  /\ listens' = listens + 1
  /\ res' = [at |-> "listen", peer |-> None]
  /\ udp' = {p \in udp : p.from # "res"} /\ hole' = hole \ {"res"}
  /\ UNCHANGED <<net, ini, channel, tries, others, direct>>

RecvConnect ==
  /\ res.at = "listen" /\ toRes # <<>>
  /\ toRes' = Tail(toRes)
  /\ LET m == Head(toRes)
     IN res' = IF m.type # "connect" THEN res
               ELSE [at |-> "reply", peer |-> [session |-> m.session, addrs |-> m.addrs]]
  /\ UNCHANGED <<net, ini, toIni, relayOpen, udp, hole, bounds, direct>>

ListenTimeout ==
  /\ res.at = "listen"
  /\ res' = [res EXCEPT !.at = "failed"]
  /\ UNCHANGED <<net, ini, channel, udp, hole, bounds, direct>>

(* The responder has no reflection to fall back to.                         *)
Reply(local) ==
  /\ res.at = "reply"
  /\ IF relayOpen
     THEN /\ toIni' = Append(toIni, [type |-> "sync", session |-> res.peer.session,
                                     addrs |-> Stun \cup IF local THEN {"local"} ELSE {}])
          /\ res' = [res EXCEPT !.at = "bound"]
     ELSE res' = [res EXCEPT !.at = "failed"] /\ UNCHANGED toIni
  /\ UNCHANGED <<net, ini, toRes, relayOpen, udp, hole, bounds, direct>>

-----------------------------------------------------------------------------
(* _do_punch at either side: the socket is bound; at t_punch it probes all  *)
(* addresses, then it listens until a probe or an ack comes, or the time is *)
(* over.                                                                    *)

At(side, place) ==
  IF side = "ini" THEN ini' = [ini EXCEPT !.at = place] /\ UNCHANGED res
                  ELSE res' = [res EXCEPT !.at = place] /\ UNCHANGED ini
Place(side) == IF side = "ini" THEN ini.at ELSE res.at
Peer(side) == IF side = "ini" THEN ini.peer ELSE res.peer
OtherOf(side) == IF side = "ini" THEN "res" ELSE "ini"

Probe(side) ==
  /\ Place(side) = "bound"
  /\ At(side, "probing")
  /\ udp' = udp \cup {[from |-> side, addr |-> a] : a \in Peer(side).addrs}
  /\ hole' = IF Peer(side).addrs \cap {"mapped", "reflected"} # {} THEN hole \cup {side} ELSE hole
  /\ UNCHANGED <<net, channel, bounds, direct>>

(* Where a packet gets through: on the LAN; to the public address with the  *)
(* local port, if the NATs keep the port and the peer has opened its own;   *)
(* to where a packet came from.                                             *)
Reaches(p) ==
  LET to == OtherOf(p.from)
  IN /\ Place(to) = "probing"
     /\ \/ p.addr = "local" /\ net.lan
        \/ p.addr = "reflected" /\ net.preserving /\ to \in hole
        \/ p.addr = "source"

(* The peer that gets one has its direct address, and sends an ack back.    *)
ProbeArrives(p) ==
  /\ Reaches(p)
  /\ At(OtherOf(p.from), "punched")
  /\ Tell(OtherOf(p.from))
  /\ udp' = (udp \ {p}) \cup {[from |-> OtherOf(p.from), addr |-> "source"]}
  /\ UNCHANGED <<net, toIni, relayOpen, hole, bounds, direct>>

ProbeLost(p) ==
  /\ udp' = udp \ {p}
  /\ UNCHANGED <<net, ini, res, channel, hole, bounds, direct>>

PunchTimeout(side) ==
  /\ Place(side) = "probing"
  /\ At(side, "failed")
  /\ Tell(side)
  /\ UNCHANGED <<net, toIni, relayOpen, udp, hole, bounds, direct>>

-----------------------------------------------------------------------------
(* The end of connect_with_holepunch.                                       *)

(* Mutant: the channel is closed as soon as the punch has succeeded.        *)
Level2_CloseFirst(ok) ==
  /\ ini.at = "punched"
  /\ relayOpen' = FALSE
  /\ IF ok THEN ini' = [ini EXCEPT !.at = "done"] /\ direct' = TRUE
           ELSE ini' = [ini EXCEPT !.at = "failed"] /\ UNCHANGED direct
  /\ UNCHANGED <<net, res, toIni, toRes, udp, hole, bounds>>

(* A WebSocket to the address of the punch, then the channel is closed; if  *)
(* it fails, the channel is the result all the same.                        *)
Level2(ok) ==
  /\ ini.at = "punched"
  /\ IF ok THEN /\ ini' = [ini EXCEPT !.at = "done"]
                /\ direct' = TRUE /\ relayOpen' = FALSE
           ELSE /\ ini' = [ini EXCEPT !.at = "failed"]
                /\ UNCHANGED <<direct, relayOpen>>
  /\ UNCHANGED <<net, res, toIni, toRes, udp, hole, bounds>>

Level3 ==
  /\ ini.at = "failed"
  /\ ini' = [ini EXCEPT !.at = "done"]
  /\ UNCHANGED <<net, res, channel, udp, hole, bounds, direct>>

(* The application of the peer sends; who reads it is the application of    *)
(* the initiator, unless the initiator waits for its dcutr_sync.            *)
SendOther ==
  /\ others < MaxOthers /\ relayOpen
  /\ toIni' = Append(toIni, Other) /\ others' = others + 1
  /\ UNCHANGED <<net, ini, res, toRes, relayOpen, udp, hole, tries, listens, direct>>

ReadOther ==
  /\ ini.at \in {"idle", "done"} /\ relayOpen /\ toIni # <<>>
  /\ toIni' = Tail(toIni)
  /\ UNCHANGED <<net, ini, res, toRes, relayOpen, udp, hole, bounds, direct>>

Next ==
  \/ \E ok \in BOOLEAN : Connect(ok) \/ Discover(ok) \/ Reply(ok) \/ Level2(ok)
  \/ RecvSync \/ SyncTimeout \/ Level3
  \/ Listen \/ RecvConnect \/ ListenTimeout
  \/ \E side \in Sides : Probe(side) \/ PunchTimeout(side)
  \/ \E p \in udp : ProbeArrives(p) \/ ProbeLost(p)
  \/ SendOther \/ ReadOther

(* What connect_with_holepunch does next by itself.                         *)
Connecting == SyncTimeout \/ Level3 \/ \E ok \in BOOLEAN : Discover(ok) \/ Level2(ok)

(* The timers and the event loop; probes and the peer owe nothing.          *)
Fairness == WF_vars(Connecting) /\ WF_vars(Probe("ini")) /\ WF_vars(PunchTimeout("ini"))

Spec == Init /\ [][Next]_vars
FairSpec == Spec /\ Fairness

-----------------------------------------------------------------------------
(* Properties.                                                              *)

(* The initiator punches with the answer to its own session, however late   *)
(* the answers to its earlier ones come.                                    *)
AnswerIsOfThisSession == ini.peer # None => ini.peer.session = ini.session

(* Whatever fails, the caller has a channel when connect returns: the relay *)
(* stays open until a direct connection stands.                             *)
NeverWithoutChannel == direct \/ relayOpen

(* A punch succeeds on a LAN, or when the STUN server did not answer and    *)
(* the address is the reflected one: the mapped one is of another socket.   *)
PunchNeedsLanOrReflection ==
  ini.at = "punched" \/ res.at = "punched" => net.lan \/ ~net.stun

(* Every call of connect_with_holepunch returns.                            *)
ConnectReturns == (ini.at = "discover") ~> (ini.at = "done")

=============================================================================
