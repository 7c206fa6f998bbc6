------------------------------ MODULE MCRelays ------------------------------
(* The parts that relay for others, the groups that do without, discovery   *)
(* on the local network, and the client library of a relay, for TLC: they   *)
(* share no state, so each behaviour is one of one of them, and the states  *)
(* of the run are the sum of theirs.                                        *)
EXTENDS Integers, Gateway

CONSTANTS
  Tokens, Ids, Slots, Guests, Cursors, Nothing, MsgLimit, PageLimit, MaxRooms, MaxRequests, MaxNow,
  Members, Founder, MaxOps, MaxLinks, MaxLate, MaxDown,
  Names, Fetches, MaxRecords,
  Links, Callers, Locals, None, MaxRows, MaxRoutes, MaxFeds,
  Uses, Take, QueueMax, Chunk, Sizes, MaxCalls, MaxIn, MaxOut,
  Never, h1, h2, t1, a1

VARIABLES
  part,
  kv, rooms, req, now, since, last, got, requests, kept, raced, mixed, lapped,
  groups, op, links, wire, up, ops, late, down, joined, invited, faulty,
  record, fetch, announced, fetched, ended, crossed,
  rows, relays, call, routes, fedSent, routed, twin, fedWs, queued, fedGot, feds,
  box, made, sentBy, prog, done, results, bytes, buffer, published, yielded,
  lanNow, lanPc, lanT, lanLast, lanBuffer, table, told, real, lanOpen, scan, todo, hits, found,
  heard, skipped, lanUp, stayed, packets, flips

relayVars == <<kv, rooms, req, now, since, last, got, requests, kept, raced, mixed, lapped>>
groupsVars == <<groups, op, links, wire, up, ops, late, down, joined, invited, faulty>>
signalVars == <<record, fetch, announced, fetched, ended, crossed>>
federationVars == <<rows, relays, call, routes, fedSent, routed, twin, fedWs, queued, fedGot, feds>>
sdkVars == <<box, made, sentBy, prog, done, results, bytes, buffer, published, yielded>>
lanVars == <<lanNow, lanPc, lanT, lanLast, lanBuffer, table, told, real, lanOpen, scan, todo, hits, found,
             heard, skipped, lanUp, stayed, packets, flips>>

H == INSTANCE HttpRelay WITH RoomOf <- [x \in Guests \cup Cursors |-> t1]
P == INSTANCE P2PGroups WITH Agents <- Members
N == INSTANCE NatSignal WITH Tokens <- Names
F == INSTANCE Federation WITH sent <- fedSent, ws <- fedWs, got <- fedGot
S == INSTANCE SdkClient WITH wire <- bytes
Heard == INSTANCE LanDiscovery WITH
  Hosts <- {h1, h2}, Ports <- 1 .. 2, Me <- <<h1, 1>>, Announcers <- {<<h1, 2>>, <<h2, 2>>}, Tokens <- {t1},
  Interval <- 1, Ttl <- 2, MaxNow <- 5, MaxPackets <- 2, MaxFlips <- 0, Requests <- FALSE,
  now <- lanNow, pc <- lanPc, t <- lanT, last <- lanLast, buffer <- lanBuffer, open <- lanOpen, up <- lanUp
Scan == INSTANCE LanDiscovery WITH
  Hosts <- {h1, h2}, Ports <- 1 .. 2, Me <- <<h1, 1>>, Announcers <- {<<h1, 2>>, <<h2, 2>>}, Tokens <- {t1},
  Interval <- 1, Ttl <- 1, MaxNow <- 2, MaxPackets <- 1, MaxFlips <- 1, Requests <- TRUE,
  now <- lanNow, pc <- lanPc, t <- lanT, last <- lanLast, buffer <- lanBuffer, open <- lanOpen, up <- lanUp

(* The sockets of the gateway are of one agent.                             *)
OneAgent == [s \in Sockets |-> a1]

(* What is polled is a session; ids of messages and the absence of a        *)
(* session or an id are told from numbers, and limits let something in.     *)
ASSUME RelaysAssumption ==
  /\ t1 \in Tokens /\ Guests \cap Cursors = {}
  /\ Nothing \notin Ids \cup Nat /\ Ids \cap Nat = {}
  /\ Nothing \notin [msgs : Seq([id : Ids \cup Nat, seq : Nat, ts : Nat, n : Nat]), seq : Nat]
  /\ MsgLimit \in Nat \ {0} /\ PageLimit \in Nat /\ MaxNow \in Nat \ {0} /\ MaxRequests \in Nat
  /\ MaxRecords \in Nat /\ Founder \in Members

(* A part that is not looked at stands still.                               *)
NoFederation ==
  /\ rows = 0 /\ relays = 0 /\ call = 0 /\ routes = 0 /\ fedSent = 0 /\ routed = 0
  /\ twin = 0 /\ fedWs = 0 /\ queued = 0 /\ fedGot = 0 /\ feds = 0
NoLan ==
  /\ lanNow = 0 /\ lanPc = 0 /\ lanT = 0 /\ lanLast = 0 /\ lanBuffer = 0 /\ table = 0 /\ told = 0
  /\ real = 0 /\ lanOpen = 0 /\ scan = 0 /\ todo = 0 /\ hits = 0 /\ found = 0 /\ heard = 0
  /\ skipped = 0 /\ lanUp = 0 /\ stayed = 0 /\ packets = 0 /\ flips = 0

InitAll ==
  /\ part \in {"relay", "gateway", "groups", "signal", "federation", "sdk", "heard", "scan"}
  /\ H!Init /\ Init /\ P!Init /\ N!Init /\ S!SInit
  /\ IF part = "federation" THEN F!Init ELSE NoFederation
  /\ CASE part = "heard" -> Heard!Init
       [] part = "scan" -> Scan!Init
       [] OTHER -> NoLan

Relay == part = "relay" /\ H!Next
         /\ UNCHANGED <<part, vars, groupsVars, signalVars, federationVars, sdkVars, lanVars>>
GatewayStep == part = "gateway" /\ Next
               /\ UNCHANGED <<part, relayVars, groupsVars, signalVars, federationVars, sdkVars, lanVars>>
Groups == part = "groups" /\ P!Next
          /\ UNCHANGED <<part, relayVars, vars, signalVars, federationVars, sdkVars, lanVars>>
Signal == part = "signal" /\ N!Next
          /\ UNCHANGED <<part, relayVars, vars, groupsVars, federationVars, sdkVars, lanVars>>
Federation == part = "federation" /\ F!Next
              /\ UNCHANGED <<part, relayVars, vars, groupsVars, signalVars, sdkVars, lanVars>>
Sdk == part = "sdk" /\ S!SNext
       /\ UNCHANGED <<part, relayVars, vars, groupsVars, signalVars, federationVars, lanVars>>

Lan == /\ \/ part = "heard" /\ Heard!Next
          \/ part = "scan" /\ Scan!Next
       /\ UNCHANGED <<part, relayVars, vars, groupsVars, signalVars, federationVars, sdkVars>>

NextAll == Relay \/ GatewayStep \/ Groups \/ Signal \/ Federation \/ Sdk \/ Lan

SpecAll == InitAll /\ [][NextAll]_<<part, relayVars, vars, groupsVars, signalVars, federationVars, sdkVars, lanVars>>

(* Types of all parts.                                                      *)
TypesOK ==
  /\ part = "relay" => H!TypeOK
  /\ part = "gateway" => TypeOK
  /\ part = "groups" => P!TypeOK
  /\ part = "signal" => N!TypeOK
  /\ part = "federation" => F!TypeOK
  /\ part = "sdk" => S!TypeOK
  /\ part = "heard" => Heard!TypeOK
  /\ part = "scan" => Scan!TypeOK

(* The HTTP relay keeps what it accepted, in order and under its limits,    *)
(* and gives it to each poller once, but for ties at a page's end; the      *)
(* record of an address goes to one fetch and is not lost unread.           *)
RelayKeeps ==
  /\ part = "relay" => /\ H!SessionsInOrder /\ H!AcceptedIsKept /\ H!RoomsAreIndexed
                       /\ H!CursorReadsOnce /\ H!SinceMissesOnlyTies
  /\ part = "signal" => N!FetchedOnce /\ N!GoneForAReason

(* Members of a group list themselves and those they invited, and when      *)
(* operations do not overlap and links are fresh their lists are the same.  *)
GroupsAgree == part = "groups" => P!MembersListThemselves /\ P!InvitedHaveJoined /\ P!ListsAgree

(* A link is one federated relay, and messages routed to a peer reach it in *)
(* order, whether it was there or came back.                                *)
FederationIsSound == part = "federation" => F!OneRelayPerLink /\ F!FederatedInOrder

(* A stream of the client library yields the published events, whole.       *)
YieldedIsPrefix == part = "sdk" => S!YieldedIsPrefix

(* What is listed of the local network is fresh, was told of when it was    *)
(* new, and leaves out nobody who keeps announcing itself or stands open    *)
(* while a scan runs.                                                       *)
LanIsSeen ==
  /\ part = "heard" => Heard!ListedIsFresh /\ Heard!HeardIsListed /\ Heard!ListedWasTold
  /\ part = "scan" => Scan!ListedIsFresh /\ Scan!HeardIsListed /\ Scan!ListedWasTold /\ Scan!SteadyIsFound
=============================================================================
