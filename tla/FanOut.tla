-------------------------------- MODULE FanOut --------------------------------
(* Messages of one request to many peers (acp_relay.py): POST               *)
(* /peers/broadcast, publishing to a topic and its subscriptions, the       *)
(* multicast of /message:send, POST /messages:batch, frames of              *)
(* /messages:stream, and the application-level ping.                        *)
(*                                                                          *)
(* Each request runs on an HTTP thread and hands its sends one by one to    *)
(* the event loop, so connections come and go between two of them.          *)
(* Sockets of a peer are numbered; live[p] is the one that works, sock[p]   *)
(* the one the relay has registered (0: ws is None), and they differ when   *)
(* the network broke and the relay does not know yet.                       *)
EXTENDS Integers, Sequences, FiniteSets, SequencesExt

CONSTANTS
  Peers,         \* peer ids of _peers
  Stranger,      \* a peer id the relay does not know
  Topics,
  Callers,       \* HTTP threads
  Wanted,        \* the requests a client may make, see Request
  MaxCalls,      \* bound on requests
  MaxSockets,    \* bound on the sockets of a peer
  LogMax         \* _BROADCAST_LOG_MAX and _TOPIC_LOG_MAX

VARIABLES
  conn, sock,    \* "connected" and "ws" of _peers
  live,          \* network: the socket of the peer that works, 0 for none
  legacy,        \* _peer_ws: the last socket accepted, as <<peer, number>>
  queued,        \* _offline_queue
  got,           \* what reached each peer
  home, members, \* _topic_subscribers: topic -> dict, and the dicts
  blog,          \* _broadcast_log (and the logs of the topics)
  pending,       \* _pending_pongs: the callers whose ping is registered
  call,          \* the request each thread works on
  calls,         \* requests made (bounds the model)
  reports,       \* history: what the answers said of each message
  standing,      \* history: <<topic, peer>> subscribed, answered, and not withdrawn
  early          \* history: pings whose pong came before the caller waited for it

linkVars == <<conn, sock, live, legacy, queued, got>>
topicVars == <<home, members, standing>>
pingVars == <<pending, early>>
vars == <<linkVars, topicVars, pingVars, blog, call, calls, reports>>

Idle == [kind |-> "idle"]
Names == Peers \cup {Stranger}
Dicts == 1..(Cardinality(Topics) + MaxCalls)

(* A message: the request and the position in it; a publication is one      *)
(* message to all.                                                          *)
Msg(c, i) == [req |-> call[c].req, at |-> IF call[c].kind = "publish" THEN 0 ELSE i]

Init ==
  /\ conn = [p \in Peers |-> TRUE]
  /\ sock = [p \in Peers |-> 1]
  /\ live = [p \in Peers |-> 1]
  /\ legacy \in {<<p, 1>> : p \in Peers}
  /\ queued = [p \in Names |-> <<>>]
  /\ got = [p \in Peers |-> <<>>]
  /\ home = [t \in Topics |-> 0]
  /\ members = [d \in Dicts |-> {}]
  /\ blog = <<>>
  /\ pending = {}
  /\ call = [c \in Callers |-> Idle]
  /\ calls = 0
  /\ reports = {}
  /\ standing = {}
  /\ early = {}

(* ------------------------------- the links ------------------------------ *)

(* The network breaks; the relay has not noticed.                           *)
Break(p) ==
  /\ live[p] # 0
  /\ live' = [live EXCEPT ![p] = 0]
  /\ UNCHANGED <<conn, sock, legacy, queued, got, topicVars, pingVars, blog, call, calls, reports>>

(* The receive loop of the socket ends.                                     *)
Notice(p) ==
  /\ sock[p] # 0 /\ live[p] = 0
  /\ conn' = [conn EXCEPT ![p] = FALSE]
  /\ sock' = [sock EXCEPT ![p] = 0]
  /\ legacy' = <<>>
  /\ UNCHANGED <<live, queued, got, topicVars, pingVars, blog, call, calls, reports>>

Latest(p) == Max({live[p], sock[p]} \cup {call[c].ws : c \in {d \in Callers : call[d].kind \in {"frame", "batch", "ping"} /\ call[d].to = p}})

(* The peer connects again under its id: the new socket is registered and   *)
(* the messages queued for it are sent first.                               *)
Reconnect(p) ==
  /\ live[p] = 0 /\ Latest(p) < MaxSockets
  /\ LET s == Latest(p) + 1 IN
     /\ live' = [live EXCEPT ![p] = s]
     /\ sock' = [sock EXCEPT ![p] = s]
     /\ legacy' = <<p, s>>
  /\ conn' = [conn EXCEPT ![p] = TRUE]
  /\ got' = [got EXCEPT ![p] = @ \o queued[p]]
  /\ queued' = [queued EXCEPT ![p] = <<>>]
  /\ UNCHANGED <<topicVars, pingVars, blog, call, calls, reports>>

(* _unregister_peer: "mark a peer as disconnected", whatever socket it has. *)
Unregister(p) ==
  /\ conn' = [conn EXCEPT ![p] = FALSE]
  /\ sock' = [sock EXCEPT ![p] = 0]

(* ------------------------ sends through _ws_send ------------------------ *)

(* What a send to the name does: the socket, or <<>> when there is none and *)
(* the message is queued.  A name that is not in _peers means _peer_ws.     *)
Route(name) ==
  IF name \in Peers THEN IF sock[name] = 0 THEN <<>> ELSE <<name, sock[name]>> ELSE legacy

Works(route) == route # <<>> /\ live[route[1]] = route[2]

(* _ws_send_sync: queued, sent, sent too late for the caller's ten seconds, *)
(* or failed over a broken socket.  ok is what the caller sees.             *)
WsSend(name, m, ok) ==
  LET route == Route(name) IN
  \/ /\ route = <<>> /\ ~ok
     /\ queued' = [queued EXCEPT ![name] = Append(@, m)]
     /\ UNCHANGED got
  \/ /\ Works(route)
     /\ got' = [got EXCEPT ![route[1]] = Append(@, m)]
     /\ UNCHANGED queued
  \/ /\ route # <<>> /\ ~Works(route) /\ ~ok
     /\ UNCHANGED <<queued, got>>

Connected == {p \in Peers : conn[p]}

(* A new call; todo: the names still to be served; ws, to: the socket read. *)
Begin(c, w, todo) ==
  /\ call[c] = Idle /\ calls < MaxCalls
  /\ calls' = calls + 1
  /\ call' = [call EXCEPT ![c] = [kind |-> w.kind, req |-> calls + 1, todo |-> todo, at |-> 1, ok |-> 0,
                                  ask |-> w, ws |-> 0, to |-> Stranger, pc |-> "next"]]

(* POST /peers/broadcast: all connected peers, or those of target_peers     *)
(* that are connected; an unknown one refuses the request.                  *)
StartBroadcast(c, w) ==
  /\ w.kind = "broadcast"
  /\ Range(w.names) \subseteq Peers
  /\ LET targets == SelectSeq(IF w.names = <<>> THEN SetToSeq(Peers) ELSE w.names, LAMBDA p : conn[p]) IN
       targets # <<>> /\ Begin(c, w, targets)
  /\ UNCHANGED <<linkVars, topicVars, pingVars, blog, reports>>

(* POST /peers/broadcast/{topic}: the keys of the topic's dict now.         *)
StartPublish(c, w) ==
  /\ w.kind = "publish"
  /\ Begin(c, w, IF home[w.topic] = 0 THEN <<>> ELSE SetToSeq(members[home[w.topic]]))
  /\ UNCHANGED <<linkVars, topicVars, pingVars, blog, reports>>

(* The multicast of /message:send: the names as they are given.             *)
StartCast(c, w) ==
  /\ w.kind = "cast"
  /\ Len(w.names) > 1
  /\ Begin(c, w, w.names)
  /\ UNCHANGED <<linkVars, topicVars, pingVars, blog, reports>>

Report(c, name, m, ok) == reports' = reports \cup {[kind |-> call[c].kind, msg |-> m, to |-> name, ok |-> ok]}

Advance(c, ok) ==
  call' = [call EXCEPT ![c].todo = Tail(@), ![c].at = @ + 1, ![c].ok = @ + (IF ok THEN 1 ELSE 0), ![c].pc = "next"]

(* One peer of a broadcast, a publication or a multicast.                   *)
SendOne(c) ==
  /\ call[c].kind \in {"broadcast", "publish", "cast"}
  /\ call[c].todo # <<>>
  /\ LET name == Head(call[c].todo)  m == Msg(c, call[c].at) IN
       \E ok \in BOOLEAN : WsSend(name, m, ok) /\ Report(c, name, m, ok) /\ Advance(c, ok)
  /\ UNCHANGED <<conn, sock, live, legacy, topicVars, pingVars, blog, calls>>

(* A send that fails here leaves the peer registered.  The records go to a  *)
(* log of bounded length, oldest out first.                                 *)
(* Mutant: the length is tested before the append.                          *)
Logged_PopAtBound(entry) == LET all == Append(blog, entry) IN IF Len(blog) > LogMax THEN Tail(all) ELSE all
Logged(entry) == LET all == Append(blog, entry) IN IF Len(all) > LogMax THEN Tail(all) ELSE all

EndMany(c) ==
  /\ call[c].kind \in {"broadcast", "publish", "cast"}
  /\ call[c].todo = <<>>
  /\ blog' = IF call[c].kind = "cast" THEN blog
             ELSE Logged([req |-> call[c].req, delivered |-> call[c].ok, failed |-> call[c].at - 1 - call[c].ok])
  /\ call' = [call EXCEPT ![c] = Idle]
  /\ UNCHANGED <<linkVars, topicVars, pingVars, calls, reports>>

(* ---------------------------- direct sends ------------------------------ *)

(* POST /messages:batch, one message after the other, and a frame of        *)
(* /messages:stream.  A name that is missing (Stranger stands for it here)  *)
(* means the only connected peer, and is refused when there is no such.     *)
StartDirect(c, w) ==
  /\ w.kind \in {"batch", "frame"}
  /\ w.kind = "frame" => Len(w.names) = 1
  /\ Begin(c, w, w.names)
  /\ UNCHANGED <<linkVars, topicVars, pingVars, blog, reports>>

Target(name) ==
  IF name \in Peers THEN {name} ELSE IF Cardinality(Connected) = 1 THEN Connected ELSE {}

(* The handler reads the peer's socket; a frame also asks "connected".      *)
Pick(c) ==
  /\ call[c].kind \in {"batch", "frame"} /\ call[c].pc = "next" /\ call[c].todo # <<>>
  /\ LET t == Target(Head(call[c].todo))
         good == {p \in t : sock[p] # 0 /\ (call[c].kind = "frame" => conn[p])}
     IN IF good = {}
          THEN /\ Report(c, Head(call[c].todo), Msg(c, call[c].at), FALSE)
               /\ Advance(c, FALSE)
          ELSE \E p \in good :
                 /\ call' = [call EXCEPT ![c].pc = "send", ![c].to = p, ![c].ws = sock[p]]
                 /\ UNCHANGED reports
  /\ UNCHANGED <<linkVars, topicVars, pingVars, blog, calls>>

(* Mutant: the send is handed to the loop and its result is not awaited.    *)
Direct_FireAndForget(c) ==
  /\ call[c].kind \in {"batch", "frame"} /\ call[c].pc = "send"
  /\ LET p == call[c].to  m == Msg(c, call[c].at) IN
     /\ got' = IF live[p] = call[c].ws THEN [got EXCEPT ![p] = Append(@, m)] ELSE got
     /\ Report(c, p, m, TRUE) /\ Advance(c, TRUE)
  /\ UNCHANGED <<conn, sock, live, legacy, queued, topicVars, pingVars, blog, calls>>

(* ws.send on the loop, awaited for five seconds.                           *)
Direct(c) ==
  /\ call[c].kind \in {"batch", "frame"} /\ call[c].pc = "send"
  /\ LET p == call[c].to  m == Msg(c, call[c].at)  works == live[p] = call[c].ws IN
     /\ got' = IF works THEN [got EXCEPT ![p] = Append(@, m)] ELSE got
     /\ \/ works /\ Report(c, p, m, TRUE) /\ Advance(c, TRUE)
        \/ Report(c, p, m, FALSE) /\ call' = [call EXCEPT ![c].pc = "drop"]
  /\ UNCHANGED <<conn, sock, live, legacy, queued, topicVars, pingVars, blog, calls>>

Drop(c) ==
  /\ call[c].kind \in {"batch", "frame"} /\ call[c].pc = "drop"
  /\ Unregister(call[c].to)
  /\ Advance(c, FALSE)
  /\ UNCHANGED <<live, legacy, queued, got, topicVars, pingVars, blog, calls, reports>>

EndDirect(c) ==
  /\ call[c].kind \in {"batch", "frame"} /\ call[c].todo = <<>>
  /\ call' = [call EXCEPT ![c] = Idle]
  /\ UNCHANGED <<linkVars, topicVars, pingVars, blog, calls, reports>>

(* --------------------------------- ping --------------------------------- *)

(* Mutant: the future is registered by the wait that follows the send.      *)
Pong_WhenAwaited(c) ==
  /\ call[c].kind = "ping" /\ call[c].pc \in {"sent", "wait"}
  /\ live[call[c].to] # 0 /\ call[c].ok = 0
  /\ call' = IF call[c].pc = "wait" THEN [call EXCEPT ![c].ok = 1] ELSE call
  /\ early' = IF call[c].pc = "sent" THEN early \cup {call[c].req} ELSE early
  /\ UNCHANGED <<linkVars, topicVars, pending, blog, calls, reports>>

(* POST /peers/{id}/ping registers a future for the pong, then sends.       *)
StartPing(c, w) ==
  /\ w.kind = "ping"
  /\ LET p == w.names[1] IN
     /\ conn[p] /\ sock[p] # 0
     /\ call[c] = Idle /\ calls < MaxCalls
     /\ calls' = calls + 1
     /\ call' = [call EXCEPT ![c] = [kind |-> "ping", req |-> calls + 1, todo |-> <<p>>, at |-> 1, ok |-> 0,
                                     ask |-> w, ws |-> sock[p], to |-> p, pc |-> "send"]]
  /\ pending' = pending \cup {c}
  /\ UNCHANGED <<linkVars, topicVars, early, blog, reports>>

SendPing(c) ==
  /\ call[c].kind = "ping" /\ call[c].pc = "send"
  /\ \/ live[call[c].to] = call[c].ws /\ call' = [call EXCEPT ![c].pc = "sent"] /\ UNCHANGED pending
     \/ call' = [call EXCEPT ![c].pc = "drop"] /\ pending' = pending \ {c}
  /\ UNCHANGED <<linkVars, topicVars, early, blog, calls, reports>>

(* The pong arrives: _on_message looks the future up and settles it.        *)
Pong(c) ==
  /\ call[c].kind = "ping" /\ call[c].pc \in {"sent", "wait"}
  /\ live[call[c].to] # 0 /\ call[c].ok = 0
  /\ call' = IF c \in pending THEN [call EXCEPT ![c].ok = 1] ELSE call
  /\ early' = IF call[c].pc = "sent" THEN early \cup {call[c].req} ELSE early
  /\ UNCHANGED <<linkVars, topicVars, pending, blog, calls, reports>>

(* The wait for the future: what is settled already ends it at once.        *)
AwaitPong(c) ==
  /\ call[c].kind = "ping" /\ call[c].pc = "sent"
  /\ call' = [call EXCEPT ![c].pc = IF call[c].ok = 1 THEN "alive" ELSE "wait"]
  /\ UNCHANGED <<linkVars, topicVars, pingVars, blog, calls, reports>>

(* The answer: alive, or timed out, perhaps just before the pong is seen;   *)
(* or the send failed and the peer is unregistered.                         *)
EndPing(c) ==
  /\ call[c].kind = "ping" /\ call[c].pc \in {"wait", "alive", "drop"}
  /\ \E alive \in BOOLEAN :
       /\ alive => call[c].ok = 1
       /\ call[c].pc = "alive" => alive
       /\ call[c].pc = "drop" => ~alive
       /\ Report(c, call[c].to, Msg(c, 1), alive)
  /\ IF call[c].pc = "drop" THEN Unregister(call[c].to) ELSE UNCHANGED <<conn, sock>>
  /\ pending' = pending \ {c}
  /\ call' = [call EXCEPT ![c] = Idle]
  /\ UNCHANGED <<live, legacy, queued, got, early, topicVars, blog, calls>>

(* -------------------------------- topics -------------------------------- *)

Busy(t, c) == \E d \in Callers \ {c} : call[d].kind \in {"sub", "unsub"} /\ call[d].ask.topic = t

(* POST /peers/subscribe/{topic}: is the topic there, else create its dict, *)
(* then look the topic up again and write the subscription.                 *)
StartSub(c, w) ==
  /\ w.kind = "sub"
  /\ Begin(c, w, w.names)
  /\ UNCHANGED <<linkVars, topicVars, pingVars, blog, reports>>

Look(c) ==
  /\ call[c].kind = "sub" /\ call[c].pc = "next"
  /\ call' = [call EXCEPT ![c].pc = IF home[call[c].ask.topic] = 0 THEN "create" ELSE "put"]
  /\ UNCHANGED <<linkVars, topicVars, pingVars, blog, calls, reports>>

Create(c) ==
  /\ call[c].kind = "sub" /\ call[c].pc = "create"
  /\ \E d \in Dicts :
       /\ d = 1 + Max({0} \cup {e \in Dicts : members[e] # {} \/ \E t \in Topics : home[t] = e}
                     \cup {call[o].ws : o \in {k \in Callers : call[k].kind = "unsub"}})
       /\ home' = [home EXCEPT ![call[c].ask.topic] = d]
  /\ call' = [call EXCEPT ![c].pc = "put"]
  /\ UNCHANGED <<linkVars, members, standing, pingVars, blog, calls, reports>>

(* The topic may have been dropped since: KeyError, and an answer of 500.   *)
Put(c) ==
  /\ call[c].kind = "sub" /\ call[c].pc = "put"
  /\ LET t == call[c].ask.topic  p == call[c].ask.names[1] IN
     /\ members' = IF home[t] = 0 THEN members ELSE [members EXCEPT ![home[t]] = @ \cup {p}]
     /\ standing' = IF home[t] = 0 \/ Busy(t, c) THEN standing ELSE standing \cup {<<t, p>>}
  /\ call' = [call EXCEPT ![c] = Idle]
  /\ UNCHANGED <<linkVars, home, pingVars, blog, calls, reports>>

(* POST /peers/unsubscribe/{topic}: take the subscription out of the dict   *)
(* read; when that left it empty, drop the topic.                           *)
StartUnsub(c, w) ==
  /\ w.kind = "unsub"
  /\ Begin(c, w, w.names)
  /\ standing' = standing \ {<<w.topic, w.names[1]>>}
  /\ UNCHANGED <<linkVars, home, members, pingVars, blog, reports>>

Take(c) ==
  /\ call[c].kind = "unsub" /\ call[c].pc = "next"
  /\ LET d == home[call[c].ask.topic]  p == call[c].ask.names[1] IN
       IF d # 0 /\ p \in members[d]
         THEN /\ members' = [members EXCEPT ![d] = @ \ {p}]
              /\ call' = [call EXCEPT ![c].pc = "test", ![c].ws = d]
         ELSE /\ call' = [call EXCEPT ![c] = Idle]
              /\ UNCHANGED members
  /\ UNCHANGED <<linkVars, home, standing, pingVars, blog, calls, reports>>

(* Mutant: the topic goes with its first unsubscription.                    *)
Test_Always(c) ==
  /\ call[c].kind = "unsub" /\ call[c].pc = "test"
  /\ call' = [call EXCEPT ![c].pc = "clean"]
  /\ UNCHANGED <<linkVars, topicVars, pingVars, blog, calls, reports>>

Test(c) ==
  /\ call[c].kind = "unsub" /\ call[c].pc = "test"
  /\ call' = IF members[call[c].ws] = {} /\ home[call[c].ask.topic] # 0
               THEN [call EXCEPT ![c].pc = "clean"] ELSE [call EXCEPT ![c] = Idle]
  /\ UNCHANGED <<linkVars, topicVars, pingVars, blog, calls, reports>>

Clean(c) ==
  /\ call[c].kind = "unsub" /\ call[c].pc = "clean"
  /\ home' = [home EXCEPT ![call[c].ask.topic] = 0]
  /\ call' = [call EXCEPT ![c] = Idle]
  /\ UNCHANGED <<linkVars, members, standing, pingVars, blog, calls, reports>>

Start(c) ==
  \E w \in Wanted :
    \/ StartBroadcast(c, w) \/ StartPublish(c, w) \/ StartCast(c, w)
    \/ StartDirect(c, w) \/ StartPing(c, w) \/ StartSub(c, w) \/ StartUnsub(c, w)

CallStep(c) ==
  \/ SendOne(c) \/ EndMany(c)
  \/ Pick(c) \/ Direct(c) \/ Drop(c) \/ EndDirect(c)
  \/ SendPing(c) \/ Pong(c) \/ AwaitPong(c) \/ EndPing(c)
  \/ Look(c) \/ Create(c) \/ Put(c) \/ Take(c) \/ Test(c) \/ Clean(c)

Next ==
  \/ \E p \in Peers : Break(p) \/ Notice(p) \/ Reconnect(p)
  \/ \E c \in Callers : Start(c) \/ CallStep(c)

Spec == Init /\ [][Next]_vars

(* ------------------------------ properties ------------------------------ *)

(* Types; the logs keep their bound; a topic that exists has a dict of its  *)
(* own.                                                                     *)
TypeOK ==
  /\ conn \in [Peers -> BOOLEAN]
  /\ sock \in [Peers -> 0..MaxSockets] /\ live \in [Peers -> 0..MaxSockets]
  /\ home \in [Topics -> 0..Cardinality(Dicts)] /\ members \in [Dicts -> SUBSET Peers]
  /\ \A t, u \in Topics : t # u /\ home[t] # 0 => home[t] # home[u]
  /\ \A c \in Callers : call[c] # Idle => call[c].req \in 1..calls
  /\ pending \subseteq {c \in Callers : call[c].kind = "ping"}
  /\ Len(blog) <= LogMax

Copies(m, p) == Len(SelectSeq(got[p], LAMBDA x : x = m)) + Len(SelectSeq(queued[p], LAMBDA x : x = m))

(* What the answers of broadcasts, publications, batches and frames say of  *)
(* the peers the relay knows is true: a message reported ok has reached the *)
(* peer, and no message is at or on its way to a peer twice, although       *)
(* sockets break and are replaced between the sends of one request          *)
(* (acp_relay.py:13480-13512, 13722-13750, 12780-12797).                    *)
ReportsAreTrue ==
  \A r \in {q \in reports : q.kind # "ping" /\ q.to \in Peers} :
    Copies(r.msg, r.to) <= 1 /\ (r.ok => r.msg \in Range(got[r.to]))

(* A subscription answered ok stands until its peer is unsubscribed, when   *)
(* no other subscribe or unsubscribe of the topic was under way as it was   *)
(* written (13598-13602); an overlapping one may drop the topic with it.    *)
SubscriptionsStand ==
  \A s \in standing : home[s[1]] # 0 /\ s[2] \in members[home[s[1]]]

(* A pong that arrives before the handler begins to wait is not lost: the   *)
(* future is registered before the ping is sent (12905-12911).              *)
EarlyPongCounts ==
  \A r \in reports : r.msg.req \in early => r.ok
===============================================================================
