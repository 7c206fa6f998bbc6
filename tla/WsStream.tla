-------------------------------- MODULE WsStream --------------------------------
(* The ends of an event of acp_relay.py that EventStream leaves out: the    *)
(* clients of GET /ws/stream and the push webhooks.  An event is numbered   *)
(* under one lock and logged under another, then sent over every client's   *)
(* socket by the thread that broadcasts it, then handed to one thread per   *)
(* webhook.  A client's own thread registers it, replays what it missed and *)
(* answers its pings.                                                       *)
(*                                                                          *)
(* A frame goes out in two writes (sendall); _WsStreamClient has a lock     *)
(* that keeps them together.                                                *)
EXTENDS Integers, FiniteSets, Picking, SequencesExt

CONSTANTS
  Clients,       \* connections of /ws/stream
  Publishers,    \* threads that broadcast events
  Urls,          \* webhook URLs
  Registrars,    \* threads that register webhooks
  Sinces,        \* since_seq of a connection; Never: none is given
  Never,
  Free,          \* no one holds the lock of a client
  LogMax,        \* _EVENT_LOG_MAX
  MaxEvents,     \* bound on events
  MaxHookCalls   \* bound on calls that register or deregister webhooks

VARIABLES
  log,           \* _event_log: the seqs, in the order they were appended
  seqno,         \* _sse_seq
  clients,       \* _ws_stream_clients
  cl,            \* threads of the connections
  wire,          \* what went out on each socket
  broken,        \* network: sockets that fail
  lock,          \* the lock of each client
  pub,           \* threads that broadcast
  hooks,         \* _push_webhooks
  reg,           \* threads in POST /webhooks/register
  hookCalls,     \* calls made so far
  jobs,          \* _deliver_push threads: [ev, url, at], at the place in the list
  pushed,        \* history: the pushes that were delivered
  ponged,        \* history: clients that were sent a pong
  raced,         \* history: URLs two calls registered at once
  off            \* history: URLs deregistered and not registered since

clientVars == <<clients, cl, wire, broken, lock, ponged>>
hookVars == <<hooks, reg, hookCalls, jobs, pushed, raced, off>>
vars == <<log, seqno, clientVars, pub, hookVars>>

NoOne == [pc |-> "none", since |-> Never, todo |-> <<>>, half |-> 1, lost |-> {}, closed |-> FALSE]
IdlePub == [pc |-> "idle", ev |-> 0, todo |-> {}, to |-> Free, half |-> 1, dead |-> {}]

Init ==
  /\ log = <<>> /\ seqno = 0
  /\ clients = {}
  /\ cl = [c \in Clients |-> NoOne]
  /\ wire = [c \in Clients |-> <<>>]
  /\ broken = {}
  /\ lock = [c \in Clients |-> Free]
  /\ pub = [p \in Publishers |-> IdlePub]
  /\ hooks = <<>>
  /\ reg = [r \in Registrars |-> Free]
  /\ hookCalls = 0
  /\ jobs = {} /\ pushed = {}
  /\ ponged = {} /\ raced = {} /\ off = {}

(* ------------------------------- sockets -------------------------------- *)

(* Mutant: a send does not wait for the lock.                               *)
CanLock_NoWait(a, c) == TRUE

CanLock(a, c) == lock[c] \in {Free, a}

(* Half a frame: the first takes the lock, the second releases it; a write  *)
(* on a broken socket closes the client (send swallows the exception).      *)
WriteHalf(a, c, ev, half) ==
  /\ CanLock(a, c)
  /\ IF c \in broken
       THEN lock' = [lock EXCEPT ![c] = Free] /\ UNCHANGED wire
       ELSE /\ wire' = [wire EXCEPT ![c] = Append(@, [by |-> a, ev |-> ev, half |-> half])]
            /\ lock' = [lock EXCEPT ![c] = IF half = 1 THEN a ELSE Free]

Break(c) ==
  /\ cl[c].pc # "none" /\ c \notin broken
  /\ broken' = broken \cup {c}
  /\ UNCHANGED <<log, seqno, clients, cl, wire, lock, ponged, pub, hookVars>>

(* ------------------------- the client's thread -------------------------- *)

(* Handshake and registration, before anything is replayed.                 *)
Join(c) ==
  /\ cl[c].pc = "none" /\ c \notin broken
  /\ \E s \in Sinces : cl' = [cl EXCEPT ![c] = [NoOne EXCEPT !.pc = IF s = Never THEN "loop" ELSE "replay", !.since = s]]
  /\ clients' = clients \cup {c}
  /\ UNCHANGED <<log, seqno, wire, broken, lock, ponged, pub, hookVars>>

(* Events that are not in the log any more.                                 *)
Trimmed == {e \in 1 .. seqno : e \notin ToSet(log) /\ \A p \in Publishers : pub[p].pc = "log" => pub[p].ev # e}

(* Mutant: the log is cut at the index since.                               *)
Snapshot_Slice(c) ==
  /\ cl[c].pc = "replay"
  /\ cl' = [cl EXCEPT ![c].pc = "send", ![c].todo = SubSeq(log, cl[c].since + 1, Len(log)), ![c].lost = Trimmed]
  /\ UNCHANGED <<log, seqno, clients, wire, broken, lock, ponged, pub, hookVars>>

(* What the log holds of later numbers; lost: what it held no longer.       *)
Snapshot(c) ==
  /\ cl[c].pc = "replay"
  /\ cl' = [cl EXCEPT ![c].pc = "send", ![c].todo = Pick(log, cl[c].since + 1 .. seqno), ![c].lost = Trimmed]
  /\ UNCHANGED <<log, seqno, clients, wire, broken, lock, ponged, pub, hookVars>>

(* client.send of the replayed events, one by one; nothing is sent once the *)
(* client is closed.                                                        *)
Replay(c) ==
  /\ cl[c].pc = "send"
  /\ IF cl[c].todo = <<>> \/ (cl[c].closed /\ cl[c].half = 1)
       THEN cl' = [cl EXCEPT ![c].pc = "loop"] /\ UNCHANGED <<wire, lock>>
       ELSE LET h == cl[c].half IN
            /\ WriteHalf(c, c, Head(cl[c].todo), h)
            /\ cl' = [cl EXCEPT ![c].half = IF c \in broken THEN 1 ELSE 3 - h,
                                ![c].closed = @ \/ c \in broken,
                                ![c].todo = IF h = 2 \/ c \in broken THEN Tail(@) ELSE @]
  /\ UNCHANGED <<log, seqno, clients, broken, ponged, pub, hookVars>>

(* A ping of the client is answered on the raw socket, without the lock.    *)
AnswerPing(c) ==
  /\ cl[c].pc = "loop" /\ ~cl[c].closed /\ c \notin broken /\ c \notin ponged
  /\ wire' = [wire EXCEPT ![c] = Append(@, [by |-> c, ev |-> 0, half |-> 0])]
  /\ ponged' = ponged \cup {c}
  /\ UNCHANGED <<log, seqno, clients, cl, broken, lock, pub, hookVars>>

(* A close frame, an error of the socket, or the client was closed by a     *)
(* failed send: close and discard.                                          *)
Leave(c) ==
  /\ cl[c].pc = "loop"
  /\ cl' = [cl EXCEPT ![c].pc = "gone", ![c].closed = TRUE]
  /\ clients' = clients \ {c}
  /\ UNCHANGED <<log, seqno, wire, broken, lock, ponged, pub, hookVars>>

(* ------------------------------ broadcasts ------------------------------ *)

(* The number is taken under _sse_seq_lock,                                 *)
Publish(p) ==
  /\ pub[p].pc = "idle" /\ seqno < MaxEvents
  /\ seqno' = seqno + 1
  /\ pub' = [pub EXCEPT ![p] = [IdlePub EXCEPT !.pc = "log", !.ev = seqno + 1]]
  /\ UNCHANGED <<log, clientVars, hookVars>>

(* Mutant: the log is cut only when it is longer than its bound.            *)
AppendLog_CutLate(p) ==
  /\ pub[p].pc = "log"
  /\ log' = LET all == Append(log, pub[p].ev) IN IF Len(log) > LogMax THEN Tail(all) ELSE all
  /\ pub' = [pub EXCEPT ![p].pc = "list"]
  /\ UNCHANGED <<seqno, clientVars, hookVars>>

(* the event logged under _event_log_lock, perhaps after one with a higher  *)
(* number (the queues of the SSE streams are EventStream's).                *)
AppendLog(p) ==
  /\ pub[p].pc = "log"
  /\ log' = LET all == Append(log, pub[p].ev) IN IF Len(all) > LogMax THEN Tail(all) ELSE all
  /\ pub' = [pub EXCEPT ![p].pc = "list"]
  /\ UNCHANGED <<seqno, clientVars, hookVars>>

(* The clients are copied under their lock, and sent to without it.         *)
List(p) ==
  /\ pub[p].pc = "list"
  /\ pub' = [pub EXCEPT ![p].pc = "ws", ![p].todo = clients]
  /\ UNCHANGED <<log, seqno, clientVars, hookVars>>

SendWs(p) ==
  /\ pub[p].pc = "ws" /\ pub[p].todo # {}
  /\ \E c \in (IF pub[p].to = Free THEN pub[p].todo ELSE {pub[p].to}) :
       LET h == pub[p].half
           ends == cl[c].closed \/ c \in broken \/ h = 2
       IN /\ IF cl[c].closed /\ h = 1
               THEN UNCHANGED <<wire, lock, cl>>
               ELSE /\ WriteHalf(p, c, pub[p].ev, h)
                    /\ cl' = [cl EXCEPT ![c].closed = @ \/ c \in broken]
          /\ pub' = [pub EXCEPT ![p].half = IF ends THEN 1 ELSE 2,
                                ![p].to = IF ends THEN Free ELSE c,
                                ![p].todo = IF ends THEN @ \ {c} ELSE @,
                                ![p].dead = IF cl[c].closed \/ c \in broken THEN @ \cup {c} ELSE @]
  /\ UNCHANGED <<log, seqno, clients, broken, ponged, hookVars>>

(* The closed ones are dropped; then one thread for each webhook.           *)
EndWs(p) ==
  /\ pub[p].pc = "ws" /\ pub[p].todo = {}
  /\ clients' = clients \ pub[p].dead
  /\ jobs' = jobs \cup {[ev |-> pub[p].ev, url |-> hooks[i], at |-> i] : i \in DOMAIN hooks}
  /\ pub' = [pub EXCEPT ![p] = IdlePub]
  /\ UNCHANGED <<log, seqno, cl, wire, broken, lock, ponged, hooks, reg, hookCalls, pushed, raced, off>>

(* ------------------------------- webhooks ------------------------------- *)

(* _deliver_push tries once; an error is logged.                            *)
Deliver(j) ==
  /\ jobs' = jobs \ {j}
  /\ pushed' \in {pushed, pushed \cup {j}}
  /\ UNCHANGED <<log, seqno, clientVars, pub, hooks, reg, hookCalls, raced, off>>

(* Mutant: a URL is registered again without a look.                        *)
LookHook_Never(r, u) ==
  /\ reg[r] = Free /\ hookCalls < MaxHookCalls
  /\ hookCalls' = hookCalls + 1
  /\ reg' = [reg EXCEPT ![r] = u]
  /\ raced' = IF u \in Range(reg) THEN raced \cup {u} ELSE raced
  /\ UNCHANGED <<log, seqno, clientVars, pub, hooks, jobs, pushed, off>>

(* POST /webhooks/register: "not in", then append.                          *)
LookHook(r, u) ==
  /\ reg[r] = Free /\ hookCalls < MaxHookCalls
  /\ hookCalls' = hookCalls + 1
  /\ IF u \in Range(hooks)
       THEN UNCHANGED <<reg, raced>>
       ELSE /\ reg' = [reg EXCEPT ![r] = u]
            /\ raced' = IF u \in Range(reg) THEN raced \cup {u} ELSE raced
  /\ UNCHANGED <<log, seqno, clientVars, pub, hooks, jobs, pushed, off>>

AddHook(r) ==
  /\ reg[r] # Free
  /\ hooks' = Append(hooks, reg[r])
  /\ reg' = [reg EXCEPT ![r] = Free]
  /\ off' = off \ {reg[r]}
  /\ UNCHANGED <<log, seqno, clientVars, pub, hookCalls, jobs, pushed, raced>>

(* POST /webhooks/deregister removes the first of them.                     *)
DropHook(u) ==
  /\ u \in Range(hooks) /\ hookCalls < MaxHookCalls
  /\ hookCalls' = hookCalls + 1
  /\ hooks' = RemoveFirst(hooks, u)
  /\ off' = off \cup {u}
  /\ UNCHANGED <<log, seqno, clientVars, pub, reg, jobs, pushed, raced>>

Next ==
  \/ \E c \in Clients : Join(c) \/ Snapshot(c) \/ Replay(c) \/ AnswerPing(c) \/ Leave(c) \/ Break(c)
  \/ \E p \in Publishers : Publish(p) \/ AppendLog(p) \/ List(p) \/ SendWs(p) \/ EndWs(p)
  \/ \E r \in Registrars : AddHook(r) \/ \E u \in Urls : LookHook(r, u)
  \/ \E u \in Urls : DropHook(u)
  \/ \E j \in jobs : Deliver(j)

Spec == Init /\ [][Next]_vars

(* ------------------------------ properties ------------------------------ *)

(* Types; the log is bounded; a lock is held by one who is writing.         *)
TypeOK ==
  /\ Len(log) <= LogMax /\ seqno \in 0..MaxEvents
  /\ clients \subseteq Clients
  /\ \A c \in Clients :
       /\ cl[c].since \in Sinces \cup {Never}
       /\ lock[c] \in Publishers => pub[lock[c]].to = c
       /\ lock[c] \in Clients => lock[c] = c /\ cl[c].half = 2
  /\ reg \in [Registrars -> Urls \cup {Free}]

(* Two broadcasts and a replay never mix the bytes of their frames on one   *)
(* socket (lock of _WsStreamClient, 4152-4163); only a pong, which does not *)
(* take the lock (4312-4316), can fall into one.                            *)
FramesStayWhole ==
  \A c \in Clients \ ponged : \A i \in DOMAIN wire[c] :
    wire[c][i].half = 1 /\ i < Len(wire[c]) => wire[c][i + 1] = [wire[c][i] EXCEPT !.half = 2]

Reached(c) == {wire[c][i].ev : i \in DOMAIN wire[c]}

(* A client that joins with since=<seq> misses none of the events with      *)
(* later numbers but those the log had lost when it was read: the client is *)
(* registered before, so an event that is not replayed is sent to it live   *)
(* (4283-4292).  An event with an earlier number that is logged after that, *)
(* for number and log are two steps (4016-4024), is not among them.         *)
ReconnectMissesNone ==
  \A c \in Clients :
    /\ cl[c].pc = "loop" /\ cl[c].since # Never /\ ~cl[c].closed /\ c \notin broken
    /\ \A p \in Publishers : pub[p].pc = "idle"
    => \A e \in 1..seqno \ cl[c].lost : e > cl[c].since => e \in Reached(c)

(* A webhook gets an event once, and none when it is deregistered, unless   *)
(* two calls registered it at the same time: the second entry then stays    *)
(* (14284-14285, 14304-14305).                                              *)
OnePushPerHook ==
  /\ \A u \in off \ raced : u \notin Range(hooks)
  /\ \A i, j \in jobs \cup pushed : i.ev = j.ev /\ i.url = j.url /\ i.url \notin raced => i = j
===============================================================================
