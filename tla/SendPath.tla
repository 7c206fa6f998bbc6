------------------------------- MODULE SendPath -------------------------------
(***************************************************************************)
(* A message from the HTTP client of one relay to the inbox of another     *)
(* (src/relay/acp_relay.py): POST /message:send and /peer/{id}/send with   *)
(* their 30 s deduplication of client-supplied ids, sync and require_ack   *)
(* waiting, the two relays' WebSocket handler _on_message with its own     *)
(* deduplication in the same table, acp.ack and acp.reply on the way back. *)
(*                                                                         *)
(* Two relays are joined by one connection, which delivers in order and    *)
(* loses what is on its way when it breaks.  Every HTTP request has a      *)
(* thread; _on_message runs on the event loop of its relay and is atomic   *)
(* for other coroutines, not for the threads.  Offline messages are        *)
(* flushed in one step here: OfflineQueue looks into that.                 *)
(* Time is the number of requests that looked up an id so far; entries up  *)
(* to "expired" are older than the window.                                 *)
(***************************************************************************)
EXTENDS Naturals, Sequences, FiniteSets, SequencesExt, Picking

CONSTANTS
  Threads,     (* HTTP threads, one per client                              *)
  Ids,         (* message ids the clients supply                            *)
  Home,        (* the relay each thread belongs to                          *)
  Uses,        (* the ids each client sends, again after an answer          *)
  Modes,       (* the kinds of requests each client makes                   *)
  SeenMax,     (* _SEEN_MAX                                                 *)
  MaxReqs,     (* bound: requests in a run                                  *)
  MaxExpire,   (* bound: times the window moves in a run                    *)
  MaxBreaks    (* bound: breaks of the connection in a run                  *)

Relays == {1, 2}
Other(r) == 3 - r
AllModes == {"send", "ack", "sync", "peer", "peer_ack"}
ViaPeer(mode) == mode \in {"peer", "peer_ack"}
WantsAck(mode) == mode \in {"ack", "peer_ack"}

ASSUME SendAssumption ==
  /\ Home \in [Threads -> Relays]
  /\ Uses \in [Threads -> SUBSET Ids]
  /\ \A t, u \in Threads : t # u => Uses[t] \cap Uses[u] = {}
  /\ Modes \in [Threads -> SUBSET AllModes]
  /\ SeenMax \in Nat \ {0}
  /\ {MaxReqs, MaxExpire, MaxBreaks} \subseteq Nat

VARIABLES
  seen,      (* _seen_message_ids: entries in insertion order               *)
  number,    (* _status["server_seq"]                                       *)
  pc,        (* where each HTTP thread is                                   *)
  req,       (* its locals                                                  *)
  ws,        (* the connection as each relay sees it: up, broken, none      *)
  wire,      (* frames on their way to each relay                           *)
  offline,   (* the offline queue of each relay                             *)
  inbox,     (* history: ids in the order _recv_queue got them              *)
  ackOf,     (* _pending_acks: none, unset, set                             *)
  replyOf,   (* _sync_pending and its futures: none, unset, set             *)
  clock,     (* requests that looked up an id                               *)
  expired,   (* entries made up to here are older than the window           *)
  moves,     (* counts moves of the window                                  *)
  broke,     (* counts breaks                                               *)
  admits,    (* history: ids let through by _http_dedup_check               *)
  sent,      (* history: ids and numbers a socket has taken                 *)
  answers,   (* history: what clients were told                             *)
  forgot     (* history: per relay, ids removed from seen before their time *)

table == <<seen, forgot>>
net == <<ws, wire, offline, broke>>
time == <<expired, moves>>
waiters == <<ackOf, replyOf>>
past == <<admits, sent, answers>>
vars == <<table, number, pc, req, net, inbox, waiters, clock, time, past>>

(* at = 0: made by _check_and_record_message_id, which sets no wall_ts.     *)
(* seq = 0: server_seq is None.                                             *)
Entry == [id : Ids, at : 0 .. MaxReqs, seq : 0 .. MaxReqs]
Frame == [kind : {"msg", "ack", "reply"}, id : Ids]
NoReq == [id |-> "", mode |-> "", at |-> 0, old |-> 0, size |-> 0, drop |-> <<>>, seq |-> 0]
Places == {"idle", "scan", "evict", "check", "send", "record", "register", "wait", "await"}

(* Types; no id is twice in a table; and the Events in _pending_acks are    *)
(* those of the requests that wait, so none is left behind.                 *)
TypeOK ==
  /\ seen \in [Relays -> Seq(Entry)]
  /\ \A r \in Relays : \A i, j \in DOMAIN seen[r] : seen[r][i].id = seen[r][j].id => i = j
  /\ number \in [Relays -> 0 .. MaxReqs]
  /\ pc \in [Threads -> Places]
  /\ \A t \in Threads : pc[t] # "idle" =>
       /\ req[t].id \in Uses[t] /\ req[t].mode \in Modes[t]
       /\ req[t].at \in 1 .. clock /\ req[t].drop \in Seq(Ids)
  /\ ws \in [Relays -> {"up", "broken", "none"}]
  /\ wire \in [Relays -> Seq(Frame)]
  /\ offline \in [Relays -> Seq(Frame)]
  /\ inbox \in [Relays -> Seq(Ids)]
  /\ {ackOf, replyOf} \subseteq [Ids -> {"none", "unset", "set"}]
  /\ \A i \in Ids : ackOf[i] # "none" <=> \E t \in Threads : pc[t] = "wait" /\ req[t].id = i
  /\ clock \in 0 .. MaxReqs /\ expired \in 0 .. clock
  /\ forgot \in [Relays -> SUBSET Ids]

Init ==
  /\ seen = [r \in Relays |-> <<>>]
  /\ number = [r \in Relays |-> 0]
  /\ pc = [t \in Threads |-> "idle"]
  /\ req = [t \in Threads |-> NoReq]
  /\ ws = [r \in Relays |-> "up"]
  /\ wire = [r \in Relays |-> <<>>]
  /\ offline = [r \in Relays |-> <<>>]
  /\ inbox = [r \in Relays |-> <<>>]
  /\ ackOf = [i \in Ids |-> "none"]
  /\ replyOf = [i \in Ids |-> "none"]
  /\ clock = 0 /\ expired = 0 /\ moves = 0 /\ broke = 0
  /\ admits = {} /\ sent = {} /\ answers = {}
  /\ forgot = [r \in Relays |-> {}]

(* A thread goes on, or is done with its request.                           *)
Goto(t, place) == pc' = [pc EXCEPT ![t] = place] /\ UNCHANGED req
Done(t) == pc' = [pc EXCEPT ![t] = "idle"] /\ req' = [req EXCEPT ![t] = NoReq]
Answer(id, kind, seq) == answers' = answers \cup {[id |-> id, kind |-> kind, seq |-> seq]}

-----------------------------------------------------------------------------
(* The table of ids.                                                        *)

Has(s, id) == \E i \in DOMAIN s : s[i].id = id
Of(s, id) == s[CHOOSE i \in DOMAIN s : s[i].id = id]
Del(s, id) == Pick(s, {e \in Entry : e.id # id})

(* Assignment to a key keeps its place in a dict.                           *)
Put(s, e) == IF Has(s, e.id)
             THEN [i \in DOMAIN s |-> IF s[i].id = e.id THEN e ELSE s[i]]
             ELSE Append(s, e)

(* Mutant: popitem() without last=False, the newest insertion is forgotten. *)
Capped_Newest(s) == IF Len(s) > SeenMax THEN Front(s) ELSE s

(* What the cap forgets: the oldest insertion.                              *)
Capped(s) == IF Len(s) > SeenMax THEN Tail(s) ELSE s
Lost(s) == IF Len(s) > SeenMax THEN {Head(s).id} ELSE {}

(* Mutant: an entry counts as expired once a later request came.            *)
IsExpired_Early(e, old, now) == e.at < now

(* Older than the window, for a request that found the window at old.       *)
IsExpired(e, old, now) == e.at <= old

-----------------------------------------------------------------------------
(* HTTP requests.                                                           *)

(* A request with a client-supplied id, up to the lookup in                 *)
(* _http_dedup_check.  /peer/{id}/send refuses first when the peer is gone. *)
Request(t, id, mode) ==
  LET r == Home[t]
      dup == Has(seen[r], id) /\ ~IsExpired(Of(seen[r], id), expired, clock + 1)
  IN /\ pc[t] = "idle" /\ id \in Uses[t] /\ clock < MaxReqs
     /\ ViaPeer(mode) => ws[r] # "none"
     /\ clock' = clock + 1
     /\ IF dup
        THEN /\ Answer(id, "dup", Of(seen[r], id).seq)
             /\ UNCHANGED <<pc, req>>
        ELSE /\ pc' = [pc EXCEPT ![t] = "scan"]
             /\ req' = [req EXCEPT ![t] = [id |-> id, mode |-> mode, at |-> clock + 1,
                          old |-> expired, size |-> Len(seen[r]), drop |-> <<>>, seq |-> 0]]
             /\ UNCHANGED answers
     /\ UNCHANGED <<table, number, net, inbox, waiters, time, admits, sent>>

(* The list of expired ids is complete.  If the event loop has changed the  *)
(* size of the table since the lookup, it may have done so while the list   *)
(* was made (RuntimeError, answered 500).                                   *)
Scan(t) ==
  LET s == seen[Home[t]]
      dead == Pick(s, {e \in Entry : IsExpired(e, req[t].old, req[t].at)})
  IN /\ pc[t] = "scan"
     /\ \/ /\ pc' = [pc EXCEPT ![t] = "evict"]
           /\ req' = [req EXCEPT ![t].drop = [i \in DOMAIN dead |-> dead[i].id]]
        \/ Len(s) # req[t].size /\ Done(t)
     /\ UNCHANGED <<table, number, net, inbox, waiters, clock, time, past>>

(* One of them is deleted (KeyError, answered 500, if it is gone).          *)
Evict(t) ==
  LET r == Home[t]
      id == Head(req[t].drop)
  IN /\ pc[t] = "evict" /\ req[t].drop # <<>>
     /\ IF Has(seen[r], id)
        THEN /\ seen' = [seen EXCEPT ![r] = Del(@, id)]
             /\ forgot' = [forgot EXCEPT ![r] = IF Of(seen[r], id).at = 0 THEN @ \cup {id} ELSE @]
             /\ req' = [req EXCEPT ![t].drop = Tail(@)]
             /\ UNCHANGED pc
        ELSE Done(t) /\ UNCHANGED table
     /\ UNCHANGED <<number, net, inbox, waiters, clock, time, past>>

(* Then the cap, and the new entry.                                         *)
Record(t) ==
  LET r == Home[t]
      s == Capped(seen[r])
      e == [id |-> req[t].id, at |-> req[t].at, seq |-> 0]
  IN /\ pc[t] = "evict" /\ req[t].drop = <<>>
     /\ seen' = [seen EXCEPT ![r] = Put(s, e)]
     /\ forgot' = [forgot EXCEPT ![r] = @ \cup Lost(seen[r])]
     /\ admits' = admits \cup {[id |-> e.id, at |-> e.at, old |-> req[t].old]}
     /\ Goto(t, "check")
     /\ UNCHANGED <<number, net, inbox, waiters, clock, time, sent, answers>>

(* The checks after it may still refuse the request (400, or 413 with a     *)
(* number taken); the entry stays.                                          *)
Refuse(t) ==
  /\ pc[t] = "check"
  /\ Done(t)
  /\ number' \in {number, [number EXCEPT ![Home[t]] = @ + 1]}
  /\ UNCHANGED <<table, net, inbox, waiters, clock, time, past>>

(* Otherwise it gets its number, and sync registers its future.             *)
Accept(t) ==
  LET r == Home[t]
  IN /\ pc[t] = "check"
     /\ number' = [number EXCEPT ![r] = @ + 1]
     /\ req' = [req EXCEPT ![t].seq = number[r] + 1]
     /\ replyOf' = IF req[t].mode = "sync" THEN [replyOf EXCEPT ![req[t].id] = "unset"] ELSE replyOf
     /\ pc' = [pc EXCEPT ![t] = "send"]
     /\ UNCHANGED <<table, net, inbox, ackOf, clock, time, past>>

(* Mutant: the number is cached before the message is sent.                 *)
Send_Cached(t) ==
  LET r == Home[t]
      id == req[t].id
      m == [kind |-> "msg", id |-> id]
  IN /\ pc[t] = "send"
     /\ seen' = [seen EXCEPT ![r] = IF Has(@, id) THEN Put(@, [Of(@, id) EXCEPT !.seq = req[t].seq]) ELSE @]
     /\ IF ws[r] = "up"
        THEN /\ wire' = [wire EXCEPT ![Other(r)] = Append(@, m)]
             /\ sent' = sent \cup {<<id, req[t].seq>>}
             /\ Goto(t, IF req[t].mode = "sync" THEN "await" ELSE "record")
             /\ UNCHANGED <<offline, ws>>
        ELSE /\ ws' = [ws EXCEPT ![r] = IF ViaPeer(req[t].mode) THEN "none" ELSE @]
             /\ offline' = IF ws[r] = "none" /\ ~ViaPeer(req[t].mode)
                           THEN [offline EXCEPT ![r] = Append(@, m)] ELSE offline
             /\ Done(t)
             /\ UNCHANGED <<wire, sent>>
     /\ UNCHANGED <<forgot, number, broke, inbox, waiters, clock, time, admits, answers>>

(* The frame is handed to the socket.  Without a connection _ws_send queues *)
(* it (503); on a broken one ws.send raises (500), /peer/{id}/send          *)
(* unregisters the peer (503).  A future that was registered stays behind.  *)
Send(t) ==
  LET r == Home[t]
      m == [kind |-> "msg", id |-> req[t].id]
  IN /\ pc[t] = "send"
     /\ IF ws[r] = "up"
        THEN /\ wire' = [wire EXCEPT ![Other(r)] = Append(@, m)]
             /\ sent' = sent \cup {<<req[t].id, req[t].seq>>}
             /\ Goto(t, IF req[t].mode = "sync" THEN "await" ELSE "record")
             /\ UNCHANGED <<offline, ws>>
        ELSE /\ ws' = [ws EXCEPT ![r] = IF ViaPeer(req[t].mode) THEN "none" ELSE @]
             /\ offline' = IF ws[r] = "none" /\ ~ViaPeer(req[t].mode)
                           THEN [offline EXCEPT ![r] = Append(@, m)] ELSE offline
             /\ Done(t)
             /\ UNCHANGED <<wire, sent>>
     /\ UNCHANGED <<table, number, broke, inbox, waiters, clock, time, admits, answers>>

(* _http_dedup_record_seq, if the entry is still there.                     *)
RecordSeq(t) ==
  LET r == Home[t]
      id == req[t].id
  IN /\ pc[t] = "record"
     /\ seen' = [seen EXCEPT ![r] =
          IF Has(@, id) THEN Put(@, [Of(@, id) EXCEPT !.seq = req[t].seq]) ELSE @]
     /\ IF WantsAck(req[t].mode) THEN Goto(t, "register") ELSE Done(t)
     /\ UNCHANGED <<forgot, number, net, inbox, waiters, clock, time, past>>

(* require_ack: the Event is registered, after the send, and waited for.    *)
Register(t) ==
  /\ pc[t] = "register"
  /\ ackOf' = [ackOf EXCEPT ![req[t].id] = "unset"]
  /\ Goto(t, "wait")
  /\ UNCHANGED <<table, number, net, inbox, replyOf, clock, time, past>>

(* Mutant: a wait that timed out is answered as if it was acknowledged.     *)
Acked_Always(t) ==
  LET id == req[t].id
  IN /\ pc[t] = "wait"
     /\ ackOf' = [ackOf EXCEPT ![id] = "none"]
     /\ Answer(id, "acked", req[t].seq)
     /\ Done(t)
     /\ UNCHANGED <<table, number, net, inbox, replyOf, clock, time, admits, sent>>

Acked(t) ==
  LET id == req[t].id
  IN /\ pc[t] = "wait" /\ ackOf[id] = "set"
     /\ ackOf' = [ackOf EXCEPT ![id] = "none"]
     /\ Answer(id, "acked", req[t].seq)
     /\ Done(t)
     /\ UNCHANGED <<table, number, net, inbox, replyOf, clock, time, admits, sent>>

(* sync: the future has the reply.                                          *)
Replied(t) ==
  LET id == req[t].id
  IN /\ pc[t] = "await" /\ replyOf[id] = "set"
     /\ replyOf' = [replyOf EXCEPT ![id] = "none"]
     /\ Answer(id, "replied", req[t].seq)
     /\ Done(t)
     /\ UNCHANGED <<table, number, net, inbox, ackOf, clock, time, admits, sent>>

(* Mutant: without the finally clause.                                      *)
TimeOut_NotRemoved(t) ==
  LET id == req[t].id
  IN /\ \/ pc[t] = "wait" /\ ackOf[id] = "unset" /\ UNCHANGED waiters
        \/ pc[t] = "await" /\ replyOf[id] = "unset" /\ replyOf' = [replyOf EXCEPT ![id] = "none"]
           /\ UNCHANGED ackOf
     /\ Done(t)
     /\ UNCHANGED <<table, number, net, inbox, clock, time, past>>

(* Either wait times out (408).                                             *)
TimeOut(t) ==
  LET id == req[t].id
  IN /\ \/ pc[t] = "wait" /\ ackOf[id] = "unset" /\ ackOf' = [ackOf EXCEPT ![id] = "none"]
           /\ UNCHANGED replyOf
        \/ pc[t] = "await" /\ replyOf[id] = "unset" /\ replyOf' = [replyOf EXCEPT ![id] = "none"]
           /\ UNCHANGED ackOf
     /\ Done(t)
     /\ UNCHANGED <<table, number, net, inbox, clock, time, past>>

-----------------------------------------------------------------------------
(* The event loop of relay r: one frame of the connection.                  *)

Incoming(r, kind) == ws[r] = "up" /\ wire[r] # <<>> /\ Head(wire[r]).kind = kind
Back(r, kind, id) == wire' = [wire EXCEPT ![r] = Tail(@), ![Other(r)] = Append(@, [kind |-> kind, id |-> id])]

(* Mutant: an entry without wall_ts counts as expired here, too.            *)
ReceiveMsg_Window(r) ==
  LET id == Head(wire[r]).id
      s == Put(seen[r], [id |-> id, at |-> 0, seq |-> 0])
  IN /\ Incoming(r, "msg")
     /\ inbox' = [inbox EXCEPT ![r] = Append(@, id)]
     /\ seen' = [seen EXCEPT ![r] = Capped(s)]
     /\ forgot' = [forgot EXCEPT ![r] = @ \cup Lost(s)]
     /\ Back(r, "ack", id)
     /\ UNCHANGED <<number, pc, req, ws, offline, broke, waiters, clock, time, past>>

(* A business message: dropped without an ack if its id is known, otherwise *)
(* stored, and acknowledged if a socket is found for the name it comes from *)
(* (_ws_ctx, meant as a fallback, is never assigned).                       *)
ReceiveMsg(r) ==
  LET id == Head(wire[r]).id
      s == Append(seen[r], [id |-> id, at |-> 0, seq |-> 0])
  IN /\ Incoming(r, "msg")
     /\ IF Has(seen[r], id)
        THEN /\ wire' = [wire EXCEPT ![r] = Tail(@)]
             /\ UNCHANGED <<table, inbox>>
        ELSE /\ inbox' = [inbox EXCEPT ![r] = Append(@, id)]
             /\ seen' = [seen EXCEPT ![r] = Capped(s)]
             /\ forgot' = [forgot EXCEPT ![r] = @ \cup Lost(s)]
             /\ Back(r, "ack", id) \/ wire' = [wire EXCEPT ![r] = Tail(@)]
     /\ UNCHANGED <<number, pc, req, ws, offline, broke, waiters, clock, time, past>>

(* acp.ack sets the Event of its id; without a waiter nothing happens.      *)
ReceiveAck(r) ==
  LET id == Head(wire[r]).id
  IN /\ Incoming(r, "ack")
     /\ wire' = [wire EXCEPT ![r] = Tail(@)]
     /\ ackOf' = [ackOf EXCEPT ![id] = IF @ = "none" THEN @ ELSE "set"]
     /\ UNCHANGED <<table, number, pc, req, ws, offline, broke, inbox, replyOf, clock, time,
                    admits, sent, answers>>

(* acp.reply takes the future out of _sync_pending and resolves it.         *)
ReceiveReply(r) ==
  LET id == Head(wire[r]).id
  IN /\ Incoming(r, "reply")
     /\ wire' = [wire EXCEPT ![r] = Tail(@)]
     /\ replyOf' = [replyOf EXCEPT ![id] = IF @ = "none" THEN @ ELSE "set"]
     /\ UNCHANGED <<table, number, pc, req, ws, offline, broke, inbox, ackOf, clock, time, past>>

(* The client of relay r answers its last message with POST /reply, in time *)
(* for who waits or late.  Without a connection the reply is queued (503).  *)
(* Bound: no second reply while one is under way, and none to messages that *)
(* nobody sends with sync, which would be dropped on arrival.               *)
Reply(r) ==
  LET f == [kind |-> "reply", id |-> Last(inbox[r])]
  IN /\ inbox[r] # <<>> /\ f \notin ToSet(wire[Other(r)]) \cup ToSet(offline[r])
     /\ \E t \in Threads : f.id \in Uses[t] /\ "sync" \in Modes[t]
     /\ \/ /\ ws[r] = "up"
           /\ wire' = [wire EXCEPT ![Other(r)] = Append(@, f)]
           /\ UNCHANGED offline
        \/ /\ ws[r] = "none"
           /\ offline' = [offline EXCEPT ![r] = Append(@, f)]
           /\ UNCHANGED wire
     /\ UNCHANGED <<table, number, pc, req, ws, broke, inbox, waiters, clock, time, past>>

-----------------------------------------------------------------------------
(* The connection and the clock.                                            *)

Break ==
  /\ \A r \in Relays : ws[r] = "up"
  /\ broke < MaxBreaks /\ broke' = broke + 1
  /\ ws' = [r \in Relays |-> "broken"]
  /\ wire' = [r \in Relays |-> <<>>]
  /\ UNCHANGED <<table, number, pc, req, offline, inbox, waiters, clock, time, past>>

(* The read loop of a relay finds the connection closed.                    *)
Notice(r) ==
  /\ ws[r] = "broken"
  /\ ws' = [ws EXCEPT ![r] = "none"]
  /\ UNCHANGED <<table, number, pc, req, wire, offline, broke, inbox, waiters, clock, time, past>>

(* A new connection: both relays flush what they queued.                    *)
Connect ==
  /\ \A r \in Relays : ws[r] = "none"
  /\ ws' = [r \in Relays |-> "up"]
  /\ wire' = [r \in Relays |-> offline[Other(r)]]
  /\ offline' = [r \in Relays |-> <<>>]
  /\ UNCHANGED <<table, number, pc, req, broke, inbox, waiters, clock, time, past>>

(* The deduplication window moves on.                                       *)
Expire ==
  /\ moves < MaxExpire /\ moves' = moves + 1
  /\ expired' \in expired + 1 .. clock
  /\ UNCHANGED <<table, number, pc, req, net, inbox, waiters, clock, past>>

Serve(t) == Scan(t) \/ Evict(t) \/ Record(t) \/ Refuse(t) \/ Accept(t) \/ Send(t)
            \/ RecordSeq(t) \/ Register(t) \/ Acked(t) \/ Replied(t) \/ TimeOut(t)

Next ==
  \/ \E t \in Threads : Serve(t) \/ \E id \in Uses[t], mode \in Modes[t] : Request(t, id, mode)
  \/ \E r \in Relays : ReceiveMsg(r) \/ ReceiveAck(r) \/ ReceiveReply(r) \/ Reply(r) \/ Notice(r)
  \/ Break \/ Connect \/ Expire

Spec == Init /\ [][Next]_vars

-----------------------------------------------------------------------------
(* Properties.                                                              *)

(* _http_dedup_check lets an id through at most once per window (30 s),     *)
(* unless the cap removed it, as long as one HTTP thread at a time uses the *)
(* table of a relay; its event loop may.                                    *)
AdmittedOncePerWindow ==
  \A x, y \in admits : x.id = y.id /\ x.at < y.at =>
    x.at <= y.old \/ \E t \in Threads : x.id \in Uses[t] /\ x.id \in forgot[Home[t]]

(* A deduplicated answer that carries a server_seq tells of a message a     *)
(* socket took under that number: the number is cached after the send       *)
(* (acp_relay.py:12256).  One without a number may tell of nothing.         *)
CachedSeqWasSent ==
  \A a \in answers : a.kind = "dup" /\ a.seq # 0 => <<a.id, a.seq>> \in sent

(* A client that is told its message was acknowledged or replied to has it  *)
(* in the other relay's inbox, over breaks, retries, late acks and the      *)
(* offline queue.                                                           *)
AckedIsStored ==
  \A a \in answers : a.kind \in {"acked", "replied"} =>
    \E t \in Threads : a.id \in Uses[t] /\ a.id \in ToSet(inbox[Other(Home[t])])

(* Two relays are two mailboxes: what is under way to one is what is on the *)
(* wire or waits in the other's offline queue, and what a sender was told   *)
(* is that it was acknowledged or replied to.                               *)
IdsOf(frames) == [i \in DOMAIN frames |-> frames[i].id]
Messages(frames) == IdsOf(Pick(frames, [kind : {"msg"}, id : Ids]))
Mail == INSTANCE Mailbox WITH
  Boxes <- Relays,
  transit <- [r \in Relays |-> Messages(wire[r]) \o Messages(offline[Other(r)])],
  box <- inbox,
  told <- {a.id : a \in {b \in answers : b.kind \in {"acked", "replied"}}},
  forgot <- forgot

(* The send path, with its deduplication, its retries, its broken           *)
(* connections and the offline queue, implements Mailbox: messages are      *)
(* stored in the order they were handed over, none is dropped on arrival    *)
(* that was not stored before, and none is stored twice unless forgotten.   *)
ImplementsMailbox == Mail!Spec

(* A client is told what happened: an id goes out once per window, the      *)
(* number of a deduplicated answer was sent, what was acknowledged or       *)
(* replied to is stored.                                                    *)
AnswersAreTrue == AdmittedOncePerWindow /\ CachedSeqWasSent /\ AckedIsStored

=============================================================================
