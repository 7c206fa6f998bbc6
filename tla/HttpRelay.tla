------------------------------ MODULE HttpRelay ------------------------------
(***************************************************************************)
(* The public HTTP relay (src/relay/acp_worker.js) and those who poll it:  *)
(* a relay process that fell back to it (_http_relay_guest of              *)
(* acp_relay.py) asks for what is newer than a time, other clients for     *)
(* what comes after an id.                                                 *)
(*                                                                         *)
(* The worker keeps a session per token in a key-value store.  A request   *)
(* gets the session, changes its copy and puts it back; then, after the    *)
(* answer, it does the same with the index of rooms.  Requests overlap at  *)
(* their awaits.  The store is taken to be linearizable.                   *)
(***************************************************************************)
EXTENDS Naturals, Sequences, FiniteSets, Functions, Picking

CONSTANTS
  Tokens, Ids,
  Slots,        (* requests that can be under way at the same time          *)
  Guests,       (* poll with since=                                         *)
  Cursors,      (* poll with after_id=                                      *)
  RoomOf,       (* the token each of them polls                             *)
  Nothing,      (* no session, no id                                        *)
  MsgLimit,     (* MSG_LIMIT                                                *)
  PageLimit,    (* the default limit of a poll                              *)
  MaxRooms,     (* MAX_ROOMS                                                *)
  MaxRequests,  (* bound: requests that change something, and expirations   *)
  MaxNow        (* bound: the clock                                         *)

VARIABLES
  kv,        (* the session under each token                                *)
  rooms,     (* the index: last_active of each token in it, 0 for the rest  *)
  req,       (* requests under way                                          *)
  now,
  since,     (* since of each guest                                         *)
  last,      (* last_id of each cursor                                      *)
  got,       (* history: what each poller was given                         *)
  requests,  (* requests so far; numbers the messages too                   *)
  kept,      (* history: messages acknowledged and not dropped on purpose   *)
  raced,     (* history: tokens of which two requests overlapped            *)
  mixed,     (* history: two requests overlapped at the index               *)
  lapped     (* history: cursors whose last_id was cut off and sent again   *)

store == <<kv, rooms>>
polls == <<since, last, got>>
history == <<kept, raced, mixed, lapped>>
vars == <<store, req, now, polls, requests, history>>

Readers == Guests \cup Cursors
Msg == [id : Ids \cup (1 .. MaxRequests), seq : 1 .. MaxRequests, ts : 1 .. MaxNow, n : 1 .. MaxRequests]
Sessions == [msgs : Seq(Msg), seq : 0 .. MaxRequests]
Empty == [msgs |-> <<>>, seq |-> 0]
NoIndex == [t \in Tokens |-> 0]
Idle == [at |-> "idle", op |-> "none", token |-> Nothing, id |-> Nothing, n |-> 0,
         copy |-> Nothing, index |-> NoIndex]
Numbers(msgs) == {msgs[i].n : i \in DOMAIN msgs}

TypeOK ==
  /\ \A t \in Tokens : kv[t] # Nothing => kv[t] \in Sessions /\ Len(kv[t].msgs) <= MsgLimit
  /\ rooms \in [Tokens -> 0 .. MaxNow]
  /\ Cardinality({t \in Tokens : rooms[t] # 0}) <= MaxRooms
  /\ \A r \in Slots : /\ req[r].at \in {"idle", "loaded", "touch", "index", "remove", "unindex"}
                      /\ req[r].copy = Nothing \/ req[r].copy \in Sessions
                      /\ req[r].index \in [Tokens -> 0 .. MaxNow]
  /\ now \in 1 .. MaxNow
  /\ since \in [Guests -> 0 .. MaxNow]
  /\ \A c \in Cursors : last[c] \in Ids \cup (1 .. MaxRequests) \cup {Nothing}
  /\ got \in [Readers -> Seq(Msg)]
  /\ kept \in [Tokens -> SUBSET (1 .. MaxRequests)]

(* POST /acp/new has made the sessions that are polled.                     *)
Init ==
  /\ LET made == {RoomOf[c] : c \in Readers}
     IN /\ kv = [t \in Tokens |-> IF t \in made THEN Empty ELSE Nothing]
        /\ rooms = [t \in Tokens |-> IF t \in made THEN 1 ELSE 0]
  /\ req = [r \in Slots |-> Idle]
  /\ now = 1 /\ requests = 0
  /\ since = [g \in Guests |-> 0] /\ last = [c \in Cursors |-> Nothing]
  /\ got = [c \in Readers |-> <<>>]
  /\ kept = [t \in Tokens |-> {}] /\ raced = {} /\ mixed = FALSE /\ lapped = {}

-----------------------------------------------------------------------------
(* Requests.                                                                *)

Others(r, t) == {s \in Slots \ {r} : req[s].at # "idle" /\ req[s].token = t}

(* A request gets the session; without one only POST /acp/new goes on.      *)
Arrive(r, op, t, i) ==
  /\ req[r].at = "idle" /\ requests < MaxRequests
  /\ op # "new" => kv[t] # Nothing
  /\ req' = [req EXCEPT ![r] = [Idle EXCEPT !.at = "loaded", !.op = op, !.token = t, !.id = i,
                                             !.n = requests + 1, !.copy = kv[t]]]
  /\ requests' = requests + 1
  /\ raced' = IF Others(r, t) # {} THEN raced \cup {t} ELSE raced
  /\ UNCHANGED <<store, now, polls, kept, mixed, lapped>>

New(r, t) == Arrive(r, "new", t, Nothing)
(* The relay makes the id of the message that tells of a join.              *)
Join(r, t) == Arrive(r, "join", t, requests + 1)
Send(r, t, i) == Arrive(r, "send", t, i)

(* Mutant: a session that is full takes no more.                            *)
Push_KeepOld(s, m) == [s EXCEPT !.seq = m.seq, !.msgs = IF Len(@) = MsgLimit THEN @ ELSE Append(@, m)]

(* The message is appended and the oldest one is cut off.                   *)
Push(s, m) == [s EXCEPT !.seq = m.seq,
                        !.msgs = IF Len(@) = MsgLimit THEN Append(Tail(@), m) ELSE Append(@, m)]

Put(r, s) ==
  /\ kv' = [kv EXCEPT ![req[r].token] = s]
  /\ req' = [req EXCEPT ![r].at = "touch", ![r].copy = Nothing]
  /\ UNCHANGED <<rooms, now, polls, requests, raced, mixed>>

(* POST /acp/new puts back the session there was, or an empty one.          *)
PutNew(r) ==
  /\ req[r].at = "loaded" /\ req[r].op = "new"
  /\ Put(r, IF req[r].copy = Nothing THEN Empty ELSE req[r].copy)
  /\ UNCHANGED <<kept, lapped>>

Deduped(r) ==
  req[r].op = "send" /\ \E j \in DOMAIN req[r].copy.msgs : req[r].copy.msgs[j].id = req[r].id

(* What drops out when a session is full.                                   *)
Cut(msgs) == IF Len(msgs) = MsgLimit THEN {msgs[1].n} ELSE {}

Store(r) ==
  LET q == req[r]
  IN /\ Put(r, Push(q.copy, [id |-> q.id, seq |-> q.copy.seq + 1, ts |-> now, n |-> q.n]))
     /\ kept' = [kept EXCEPT ![q.token] = (@ \cup {q.n}) \ Cut(q.copy.msgs)]
     /\ lapped' = lapped \cup {c \in Cursors : RoomOf[c] = q.token /\ last[c] = q.id}

(* Mutant: the relay does not look for the id.                              *)
PutMessage_NoDedup(r) == req[r].at = "loaded" /\ req[r].op # "new" /\ Store(r)

(* POST join and send: number, time stamp, append, put; the sender is told  *)
(* that the message is accepted.                                            *)
PutMessage(r) == req[r].at = "loaded" /\ req[r].op # "new" /\ ~Deduped(r) /\ Store(r)

(* A message whose id is among the last ones is answered ok, and not saved. *)
Dedup(r) ==
  /\ req[r].at = "loaded" /\ req[r].op = "send" /\ Deduped(r)
  /\ req' = [req EXCEPT ![r] = Idle]
  /\ UNCHANGED <<store, now, polls, requests, history>>

(* DELETE /acp/:token, of a session or of none.                             *)
Delete(r, t) ==
  /\ req[r].at = "idle" /\ requests < MaxRequests
  /\ kv' = [kv EXCEPT ![t] = Nothing]
  /\ kept' = [kept EXCEPT ![t] = {}]
  /\ req' = [req EXCEPT ![r] = [Idle EXCEPT !.at = "remove", !.op = "delete", !.token = t]]
  /\ requests' = requests + 1
  /\ raced' = IF Others(r, t) # {} THEN raced \cup {t} ELSE raced
  /\ UNCHANGED <<rooms, now, polls, mixed, lapped>>

-----------------------------------------------------------------------------
(* The index of rooms, after the answer (ctx.waitUntil).                    *)

LoadRooms(r) ==
  /\ req[r].at \in {"touch", "remove"}
  /\ req' = [req EXCEPT ![r].at = IF @ = "touch" THEN "index" ELSE "unindex", ![r].index = rooms]
  /\ mixed' = (mixed \/ \E s \in Slots : req[s].at \in {"index", "unindex"})
  /\ UNCHANGED <<store, now, polls, requests, kept, raced, lapped>>

InIndex(index) == {t \in Tokens : index[t] # 0}
Oldest(index, t) == {k \in InIndex(index) \ {t} : \A j \in InIndex(index) \ {t} : index[k] <= index[j]}

(* Mutant: nothing is evicted.                                              *)
TouchRoom_NoLimit(r) ==
  /\ req[r].at = "index"
  /\ rooms' = [req[r].index EXCEPT ![req[r].token] = now]
  /\ req' = [req EXCEPT ![r] = Idle]
  /\ UNCHANGED <<kv, now, polls, requests, history>>

(* Mutant: the index is saved as it was loaded.                             *)
TouchRoom_NoEntry(r) ==
  /\ req[r].at = "index"
  /\ rooms' = req[r].index
  /\ req' = [req EXCEPT ![r] = Idle]
  /\ UNCHANGED <<kv, now, polls, requests, history>>

(* touchRoom: the room is the most recent one; beyond MAX_ROOMS the oldest  *)
(* is evicted and its session deleted.  (Of rooms of the same age the one   *)
(* that entered first goes; a room that is new is never the one.)           *)
TouchRoom(r) ==
  /\ req[r].at = "index"
  /\ LET t == req[r].token
         index == [req[r].index EXCEPT ![t] = now]
     IN IF Cardinality(InIndex(index)) > MaxRooms
        THEN \E k \in Oldest(index, t) : /\ rooms' = [index EXCEPT ![k] = 0]
                                         /\ kv' = [kv EXCEPT ![k] = Nothing]
                                         /\ kept' = [kept EXCEPT ![k] = {}]
        ELSE rooms' = index /\ UNCHANGED <<kv, kept>>
  /\ req' = [req EXCEPT ![r] = Idle]
  /\ UNCHANGED <<now, polls, requests, raced, mixed, lapped>>

RemoveRoom(r) ==
  /\ req[r].at = "unindex"
  /\ rooms' = [req[r].index EXCEPT ![req[r].token] = 0]
  /\ req' = [req EXCEPT ![r] = Idle]
  /\ UNCHANGED <<kv, now, polls, requests, history>>

(* The store drops a session an hour after the last put.                    *)
Expire(t) ==
  /\ kv[t] # Nothing /\ requests < MaxRequests
  /\ kv' = [kv EXCEPT ![t] = Nothing]
  /\ kept' = [kept EXCEPT ![t] = {}]
  /\ requests' = requests + 1
  /\ UNCHANGED <<rooms, req, now, polls, raced, mixed, lapped>>

-----------------------------------------------------------------------------
(* Polls.                                                                   *)

Page(msgs) == SubSeq(msgs, 1, IF Len(msgs) < PageLimit THEN Len(msgs) ELSE PageLimit)
Give(c, page) == got' = [got EXCEPT ![c] = @ \o page]

(* Mutant: from the message with this id on.                                *)
After_Inclusive(msgs, i) ==
  LET at == {j \in DOMAIN msgs : msgs[j].id = i}
  IN IF at = {} THEN msgs ELSE SubSeq(msgs, CHOOSE j \in at : TRUE, Len(msgs))

(* The messages behind the one with this id; all, if it is not there.       *)
After(msgs, i) ==
  LET at == {j \in DOMAIN msgs : msgs[j].id = i}
  IN IF at = {} THEN msgs ELSE SubSeq(msgs, (CHOOSE j \in at : TRUE) + 1, Len(msgs))

PollAfter(c) ==
  /\ kv[RoomOf[c]] # Nothing
  /\ LET page == Page(After(kv[RoomOf[c]].msgs, last[c]))
     IN /\ page # <<>>
        /\ Give(c, page)
        /\ last' = [last EXCEPT ![c] = page[Len(page)].id]
  /\ UNCHANGED <<store, req, now, since, requests, history>>

Newer(msgs, k) == Pick(msgs, {m \in Range(msgs) : m.ts > k})

(* Mutant: the guest goes on from the time of its poll.                     *)
PollSince_Clock(g) ==
  /\ kv[RoomOf[g]] # Nothing
  /\ LET page == Page(Newer(kv[RoomOf[g]].msgs, since[g]))
     IN /\ page # <<>>
        /\ Give(g, page)
        /\ since' = [since EXCEPT ![g] = now]
  /\ UNCHANGED <<store, req, now, last, requests, history>>

(* _http_relay_guest takes the newest time stamp it was given as its since. *)
PollSince(g) ==
  /\ kv[RoomOf[g]] # Nothing
  /\ LET page == Page(Newer(kv[RoomOf[g]].msgs, since[g]))
         newest == CHOOSE k \in 1 .. MaxNow : /\ \E j \in DOMAIN page : page[j].ts = k
                                              /\ \A j \in DOMAIN page : page[j].ts <= k
     IN /\ page # <<>>
        /\ Give(g, page)
        /\ since' = [since EXCEPT ![g] = newest]
  /\ UNCHANGED <<store, req, now, last, requests, history>>

Tick == now < MaxNow /\ now' = now + 1 /\ UNCHANGED <<store, req, polls, requests, history>>

Next ==
  \/ \E r \in Slots, t \in Tokens : \/ New(r, t) \/ Join(r, t) \/ Delete(r, t)
                                    \/ \E i \in Ids : Send(r, t, i)
  \/ \E r \in Slots : PutNew(r) \/ PutMessage(r) \/ Dedup(r) \/ LoadRooms(r) \/ TouchRoom(r) \/ RemoveRoom(r)
  \/ \E t \in Tokens : Expire(t)
  \/ \E c \in Cursors : PollAfter(c)
  \/ \E g \in Guests : PollSince(g)
  \/ Tick

Spec == Init /\ [][Next]_vars

-----------------------------------------------------------------------------
(* Properties.                                                              *)

(* However requests overlap, a session holds no id twice and its messages   *)
(* in increasing order of their numbers, as does every copy under way.      *)
InOrder(s) ==
  /\ IsInjective([i \in DOMAIN s.msgs |-> s.msgs[i].id])
  /\ \A i, j \in DOMAIN s.msgs : i < j => s.msgs[i].seq < s.msgs[j].seq
  /\ \A i \in DOMAIN s.msgs : s.msgs[i].seq <= s.seq
SessionsInOrder == \A t \in Tokens : kv[t] # Nothing => InOrder(kv[t])

(* A message the sender was told is accepted stays in the session until it  *)
(* is the oldest of MSG_LIMIT, or the session ends, as long as no two       *)
(* requests of the session overlapped.                                      *)
AcceptedIsKept ==
  \A t \in Tokens \ raced : kv[t] # Nothing => kept[t] \subseteq Numbers(kv[t].msgs)

(* Then who polls by after_id is given each message once and in order, and  *)
(* leaves out none that is still there, unless the id it polls with was cut *)
(* off and then sent again: it goes on from behind the second message.      *)
CursorReadsOnce ==
  \A c \in Cursors : RoomOf[c] \notin raced /\ c \notin lapped =>
    /\ \A i, j \in DOMAIN got[c] : i < j => got[c][i].n < got[c][j].n
    /\ kv[RoomOf[c]] # Nothing =>
         \A i, j \in DOMAIN kv[RoomOf[c]].msgs :
           i < j /\ kv[RoomOf[c]].msgs[j].id = last[c] => kv[RoomOf[c]].msgs[i] \in Range(got[c])

(* And who polls by time misses at most messages of the same millisecond as *)
(* one it was given.                                                        *)
SinceMissesOnlyTies ==
  \A g \in Guests : RoomOf[g] \notin raced /\ kv[RoomOf[g]] # Nothing =>
    \A m \in Range(kv[RoomOf[g]].msgs) :
      m.ts <= since[g] => \E k \in Range(got[g]) : k.ts = m.ts

(* When nothing is under way every session is in the index, so there are at *)
(* most MAX_ROOMS, unless requests overlapped at the index or a request     *)
(* with the deletion of its room.                                           *)
RoomsAreIndexed ==
  (\A r \in Slots : req[r].at = "idle") /\ ~mixed =>
    \A t \in Tokens \ raced : kv[t] # Nothing => rooms[t] # 0

=============================================================================
