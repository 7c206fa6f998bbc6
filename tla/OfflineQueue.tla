---------------------------- MODULE OfflineQueue ----------------------------
(***************************************************************************)
(* The offline delivery queue of one relay (src/relay/acp_relay.py): what  *)
(* _ws_send buffers while a peer is away, the SQLite copy kept under       *)
(* --persist-queue, the flush of a connection that comes (back) up, the    *)
(* sweep of --max-offline-ttl, and crashes of the process.                 *)
(*                                                                         *)
(* Coroutines of the event loop interleave at their awaits; HTTP threads   *)
(* (sweep on demand, unregistering of a dead peer) interleave anywhere.    *)
(* A coroutine per connection is named by the agent at its other end.      *)
(* Messages are numbered in the order the relay handles them; that number  *)
(* also stands for the time stamp _queued_at.  A message counts as sent    *)
(* when ws.send has taken it: what the network does with it is not in this *)
(* module.                                                                 *)
(***************************************************************************)
EXTENDS Naturals, Sequences, FiniteSets, SequencesExt, Picking

CONSTANTS
  Agents,       (* agents at the other end of links                         *)
  Nobody,
  Role,         (* "host": on_guest accepts; "guest": guest_mode dials out  *)
  Persist,      (* --persist-queue is set                                   *)
  Ttl,          (* --max-offline-ttl is set                                 *)
  Unregisters,  (* clients use POST /peer/{id}/send, which may unregister   *)
  MaxLen,       (* OFFLINE_QUEUE_MAXLEN                                     *)
  MaxMsgs,      (* bound: messages handled in a run                         *)
  MaxPeers,     (* bound: peer ids issued in one life of the process        *)
  MaxBreaks,    (* bound: connections that break in a run                   *)
  MaxCrashes    (* bound: crashes in a run                                  *)

ASSUME QueueAssumption ==
  /\ Nobody \notin Agents
  /\ Role \in {"host", "guest"}
  /\ {Persist, Ttl, Unregisters} \subseteq BOOLEAN
  /\ {MaxLen, MaxMsgs, MaxPeers, MaxBreaks, MaxCrashes} \subseteq Nat

Msgs == 1 .. MaxMsgs
Peers == 1 .. MaxPeers           (* _make_peer_id counts up                 *)
Default == 0                     (* the bucket called "default"             *)
Buckets == Peers \cup {Default}
Places == {"off", "card", "pop", "send", "purge", "reading"}

VARIABLES
  up,        (* the process runs                                            *)
  mem,       (* _offline_queue: the messages of each bucket                 *)
  rows,      (* table offline_queue in the order of its ids                 *)
  adding,    (* the row _offline_enqueue is about to insert, or none        *)
  sweeping,  (* cutoffs of on-demand sweeps between memory and SQLite       *)
  peerOf,    (* _peers: the agent each peer id was registered for           *)
  live,      (* the peer ids whose "ws" is not None                         *)
  legacy,    (* _peer_ws: the agent its connection leads to, or Nobody      *)
  sock,      (* the socket to each agent: none, open, broken                *)
  pc,        (* where the coroutine of each connection is                   *)
  flush,     (* its locals: own peer id, bucket, what is left of q, count   *)
  handled,   (* history: messages handled so far                            *)
  to,        (* history: whom each message was meant for                    *)
  promised,  (* history: messages whose sender was told "queued"            *)
  sent,      (* history: per agent, the flushed messages of this life       *)
  everSent,  (* history: messages a socket has taken, in any life           *)
  dropped,   (* history: messages lost to MaxLen or to the TTL              *)
  cutOff,    (* history: messages a flush broke off on                      *)
  broke,     (* counts breaks                                               *)
  crashes    (* counts crashes                                              *)

queue == <<mem, rows, adding, sweeping>>
links == <<peerOf, live, legacy, sock, pc, flush>>
past == <<handled, to, promised, sent, everSent, dropped, cutOff>>
vars == <<up, queue, links, past, broke, crashes>>

Row == [bucket : Buckets, msg : Msgs]
NoFlush == [own |-> 0, bucket |-> 0, left |-> <<>>, count |-> 0]

(* Types, and the capacity of every bucket.                                 *)
TypeOK ==
  /\ up \in BOOLEAN
  /\ mem \in [Buckets -> Seq(Msgs)]
  /\ \A b \in Buckets : Len(mem[b]) <= MaxLen
  /\ rows \in Seq(Row)
  /\ adding \in Seq(Row) /\ Len(adding) <= 1
  /\ sweeping \subseteq Msgs
  /\ peerOf \in [Peers -> Agents \cup {Nobody}]
  /\ live \subseteq Peers
  /\ legacy \in Agents \cup {Nobody}
  /\ sock \in [Agents -> {"none", "open", "broken"}]
  /\ pc \in [Agents -> Places]
  /\ flush \in [Agents -> [own : Buckets, bucket : Buckets, left : Seq(Msgs), count : Nat]]
  /\ handled \in 0 .. MaxMsgs
  /\ to \in [Msgs -> Agents \cup {Nobody}]
  /\ {promised, everSent, dropped, cutOff} \subseteq SUBSET Msgs
  /\ sent \in [Agents -> Seq(Row)]
  /\ broke \in 0 .. MaxBreaks
  /\ crashes \in 0 .. MaxCrashes

Init ==
  /\ up = TRUE
  /\ mem = [b \in Buckets |-> <<>>]
  /\ rows = <<>> /\ adding = <<>> /\ sweeping = {}
  /\ peerOf = [p \in Peers |-> Nobody]
  /\ live = {} /\ legacy = Nobody
  /\ sock = [a \in Agents |-> "none"]
  /\ pc = [a \in Agents |-> "off"]
  /\ flush = [a \in Agents |-> NoFlush]
  /\ handled = 0 /\ to = [m \in Msgs |-> Nobody]
  /\ promised = {} /\ everSent = {} /\ dropped = {} /\ cutOff = {}
  /\ sent = [a \in Agents |-> <<>>]
  /\ broke = 0 /\ crashes = 0

-----------------------------------------------------------------------------
(* Buffering.                                                               *)

(* The loop thread is between the statements of _offline_enqueue only when  *)
(* a row waits to be inserted: no other coroutine runs then.                *)
LoopFree == up /\ adding = <<>>

(* Mutant: an unbounded deque.                                              *)
LastOf_Unbounded(q) == q

(* A deque(maxlen=MaxLen) keeps the last MaxLen elements.                   *)
LastOf(q) == IF Len(q) <= MaxLen THEN q ELSE SubSeq(q, Len(q) - MaxLen + 1, Len(q))

(* _ttl_sweep with cutoff c: what it leaves of a bucket, and of the rows up *)
(* to d.  _pq_delete_expired compares strings, by which a row of the        *)
(* cutoff's own millisecond is not older than the cutoff: d may be c - 1.   *)
Unexpired(q, c) == Pick(q, {m \in Msgs : m > c})
UnexpiredRows(r, d) == Pick(r, {x \in Row : x.msg > d})
RowCutoffs(c) == {c, c - 1} \cap Nat
Cutoffs == {0} \cup IF Ttl THEN 1 .. handled ELSE {}

Expired(c) == {m \in 1 .. c : \E b \in Buckets : m \in ToSet(mem[b])}
ExpiredRows(d) == {m \in 1 .. d : \E i \in DOMAIN rows : rows[i].msg = m}

(* _offline_enqueue up to _pq_insert, for the message numbered next: lazy   *)
(* sweep, then append to the bucket.                                        *)
Enqueue(b, a) ==
  LET m == handled + 1
      swept(c) == [x \in Buckets |-> Unexpired(mem[x], c)]
  IN \E c \in Cutoffs : \E d \in RowCutoffs(c) :
       LET q == Append(swept(c)[b], m)
       IN /\ mem' = [swept(c) EXCEPT ![b] = LastOf(q)]
          /\ rows' = UnexpiredRows(rows, d)
          /\ adding' = <<[bucket |-> b, msg |-> m]>>
          /\ dropped' = dropped \cup Expired(c) \cup ExpiredRows(d) \cup (ToSet(q) \ ToSet(LastOf(q)))
          /\ to' = [to EXCEPT ![m] = a]
          /\ handled' = m
          /\ UNCHANGED <<up, sweeping, links, promised, sent, everSent, cutOff, broke, crashes>>

(* _pq_insert; the ConnectionError that tells the sender follows.           *)
InsertRow ==
  /\ up /\ adding # <<>>
  /\ rows' = IF Persist THEN rows \o adding ELSE rows
  /\ promised' = promised \cup {adding[1].msg}
  /\ adding' = <<>>
  /\ UNCHANGED <<up, mem, sweeping, links, handled, to, sent, everSent, dropped, cutOff, broke, crashes>>

(* ws.send on the connection to agent a.  A broken one raises               *)
(* ConnectionClosed, which is not a ConnectionError: nothing is buffered.   *)
SendOn(a) ==
  /\ handled' = handled + 1
  /\ to' = [to EXCEPT ![handled + 1] = a]
  /\ everSent' = IF sock[a] = "open" THEN everSent \cup {handled + 1} ELSE everSent
  /\ UNCHANGED <<up, queue, links, promised, sent, dropped, cutOff, broke, crashes>>

(* _ws_send to a registered peer.                                           *)
SendToPeer(p) ==
  /\ LoopFree /\ handled < MaxMsgs
  /\ peerOf[p] # Nobody
  /\ IF p \in live THEN SendOn(peerOf[p]) ELSE Enqueue(p, peerOf[p])

(* _ws_send without a peer id.                                              *)
SendToDefault ==
  /\ LoopFree /\ handled < MaxMsgs
  /\ IF legacy # Nobody THEN SendOn(legacy) ELSE Enqueue(Default, Nobody)

-----------------------------------------------------------------------------
(* Connections.                                                             *)

Issued == {p \in Peers : peerOf[p] # Nobody}
NextId == Cardinality(Issued) + 1

(* A connection to a comes up: on_guest takes it as _peer_ws and sends the  *)
(* AgentCard before it registers a peer.                                    *)
AcceptGuest(a) ==
  /\ LoopFree /\ Role = "host"
  /\ pc[a] = "off" /\ NextId \in Peers
  /\ sock' = [sock EXCEPT ![a] = "open"]
  /\ legacy' = a
  /\ pc' = [pc EXCEPT ![a] = "card"]
  /\ UNCHANGED <<up, queue, peerOf, live, flush, past, broke, crashes>>

(* The card is out: on_guest registers the guest under a new peer id.       *)
RegisterGuest(a) ==
  /\ LoopFree /\ Role = "host"
  /\ pc[a] = "card" /\ sock[a] = "open" /\ NextId \in Peers
  /\ peerOf' = [peerOf EXCEPT ![NextId] = a]
  /\ live' = live \cup {NextId}
  /\ flush' = [flush EXCEPT ![a] = [NoFlush EXCEPT !.own = NextId, !.bucket = NextId]]
  /\ pc' = [pc EXCEPT ![a] = "pop"]
  /\ UNCHANGED <<up, queue, legacy, sock, past, broke, crashes>>

(* Mutant: only the "default" bucket is flushed.                            *)
Dial_DefaultOnly(a) ==
  LET known == {p \in Issued : peerOf[p] = a /\ p \notin live}
      p == IF known # {} THEN CHOOSE x \in known : \A y \in known : x <= y ELSE NextId
  IN /\ LoopFree /\ Role = "guest"
     /\ pc[a] = "off" /\ p \in Peers
     /\ sock' = [sock EXCEPT ![a] = "open"]
     /\ legacy' = a
     /\ peerOf' = [peerOf EXCEPT ![p] = a]
     /\ live' = live \cup {p}
     /\ flush' = [flush EXCEPT ![a] = [NoFlush EXCEPT !.own = p]]
     /\ pc' = [pc EXCEPT ![a] = "card"]
     /\ UNCHANGED <<up, queue, past, broke, crashes>>

(* guest_mode dials a and registers the link before it sends the card; a    *)
(* peer that lost its connection to the same link gets its id back.         *)
Dial(a) ==
  LET known == {p \in Issued : peerOf[p] = a /\ p \notin live}
      p == IF known # {} THEN CHOOSE x \in known : \A y \in known : x <= y ELSE NextId
  IN /\ LoopFree /\ Role = "guest"
     /\ pc[a] = "off" /\ p \in Peers
     /\ sock' = [sock EXCEPT ![a] = "open"]
     /\ legacy' = a
     /\ peerOf' = [peerOf EXCEPT ![p] = a]
     /\ live' = live \cup {p}
     /\ flush' = [flush EXCEPT ![a] = [NoFlush EXCEPT !.own = p, !.bucket = p]]
     /\ pc' = [pc EXCEPT ![a] = "card"]
     /\ UNCHANGED <<up, queue, past, broke, crashes>>

CardSent(a) ==
  /\ LoopFree /\ Role = "guest"
  /\ pc[a] = "card" /\ sock[a] = "open"
  /\ pc' = [pc EXCEPT ![a] = "pop"]
  /\ UNCHANGED <<up, queue, peerOf, live, legacy, sock, flush, past, broke, crashes>>

(* The card cannot be sent.  on_guest ends before its try statement and     *)
(* leaves _peer_ws as it is; guest_mode cleans up.                          *)
CardFails(a) ==
  /\ LoopFree
  /\ pc[a] = "card" /\ sock[a] = "broken"
  /\ IF Role = "host"
     THEN UNCHANGED <<live, legacy>>
     ELSE live' = live \ {flush[a].own} /\ legacy' = Nobody
  /\ sock' = [sock EXCEPT ![a] = "none"]
  /\ flush' = [flush EXCEPT ![a] = NoFlush]
  /\ pc' = [pc EXCEPT ![a] = "off"]
  /\ UNCHANGED <<up, queue, peerOf, past, broke, crashes>>

(* The read loop ends: the peer is unregistered and _peer_ws cleared,       *)
(* whichever connection it leads to.                                        *)
Disconnected(a) ==
  /\ LoopFree
  /\ pc[a] = "reading" /\ sock[a] = "broken"
  /\ live' = live \ {flush[a].own}
  /\ legacy' = Nobody
  /\ sock' = [sock EXCEPT ![a] = "none"]
  /\ flush' = [flush EXCEPT ![a] = NoFlush]
  /\ pc' = [pc EXCEPT ![a] = "off"]
  /\ UNCHANGED <<up, queue, peerOf, past, broke, crashes>>

(* POST /peer/{id}/send finds the connection dead and unregisters the peer  *)
(* from an HTTP thread.                                                     *)
UnregisterDead(p) ==
  /\ up /\ Unregisters
  /\ p \in live /\ sock[peerOf[p]] = "broken"
  /\ live' = live \ {p}
  /\ UNCHANGED <<up, queue, peerOf, legacy, sock, pc, flush, past, broke, crashes>>

-----------------------------------------------------------------------------
(* _offline_flush.                                                          *)

(* The flush of f's bucket returned f.count: on_guest and guest_mode go on  *)
(* with "default" if it was 0, then with their read loop.                   *)
Returned(a, f) ==
  LET again == f.count = 0 /\ f.bucket # Default
  IN /\ pc' = [pc EXCEPT ![a] = IF again THEN "pop" ELSE "reading"]
     /\ flush' = [flush EXCEPT ![a] = [own |-> f.own, bucket |-> IF again THEN Default ELSE f.bucket,
                                       left |-> <<>>, count |-> f.count]]

(* Mutant: the deque is read but stays in the queue.                        *)
Pop_Kept(a) ==
  LET f == flush[a]
      q == mem[f.bucket]
  IN /\ LoopFree /\ pc[a] = "pop"
     /\ IF q = <<>>
        THEN Returned(a, f)
        ELSE /\ pc' = [pc EXCEPT ![a] = "send"]
             /\ flush' = [flush EXCEPT ![a].left = q]
     /\ UNCHANGED <<up, mem, rows, adding, sweeping, peerOf, live, legacy, sock, past, broke, crashes>>

(* Mutant: the rows are deleted when the deque is taken out.                *)
Pop_Purges(a) ==
  LET f == flush[a]
      q == mem[f.bucket]
  IN /\ LoopFree /\ pc[a] = "pop"
     /\ mem' = [mem EXCEPT ![f.bucket] = <<>>]
     /\ rows' = Pick(rows, {x \in Row : x.bucket # f.bucket})
     /\ IF q = <<>>
        THEN Returned(a, f)
        ELSE /\ pc' = [pc EXCEPT ![a] = "send"]
             /\ flush' = [flush EXCEPT ![a].left = q]
     /\ UNCHANGED <<up, adding, sweeping, peerOf, live, legacy, sock, past, broke, crashes>>

(* The whole deque of the bucket is taken out.                              *)
Pop(a) ==
  LET f == flush[a]
      q == mem[f.bucket]
  IN /\ LoopFree /\ pc[a] = "pop"
     /\ mem' = [mem EXCEPT ![f.bucket] = <<>>]
     /\ IF q = <<>>
        THEN Returned(a, f)
        ELSE /\ pc' = [pc EXCEPT ![a] = "send"]
             /\ flush' = [flush EXCEPT ![a].left = q]
     /\ UNCHANGED <<up, rows, adding, sweeping, peerOf, live, legacy, sock, past, broke, crashes>>

(* One await ws.send that succeeds.                                         *)
FlushOne(a) ==
  LET f == flush[a]
  IN /\ LoopFree /\ pc[a] = "send" /\ sock[a] = "open"
     /\ sent' = [sent EXCEPT ![a] = Append(@, [bucket |-> f.bucket, msg |-> Head(f.left)])]
     /\ everSent' = everSent \cup {Head(f.left)}
     /\ flush' = [flush EXCEPT ![a].left = Tail(f.left), ![a].count = f.count + 1]
     /\ pc' = [pc EXCEPT ![a] = IF Tail(f.left) = <<>> THEN "purge" ELSE "send"]
     /\ UNCHANGED <<up, queue, peerOf, live, legacy, sock, handled, to, promised,
                    dropped, cutOff, broke, crashes>>

(* One that fails: the loop breaks off, what is left of q is forgotten.     *)
FlushFails(a) ==
  LET f == flush[a]
  IN /\ LoopFree /\ pc[a] = "send" /\ sock[a] = "broken"
     /\ cutOff' = cutOff \cup ToSet(f.left)
     /\ IF f.count = 0
        THEN Returned(a, f)
        ELSE /\ pc' = [pc EXCEPT ![a] = "purge"]
             /\ flush' = [flush EXCEPT ![a].left = <<>>]
     /\ UNCHANGED <<up, queue, peerOf, live, legacy, sock, handled, to, promised,
                    sent, everSent, dropped, broke, crashes>>

(* Mutant: DELETE without its WHERE clause.                                 *)
Purge_All(a) ==
  LET f == flush[a]
  IN /\ LoopFree /\ pc[a] = "purge"
     /\ rows' = <<>>
     /\ Returned(a, f)
     /\ UNCHANGED <<up, mem, adding, sweeping, peerOf, live, legacy, sock, past, broke, crashes>>

(* _pq_delete_peer: every row of the bucket.                                *)
Purge(a) ==
  LET f == flush[a]
  IN /\ LoopFree /\ pc[a] = "purge"
     /\ rows' = Pick(rows, {x \in Row : x.bucket # f.bucket})
     /\ Returned(a, f)
     /\ UNCHANGED <<up, mem, adding, sweeping, peerOf, live, legacy, sock, past, broke, crashes>>

-----------------------------------------------------------------------------
(* Sweeps on demand, broken connections, crashes.                           *)

(* GET /offline-queue/sweep: memory first,                                  *)
SweepMemory(c) ==
  /\ up /\ Ttl /\ sweeping = {}
  /\ mem' = [b \in Buckets |-> Unexpired(mem[b], c)]
  /\ dropped' = dropped \cup Expired(c)
  /\ sweeping' = {c}
  /\ UNCHANGED <<up, rows, adding, links, handled, to, promised, sent, everSent,
                 cutOff, broke, crashes>>

(* then SQLite.                                                             *)
SweepRows(c) ==
  /\ up /\ c \in sweeping
  /\ \E d \in RowCutoffs(c) :
       /\ rows' = UnexpiredRows(rows, d)
       /\ dropped' = dropped \cup ExpiredRows(d)
  /\ sweeping' = {}
  /\ UNCHANGED <<up, mem, adding, links, handled, to, promised, sent, everSent,
                 cutOff, broke, crashes>>

Break(a) ==
  /\ up /\ sock[a] = "open" /\ broke < MaxBreaks
  /\ sock' = [sock EXCEPT ![a] = "broken"]
  /\ broke' = broke + 1
  /\ UNCHANGED <<up, queue, peerOf, live, legacy, pc, flush, past, crashes>>

(* The process dies: only the rows survive.                                 *)
Crash ==
  /\ up /\ crashes < MaxCrashes
  /\ up' = FALSE /\ crashes' = crashes + 1
  /\ mem' = [b \in Buckets |-> <<>>]
  /\ adding' = <<>> /\ sweeping' = {}
  /\ peerOf' = [p \in Peers |-> Nobody]
  /\ live' = {} /\ legacy' = Nobody
  /\ sock' = [a \in Agents |-> "none"]
  /\ pc' = [a \in Agents |-> "off"]
  /\ flush' = [a \in Agents |-> NoFlush]
  /\ sent' = [a \in Agents |-> <<>>]
  /\ UNCHANGED <<rows, handled, to, promised, everSent, dropped, cutOff, broke>>

(* Mutant: the newest row is loaded first.                                  *)
RowsOf_Reversed(b) == LET r == Reverse(Pick(rows, {x \in Row : x.bucket = b}))
                      IN [i \in DOMAIN r |-> r[i].msg]

(* The rows of a bucket, as messages.                                       *)
RowsOf(b) == LET r == Pick(rows, {x \in Row : x.bucket = b})
             IN [i \in DOMAIN r |-> r[i].msg]

(* _pq_init: the surviving rows are loaded in the order of their ids.       *)
Restart ==
  /\ ~up
  /\ up' = TRUE
  /\ mem' = [b \in Buckets |-> LastOf(RowsOf(b))]
  /\ dropped' = dropped \cup
       UNION {ToSet(RowsOf(b)) \ ToSet(LastOf(RowsOf(b))) : b \in Buckets}
  /\ UNCHANGED <<rows, adding, sweeping, links, handled, to, promised, sent,
                 everSent, cutOff, broke, crashes>>

Link(a) == \/ AcceptGuest(a) \/ RegisterGuest(a) \/ Dial(a) \/ CardSent(a)
           \/ CardFails(a) \/ Disconnected(a) \/ Pop(a) \/ FlushOne(a)
           \/ FlushFails(a) \/ Purge(a)

Next ==
  \/ \E a \in Agents : Link(a) \/ Break(a)
  \/ \E p \in Peers : SendToPeer(p) \/ UnregisterDead(p)
  \/ SendToDefault \/ InsertRow
  \/ \E c \in 1 .. handled : SweepMemory(c) \/ SweepRows(c)
  \/ Crash \/ Restart

Spec == Init /\ [][Next]_vars

-----------------------------------------------------------------------------
(* Properties.                                                              *)

Queued == UNION {ToSet(mem[b]) : b \in Buckets}
Flushing == UNION {ToSet(flush[a].left) : a \in Agents}
Stored == {rows[i].msg : i \in DOMAIN rows}

(* Within one life of the process no flush hands out a message twice, not   *)
(* even two flushes of the "default" bucket that run side by side: the      *)
(* deque is popped before the first await (6467-6468).                      *)
OncePerLife ==
  \A a, b \in DOMAIN sent : \A i \in DOMAIN sent[a], j \in DOMAIN sent[b] :
    sent[a][i].msg = sent[b][j].msg => a = b /\ i = j

(* What an agent receives of one bucket, it receives in the order it was    *)
(* queued, over reconnects, overflow, expiry and the reload after a crash.  *)
(* acp_relay.py:9252: "flushed in FIFO order".                              *)
FifoPerBucket ==
  \A a \in DOMAIN sent : \A i, j \in DOMAIN sent[a] :
    i < j /\ sent[a][i].bucket = sent[a][j].bucket => sent[a][i].msg < sent[a][j].msg

(* Both: what a relay has queued is sent once per life and in order.        *)
FlushedInOrder == OncePerLife /\ FifoPerBucket

(* With --persist-queue, and one connection at a time that is only          *)
(* unregistered by its own coroutine, a message waiting in memory has its   *)
(* row, so a crash does not lose it.                                        *)
QueuedIsStored == LoopFree => Queued \cup (Flushing \ dropped) \subseteq Stored

(* Then, too, whatever is swept, broken or crashed, a message whose sender  *)
(* was told it is queued is somewhere: queued, stored, sent, dropped by the *)
(* limits the documentation names, or given up by a flush that broke off.   *)
KeptUnlessBrokenOff ==
  promised \subseteq Queued \cup Flushing \cup Stored \cup everSent \cup dropped \cup cutOff

(* A guest's connection that has finished flushing left nothing queued for  *)
(* the agent it leads to (guest_mode gives a link its peer id back).        *)
OwnBucketFlushed ==
  \A a \in Agents : pc[a] = "reading" /\ flush[a].own \in live => mem[flush[a].own] = <<>>

(* All three: under the conditions named above, what a sender was told is   *)
(* queued survives the process and goes out with the next flush.            *)
KeptPromises == QueuedIsStored /\ KeptUnlessBrokenOff /\ OwnBucketFlushed

(* docs/comparison.md:166: "flushes them upon reconnect - no lost messages" *)
(* of the messages a sender was told are queued.                            *)
PromiseKept ==
  promised \subseteq Queued \cup Flushing \cup Stored \cup everSent \cup dropped

=============================================================================
