----------------------------- MODULE EventStream -----------------------------
(***************************************************************************)
(* The event fan-out of one relay (src/relay/acp_relay.py).  Any thread    *)
(* may publish with _broadcast_sse_event: it numbers the event, appends it *)
(* to the replay log, puts it into the queue of every subscriber and sets  *)
(* the one Event all stream handlers wait on.  Each GET /stream (with or   *)
(* without ?since=) and each GET /tasks/{id}:subscribe is a thread that    *)
(* replays, subscribes, empties its queue and waits.  Clients are their    *)
(* connections: one that comes back is another client.                     *)
(*                                                                         *)
(* Only the numbering and the log are locked, each by a lock of its own;   *)
(* the subscriber list, the queues and the wake-up event are shared as     *)
(* they are.  An action is what one thread does between two points at      *)
(* which another may run.                                                  *)
(***************************************************************************)
EXTENDS Naturals, Sequences, FiniteSets, SequencesExt, Picking

CONSTANTS
  Publishers,   (* threads that publish                                     *)
  Streams,      (* connections of GET /stream                               *)
  Watchers,     (* connections of GET /tasks/{id}:subscribe                 *)
  Tasks,        (* task ids events are about                                *)
  Watched,      (* the task of each watcher                                 *)
  Finals,       (* whether the statuses announced are final: {TRUE}, ...    *)
  LogMax,       (* _EVENT_LOG_MAX                                           *)
  MaxEvents,    (* bound: events published in a run                         *)
  MaxLeaves     (* bound: clients that go away by themselves in a run       *)

Clients == Streams \cup Watchers

ASSUME StreamAssumption ==
  /\ Streams \cap Watchers = {}
  /\ Watched \in [Watchers -> Tasks] /\ Tasks # {}
  /\ Finals \subseteq BOOLEAN
  /\ LogMax \in Nat \ {0}
  /\ MaxEvents \in Nat \ {0} /\ MaxLeaves \in Nat

Seqs == 1 .. MaxEvents
Event == [seq : Seqs, task : Tasks, final : BOOLEAN]

VARIABLES
  seq,      (* _sse_seq                                                     *)
  log,      (* _event_log                                                   *)
  subs,     (* _sse_subscribers: whose queues are in it, in order           *)
  queue,    (* the queue of each client's handler                           *)
  flag,     (* _sse_notify is set                                           *)
  pub,      (* each publisher: where it is, its event, its place in subs    *)
  at,       (* where the handler of each client is                          *)
  seen,     (* the events written to each client                            *)
  joined,   (* history: seq when each stream subscribed                     *)
  leaves,   (* counts the clients that went away by themselves              *)
  skips     (* history: events in whose loop a turn was skipped             *)

vars == <<seq, log, subs, queue, flag, pub, at, seen, joined, leaves, skips>>

Stages == {"idle", "log", "fan", "notify"}
Places == {"off", "replay", "subscribe", "loop", "enter", "blocked", "clear", "leave", "gone"}

(* Types, and the capacity of the replay log.                               *)
TypeOK ==
  /\ seq \in 0 .. MaxEvents
  /\ log \in Seq(Event) /\ Len(log) <= LogMax
  /\ subs \in Seq(Clients)
  /\ queue \in [Clients -> Seq(Event)]
  /\ flag \in BOOLEAN
  /\ pub \in [Publishers -> [stage : Stages, event : Event, i : Nat \ {0}]]
  /\ at \in [Clients -> Places]
  /\ seen \in [Clients -> Seq(Seqs)]
  /\ joined \in [Streams -> 0 .. MaxEvents]
  /\ leaves \in Nat /\ skips \subseteq Seqs

Idle == [stage |-> "idle", i |-> 1,
         event |-> [seq |-> 1, task |-> CHOOSE k \in Tasks : TRUE, final |-> FALSE]]

Init ==
  /\ seq = 0 /\ log = <<>> /\ subs = <<>> /\ flag = FALSE
  /\ queue = [c \in Clients |-> <<>>]
  /\ pub = [p \in Publishers |-> Idle]
  /\ at = [c \in Clients |-> "off"]
  /\ seen = [c \in Clients |-> <<>>]
  /\ joined = [c \in Streams |-> 0]
  /\ leaves = 0 /\ skips = {}

-----------------------------------------------------------------------------
(* _broadcast_sse_event on publisher p.                                     *)

(* Mutant: the number is the length of the log, which is not yet longer.    *)
TakeSeq_FromLog(p) ==
  /\ pub[p].stage = "idle" /\ seq < MaxEvents
  /\ seq' = seq + 1
  /\ \E k \in Tasks, final \in Finals :
       pub' = [pub EXCEPT ![p] = [stage |-> "log", i |-> 1,
                 event |-> [seq |-> Len(log) + 1, task |-> k, final |-> final]]]
  /\ UNCHANGED <<log, subs, queue, flag, at, seen, joined, leaves, skips>>

(* The number is taken under _sse_seq_lock.                                 *)
TakeSeq(p) ==
  /\ pub[p].stage = "idle" /\ seq < MaxEvents
  /\ seq' = seq + 1
  /\ \E k \in Tasks, final \in Finals :
       pub' = [pub EXCEPT ![p] = [stage |-> "log", i |-> 1,
                 event |-> [seq |-> seq + 1, task |-> k, final |-> final]]]
  /\ UNCHANGED <<log, subs, queue, flag, at, seen, joined, leaves, skips>>

(* Mutant: the log is never trimmed.                                        *)
AppendLog_NoTrim(p) ==
  /\ pub[p].stage = "log"
  /\ log' = Append(log, pub[p].event)
  /\ pub' = [pub EXCEPT ![p].stage = "fan"]
  /\ UNCHANGED <<seq, subs, queue, flag, at, seen, joined, leaves, skips>>

(* The log is a ring buffer, appended to under _event_log_lock.             *)
AppendLog(p) ==
  /\ pub[p].stage = "log"
  /\ log' = LET l == Append(log, pub[p].event) IN IF Len(l) > LogMax THEN Tail(l) ELSE l
  /\ pub' = [pub EXCEPT ![p].stage = "fan"]
  /\ UNCHANGED <<seq, subs, queue, flag, at, seen, joined, leaves, skips>>

(* One turn of the loop over _sse_subscribers, which goes by position.      *)
FanOut(p) ==
  LET i == pub[p].i IN
  /\ pub[p].stage = "fan"
  /\ IF i <= Len(subs)
     THEN /\ queue' = [queue EXCEPT ![subs[i]] = Append(@, pub[p].event)]
          /\ pub' = [pub EXCEPT ![p].i = i + 1]
     ELSE pub' = [pub EXCEPT ![p].stage = "notify"] /\ UNCHANGED queue
  /\ UNCHANGED <<seq, log, subs, flag, at, seen, joined, leaves, skips>>

(* Event.set() releases every thread that is blocked in wait().             *)
Notify(p) ==
  /\ pub[p].stage = "notify"
  /\ flag' = TRUE
  /\ at' = [c \in Clients |-> IF at[c] = "blocked" THEN "clear" ELSE at[c]]
  /\ pub' = [pub EXCEPT ![p] = Idle]
  /\ UNCHANGED <<seq, log, subs, queue, seen, joined, leaves, skips>>

-----------------------------------------------------------------------------
(* The handler of client c.                                                 *)

Move(c, p) == at' = [at EXCEPT ![c] = p]

(* GET /stream: a client that comes back asks, with ?since=, for what it    *)
(* missed.                                                                  *)
OpenStream(c) ==
  /\ c \in Streams /\ at[c] = "off"
  /\ Move(c, "subscribe") \/ Move(c, "replay")
  /\ UNCHANGED <<seq, log, subs, queue, flag, pub, seen, joined, leaves, skips>>

OpenTask(c) ==
  /\ c \in Watchers /\ at[c] = "off"
  /\ Move(c, "subscribe")
  /\ UNCHANGED <<seq, log, subs, queue, flag, pub, seen, joined, leaves, skips>>

(* The part of the log after ?since= is read under its lock and written.    *)
Replay(c) ==
  /\ at[c] = "replay"
  /\ \E since \in 0 .. seq : LET missed == Pick(log, {e \in ToSet(log) : e.seq > since})
     IN seen' = [seen EXCEPT ![c] = @ \o [i \in DOMAIN missed |-> missed[i].seq]]
  /\ Move(c, "subscribe")
  /\ UNCHANGED <<seq, log, subs, queue, flag, pub, joined, leaves, skips>>

(* Mutant: a new queue is put at the head of the list.                      *)
Subscribe_Front(c) ==
  /\ at[c] = "subscribe"
  /\ subs' = <<c>> \o subs
  /\ queue' = [queue EXCEPT ![c] = <<>>]
  /\ joined' = [d \in Streams |-> IF d = c THEN seq ELSE joined[d]]
  /\ Move(c, "loop")
  /\ UNCHANGED <<seq, log, flag, pub, seen, leaves, skips>>

Subscribe(c) ==
  /\ at[c] = "subscribe"
  /\ subs' = Append(subs, c)
  /\ queue' = [queue EXCEPT ![c] = <<>>]
  /\ joined' = [d \in Streams |-> IF d = c THEN seq ELSE joined[d]]
  /\ Move(c, "loop")
  /\ UNCHANGED <<seq, log, flag, pub, seen, leaves, skips>>

(* An event is taken out and written; the handler of a watcher writes those *)
(* of its own task and ends with the first final status it takes out,       *)
(* whichever task it is of.                                                 *)
TakeOne(c) ==
  LET e == Head(queue[c])
      wanted == c \in Streams \/ e.task = Watched[c]
  IN /\ at[c] = "loop" /\ queue[c] # <<>>
     /\ queue' = [queue EXCEPT ![c] = Tail(@)]
     /\ seen' = IF wanted THEN [seen EXCEPT ![c] = Append(@, e.seq)] ELSE seen
     /\ Move(c, IF c \in Watchers /\ e.final THEN "leave" ELSE "loop")
     /\ UNCHANGED <<seq, log, subs, flag, pub, joined, leaves, skips>>

(* The queue is found empty: a keepalive is written, then wait(30) called.  *)
FindEmpty(c) ==
  /\ at[c] = "loop" /\ queue[c] = <<>>
  /\ Move(c, "enter")
  /\ UNCHANGED <<seq, log, subs, queue, flag, pub, seen, joined, leaves, skips>>

EnterWait(c) ==
  /\ at[c] = "enter"
  /\ Move(c, IF flag THEN "clear" ELSE "blocked")
  /\ UNCHANGED <<seq, log, subs, queue, flag, pub, seen, joined, leaves, skips>>

(* Mutant: wait() without its timeout.                                      *)
TimeOut_Never(c) == FALSE /\ UNCHANGED vars

(* The 30 seconds are over.                                                 *)
TimeOut(c) ==
  /\ at[c] = "blocked"
  /\ Move(c, "clear")
  /\ UNCHANGED <<seq, log, subs, queue, flag, pub, seen, joined, leaves, skips>>

(* _sse_notify.clear(), for all handlers.                                   *)
Clear(c) ==
  /\ at[c] = "clear"
  /\ flag' = FALSE
  /\ Move(c, "loop")
  /\ UNCHANGED <<seq, log, subs, queue, pub, seen, joined, leaves, skips>>

(* A write fails: the client has gone away.                                 *)
GoAway(c) ==
  /\ at[c] = "loop" /\ leaves < MaxLeaves
  /\ Move(c, "leave")
  /\ leaves' = leaves + 1
  /\ UNCHANGED <<seq, log, subs, queue, flag, pub, seen, joined, skips>>

(* The loops that had come past place i of the list.                        *)
Past(i) == {pub[p].event.seq : p \in {r \in Publishers : pub[r].stage = "fan" /\ i < pub[r].i}}

(* The finally clause takes a queue out of the list: the first that is      *)
(* equal to its own, for list.remove compares deques by what they hold.     *)
(* What follows it moves up, and a loop that had come past it skips one.    *)
Unsubscribe(c) ==
  LET same == {i \in DOMAIN subs : queue[subs[i]] = queue[c]} IN
  /\ at[c] = "leave"
  /\ IF same = {} THEN UNCHANGED <<subs, skips>>
     ELSE /\ subs' = RemoveAt(subs, Min(same))
          /\ skips' = skips \cup Past(Min(same))
  /\ Move(c, "gone")
  /\ UNCHANGED <<seq, log, queue, flag, pub, seen, joined, leaves>>

-----------------------------------------------------------------------------
Publish(p) == TakeSeq(p) \/ AppendLog(p) \/ FanOut(p) \/ Notify(p)

(* What a handler does while its client is connected.                       *)
Serve(c) ==
  \/ Replay(c) \/ Subscribe(c) \/ TakeOne(c) \/ FindEmpty(c)
  \/ EnterWait(c) \/ TimeOut(c) \/ Clear(c) \/ Unsubscribe(c)

Next ==
  \/ \E p \in Publishers : Publish(p)
  \/ \E c \in Clients : OpenStream(c) \/ OpenTask(c) \/ Serve(c) \/ GoAway(c)

Spec == Init /\ [][Next]_vars

(* A publisher finishes the event it began, and a handler whose client is   *)
(* there goes on; its wait ends after 30 seconds at the latest.             *)
Fairness ==
  /\ \A p \in Publishers : WF_vars(AppendLog(p) \/ FanOut(p) \/ Notify(p))
  /\ \A c \in Clients : WF_vars(Serve(c))

FairSpec == Spec /\ Fairness

-----------------------------------------------------------------------------
(* Properties.                                                              *)

(* The events that every queue in the list has been offered.                *)
Spread == {n \in 1 .. seq : \A p \in Publishers :
             pub[p].event.seq = n => pub[p].stage \notin {"log", "fan"}}

Numbers(s) == {s[i].seq : i \in DOMAIN s}

(* No two events carry the same number, in the log or on their way to it.   *)
SeqIsUnique ==
  /\ IsInjective([i \in DOMAIN log |-> log[i].seq])
  /\ \A p, r \in Publishers :
       p # r /\ pub[p].stage # "idle" /\ pub[r].stage # "idle"
         => pub[p].event.seq # pub[r].event.seq
  /\ \A p \in Publishers : pub[p].stage = "log" => pub[p].event.seq \notin Numbers(log)

Connected(c) == at[c] \in {"loop", "enter", "blocked", "clear"}
Times(n, s) == Cardinality({i \in DOMAIN s : s[i] = n})

Offers(n, c) == Times(n, seen[c]) + Cardinality({i \in DOMAIN queue[c] : queue[c][i].seq = n})

(* A connected client is offered no event twice of those published after it *)
(* subscribed, whichever threads publish at the same time and whoever comes *)
(* and goes meanwhile; and it is offered each of them, unless its queue was *)
(* taken out of the list for another's equal one, or one was taken out      *)
(* while the event was on its way (10653-10654, 10913-10914).               *)
StreamIsComplete ==
  \A c \in Streams : Connected(c) => \A n \in Spread : n > joined[c] =>
    /\ Offers(n, c) <= 1
    /\ c \in ToSet(subs) /\ n \notin skips => Offers(n, c) = 1

(* Whatever a handler's queue holds is written or the client is gone: a     *)
(* lost wake-up delays an event, it does not keep it for ever.              *)
QueueDrains == \A c \in Clients : queue[c] # <<>> ~> (queue[c] = <<>> \/ at[c] = "gone")

=============================================================================
