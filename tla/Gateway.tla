------------------------------- MODULE Gateway -------------------------------
(***************************************************************************)
(* The gateway (src/gateway/server.py): a registry of agents with their    *)
(* sockets and callbacks, queues for those who poll, and a handler per     *)
(* socket.  All of it runs on one event loop; handlers interleave at their *)
(* awaits.                                                                 *)
(*                                                                         *)
(* The id of an agent stands for the encoded one of the paths: the         *)
(* conversion is one to one where ids have no underscore.                  *)
(***************************************************************************)
EXTENDS Naturals, Sequences, FiniteSets, SequencesExt

CONSTANTS
  Agents,
  Sockets,     (* WebSocket connections, each used once                     *)
  AgentOf,     (* the agent of a socket's path                              *)
  Nobody,
  Batch,       (* the limit of dequeue                                      *)
  MaxMsgs,     (* bound: messages sent                                      *)
  MaxBreaks    (* bound: sockets whose client goes away                     *)

ASSUME GatewayAssumption ==
  /\ AgentOf \in [Sockets -> Agents] /\ Nobody \notin Sockets
  /\ Batch \in Nat \ {0} /\ MaxMsgs \in Nat /\ MaxBreaks \in Nat

VARIABLES
  agents,      (* registry._agents                                          *)
  ws,          (* registry._ws_connections                                  *)
  callbacks,   (* registry._http_callbacks                                  *)
  queues,      (* msg_store._queues                                         *)
  sock,        (* per socket: where its handler is, what it still flushes   *)
  open,        (* sockets whose client is there                             *)
  sends,       (* deliveries under way; by is the socket it was read from   *)
  sent, breaks,
  given,       (* history: what each agent was given from its queue, in order *)
  pushed,      (* history: messages given by deliver                        *)
  accepted,    (* history: messages answered 202                            *)
  spilled,     (* history: taken from a queue and lost with the socket      *)
  tangled        (* history: agents that unregistered, had two sockets at once *)
               (* or connected while a failed send was to detach them       *)

registry == <<agents, ws, callbacks>>
history == <<given, pushed, accepted, spilled, tangled>>
vars == <<registry, queues, sock, open, sends, sent, breaks, history>>

Msgs == 1 .. MaxMsgs
Quiet == [at |-> "new", rest |-> <<>>]

TypeOK ==
  /\ agents \subseteq Agents /\ callbacks \subseteq Agents /\ open \subseteq Sockets
  /\ \A a \in Agents : ws[a] = Nobody \/ (ws[a] \in Sockets /\ AgentOf[ws[a]] = a)
  /\ queues \in [Agents -> Seq(Msgs)] /\ given \in [Agents -> Seq(Msgs)]
  /\ sock \in [Sockets -> [at : {"new", "flush", "loop", "gone"}, rest : Seq(Msgs)]]
  /\ \A s \in Sockets : Len(sock[s].rest) <= Batch
  /\ sends \subseteq [msg : Msgs, to : Agents, at : {"start", "failed", "callback"}, by : Sockets \cup {Nobody}]
  /\ accepted \subseteq Msgs /\ spilled \subseteq Msgs /\ pushed \in [Agents -> SUBSET Msgs]

Init ==
  /\ agents = {} /\ callbacks = {} /\ ws = [a \in Agents |-> Nobody]
  /\ queues = [a \in Agents |-> <<>>]
  /\ sock = [s \in Sockets |-> Quiet] /\ open = {} /\ sends = {}
  /\ sent = 0 /\ breaks = 0
  /\ given = [a \in Agents |-> <<>>] /\ pushed = [a \in Agents |-> {}]
  /\ accepted = {} /\ spilled = {} /\ tangled = {}

-----------------------------------------------------------------------------
(* The registry.                                                            *)

Register(a, hasCallback) ==
  /\ agents' = agents \cup {a}
  /\ callbacks' = IF hasCallback THEN callbacks \cup {a} ELSE callbacks
  /\ UNCHANGED <<ws, queues, sock, open, sends, sent, breaks, history>>

Unregister(a) ==
  /\ agents' = agents \ {a} /\ callbacks' = callbacks \ {a}
  /\ ws' = [ws EXCEPT ![a] = Nobody]
  /\ tangled' = tangled \cup {a}
  /\ UNCHANGED <<queues, sock, open, sends, sent, breaks, given, pushed, accepted, spilled>>

-----------------------------------------------------------------------------
(* The queues.                                                              *)

Head10(q) == SubSeq(q, 1, IF Len(q) < Batch THEN Len(q) ELSE Batch)
Tail10(q) == SubSeq(q, Batch + 1, Len(q))

(* Mutant: the queue is emptied.                                            *)
Dequeue_All(a) == queues' = [queues EXCEPT ![a] = <<>>]

Dequeue(a) == queues' = [queues EXCEPT ![a] = Tail10(@)]

Enqueue(a, m) ==
  /\ queues' = [queues EXCEPT ![a] = Append(@, m)]
  /\ accepted' = accepted \cup {m}

(* Mutant: what was read stays in the queue.                                *)
PollInbox_Peek(a) ==
  /\ queues[a] # <<>>
  /\ given' = [given EXCEPT ![a] = @ \o Head10(queues[a])]
  /\ UNCHANGED <<registry, queues, sock, open, sends, sent, breaks, pushed, accepted, spilled, tangled>>

(* GET inbox.                                                               *)
PollInbox(a) ==
  /\ queues[a] # <<>>
  /\ Dequeue(a)
  /\ given' = [given EXCEPT ![a] = @ \o Head10(queues[a])]
  /\ UNCHANGED <<registry, sock, open, sends, sent, breaks, pushed, accepted, spilled, tangled>>

-----------------------------------------------------------------------------
(* Messages.                                                                *)

(* POST messages: for one who is not registered the message is queued, else *)
(* the delivery begins.                                                     *)
PostMessage(a) ==
  /\ sent < MaxMsgs /\ sent' = sent + 1
  /\ IF a \in agents
     THEN /\ sends' = sends \cup {[msg |-> sent + 1, to |-> a, at |-> "start", by |-> Nobody]}
          /\ UNCHANGED <<queues, accepted>>
     ELSE Enqueue(a, sent + 1) /\ UNCHANGED sends
  /\ UNCHANGED <<registry, sock, open, breaks, given, pushed, spilled, tangled>>

Reading(s) == sock[s].at = "loop" /\ \A d \in sends : d.by # s

(* A message read from a socket is delivered, whoever its recipient is; the *)
(* handler waits for it.                                                    *)
RouteFrom(s, a) ==
  /\ Reading(s) /\ s \in open
  /\ sent < MaxMsgs /\ sent' = sent + 1
  /\ sends' = sends \cup {[msg |-> sent + 1, to |-> a, at |-> "start", by |-> s]}
  /\ UNCHANGED <<registry, queues, sock, open, breaks, history>>

(* The end of a delivery without an answer: the caller of POST messages     *)
(* queues the message, the handler of a socket does not.                    *)
Undelivered(d) ==
  IF d.by = Nobody THEN Enqueue(d.to, d.msg) ELSE UNCHANGED <<queues, accepted>>

(* Mutant: a socket that took a message is detached.                        *)
DeliverWs_Detach(d) ==
  /\ d.at = "start" /\ ws[d.to] \in open
  /\ sends' = sends \ {d}
  /\ pushed' = [pushed EXCEPT ![d.to] = @ \cup {d.msg}]
  /\ ws' = [ws EXCEPT ![d.to] = Nobody]
  /\ Undelivered(d)
  /\ UNCHANGED <<agents, callbacks, sock, open, sent, breaks, given, spilled, tangled>>

(* deliver over the socket; it answers None here as well.                   *)
DeliverWs(d) ==
  /\ d.at = "start" /\ ws[d.to] \in open
  /\ sends' = sends \ {d}
  /\ pushed' = [pushed EXCEPT ![d.to] = @ \cup {d.msg}]
  /\ Undelivered(d)
  /\ UNCHANGED <<registry, sock, open, sent, breaks, given, spilled, tangled>>

At(d, place) == sends' = (sends \ {d}) \cup {[d EXCEPT !.at = place]}

DeliverNoWs(d) ==
  /\ d.at = "start" /\ ws[d.to] = Nobody
  /\ At(d, "callback")
  /\ UNCHANGED <<registry, queues, sock, open, sent, breaks, history>>

(* A socket that fails: then the agent is detached, whichever socket is its *)
(* own by then, and the callback is tried.                                  *)
DeliverWsFails(d) ==
  /\ d.at = "start" /\ ws[d.to] # Nobody /\ ws[d.to] \notin open
  /\ At(d, "failed")
  /\ UNCHANGED <<registry, queues, sock, open, sent, breaks, history>>

DetachFailed(d) ==
  /\ d.at = "failed"
  /\ ws' = [ws EXCEPT ![d.to] = Nobody]
  /\ At(d, "callback")
  /\ UNCHANGED <<agents, callbacks, queues, sock, open, sent, breaks, history>>

(* The callback: not there, not reached, reached but answered with an error *)
(* or nothing, or answered, which is the reply to the sender.  A socket     *)
(* that is gone by then fails its handler; whether the failure is the one   *)
(* that detaches depends on the library.                                    *)
DeliverCallback(d, reached, answer) ==
  /\ d.at = "callback" /\ (reached => d.to \in callbacks)
  /\ answer => reached
  /\ sends' = sends \ {d}
  /\ pushed' = IF reached THEN [pushed EXCEPT ![d.to] = @ \cup {d.msg}] ELSE pushed
  /\ IF answer THEN UNCHANGED <<queues, accepted>> ELSE Undelivered(d)
  /\ IF answer /\ d.by # Nobody /\ d.by \notin open
     THEN /\ sock' = [sock EXCEPT ![d.by].at = "gone"]
          /\ \/ ws' = [ws EXCEPT ![AgentOf[d.by]] = Nobody]
             \/ UNCHANGED ws
     ELSE UNCHANGED <<sock, ws>>
  /\ UNCHANGED <<agents, callbacks, open, sent, breaks, given, spilled, tangled>>

-----------------------------------------------------------------------------
(* Sockets.                                                                 *)

(* A socket is attached, and up to ten messages leave the queue.            *)
Connect(s) ==
  LET a == AgentOf[s]
  IN /\ sock[s].at = "new"
     /\ ws' = [ws EXCEPT ![a] = s]
     /\ sock' = [sock EXCEPT ![s] = [at |-> "flush", rest |-> Head10(queues[a])]]
     /\ Dequeue(a)
     /\ open' = open \cup {s}
     /\ tangled' = IF \/ \E x \in Sockets \ {s} : AgentOf[x] = a /\ sock[x].at \in {"flush", "loop"}
                    \/ \E d \in sends : d.to = a /\ d.at = "failed"
                 THEN tangled \cup {a} ELSE tangled
     /\ UNCHANGED <<agents, callbacks, sends, sent, breaks, given, pushed, accepted, spilled>>

(* They are sent one by one.  A send that fails ends the handler, without a *)
(* detach: it is outside the try.                                           *)
Flush(s) ==
  LET r == sock[s].rest
  IN /\ sock[s].at = "flush"
     /\ IF r = <<>>
        THEN sock' = [sock EXCEPT ![s].at = "loop"] /\ UNCHANGED <<given, spilled>>
        ELSE IF s \in open
        THEN /\ sock' = [sock EXCEPT ![s].rest = Tail(r)]
             /\ given' = [given EXCEPT ![AgentOf[s]] = Append(@, Head(r))]
             /\ UNCHANGED spilled
        ELSE /\ sock' = [sock EXCEPT ![s] = [at |-> "gone", rest |-> <<>>]]
             /\ spilled' = spilled \cup {r[i] : i \in DOMAIN r}
             /\ UNCHANGED given
     /\ UNCHANGED <<registry, queues, open, sends, sent, breaks, pushed, accepted, tangled>>

(* agent.hello.                                                             *)
Hello(s) ==
  /\ Reading(s) /\ s \in open
  /\ Register(AgentOf[s], FALSE)

Break(s) ==
  /\ s \in open /\ breaks < MaxBreaks
  /\ open' = open \ {s} /\ breaks' = breaks + 1
  /\ UNCHANGED <<registry, queues, sock, sends, sent, history>>

(* The handler finds its client gone and detaches the agent, whichever      *)
(* socket is attached by now.                                               *)
Disconnected(s) ==
  /\ Reading(s) /\ s \notin open
  /\ sock' = [sock EXCEPT ![s].at = "gone"]
  /\ ws' = [ws EXCEPT ![AgentOf[s]] = Nobody]
  /\ UNCHANGED <<agents, callbacks, queues, open, sends, sent, breaks, history>>

Next ==
  \/ \E a \in Agents : \/ \E c \in BOOLEAN : Register(a, c)
                       \/ Unregister(a) \/ PollInbox(a) \/ PostMessage(a)
  \/ \E s \in Sockets : \/ Connect(s) \/ Flush(s) \/ Hello(s) \/ Break(s) \/ Disconnected(s)
                        \/ \E a \in Agents : RouteFrom(s, a)
  \/ \E d \in sends : \/ DeliverWs(d) \/ DeliverNoWs(d) \/ DeliverWsFails(d) \/ DetachFailed(d)
                      \/ \E reached, answer \in BOOLEAN : DeliverCallback(d, reached, answer)

Spec == Init /\ [][Next]_vars

-----------------------------------------------------------------------------
(* Properties.                                                              *)

Waiting(a) == ToSet(queues[a]) \cup UNION {ToSet(sock[s].rest) : s \in {x \in Sockets : AgentOf[x] = a}}
Reached(a) == pushed[a] \cup ToSet(given[a])

(* A message whose sender was told it is queued reaches its recipient, or   *)
(* waits for it, or was lost with a socket that broke in its flush.         *)
AcceptedIsNotLost ==
  \A m \in accepted : m \in spilled \/ \E a \in Agents : m \in Waiting(a) \cup Reached(a)

(* A queue gives a message once: what is given twice was pushed before it   *)
(* was queued.                                                              *)
QueueGivesOnce ==
  \A a \in Agents : /\ IsInjective(given[a]) /\ IsInjective(queues[a])
                    /\ ToSet(given[a]) \cap Waiting(a) = {}

(* While its only socket is read, an agent that did not unregister is       *)
(* attached to it, so that a message goes to the socket first.              *)
ReadIsAttached ==
  \A s \in Sockets : sock[s].at = "loop" /\ s \in open /\ AgentOf[s] \notin tangled => ws[AgentOf[s]] = s

(* The gateway loses no message it accepted but for a socket that broke,    *)
(* gives out each queue entry once, and reads only from attached sockets.   *)
GatewayDelivers == AcceptedIsNotLost /\ QueueGivesOnce /\ ReadIsAttached

=============================================================================
