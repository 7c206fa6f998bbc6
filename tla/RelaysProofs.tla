----------------------------- MODULE RelaysProofs -----------------------------
(* Proofs about the relays, for any agents, sockets, relays, tokens, ids,   *)
(* pollers, members and limits: the gateway (of its own specification), and *)
(* the federation, the HTTP relay with its address records, and the groups  *)
(* (of SpecAll, whose behaviours are each one of one part).  A part has its *)
(* own inductive invariant; the steps of the other parts leave it alone.    *)
EXTENDS MCRelays, PickingProofs

-----------------------------------------------------------------------------
(* The inductive invariant, in parts.                                       *)

(* Types; and only the handler that flushes holds messages.                 *)
Types ==
  /\ agents \subseteq Agents /\ callbacks \subseteq Agents /\ open \subseteq Sockets
  /\ ws \in [Agents -> Sockets \cup {Nobody}]
  /\ \A a \in Agents : ws[a] = Nobody \/ AgentOf[ws[a]] = a
  /\ queues \in [Agents -> Seq(Msgs)] /\ given \in [Agents -> Seq(Msgs)]
  /\ sock \in [Sockets -> [at : {"new", "flush", "loop", "gone"}, rest : Seq(Msgs)]]
  /\ \A s \in Sockets : /\ Len(sock[s].rest) <= Batch
                        /\ sock[s].at # "flush" => sock[s].rest = <<>>
  /\ sends \subseteq [msg : Msgs, to : Agents, at : {"start", "failed", "callback"}, by : Sockets \cup {Nobody}]
  /\ accepted \subseteq Msgs /\ spilled \subseteq Msgs /\ pushed \in [Agents -> SUBSET Msgs]
  /\ sent \in 0 .. MaxMsgs

(* The messages of an agent's queue, wherever they are by now.              *)
Held(a) == Waiting(a) \cup ToSet(given[a])

(* A message gets its number when it is sent; the queue does not have what  *)
(* is still being delivered, which one delivery does.                       *)
Numbered ==
  /\ \A a \in Agents : \A m \in Held(a) : m <= sent
  /\ \A d \in sends : /\ d.msg <= sent
                      /\ \A a \in Agents : d.msg \notin Held(a)
                      /\ \A e \in sends : e.msg = d.msg => e = d

(* A message of the queue is in one place: in the queue, with one socket    *)
(* that flushes, or given.                                                  *)
OnePlace ==
  /\ QueueGivesOnce
  /\ \A s \in Sockets :
       /\ IsInjective(sock[s].rest)
       /\ ToSet(sock[s].rest) \cap ToSet(queues[AgentOf[s]]) = {}
       /\ \A x \in Sockets : AgentOf[x] = AgentOf[s] /\ x # s =>
            ToSet(sock[s].rest) \cap ToSet(sock[x].rest) = {}

(* A handler waits for the delivery of the message it read.                 *)
HandlersWait ==
  \A d \in sends : d.by # Nobody => /\ sock[d.by].at = "loop"
                                    /\ \A e \in sends : e.by = d.by => e = d

(* An agent that is not tangled has one handler, whose socket is attached   *)
(* as long as its client is there; who failed to send to it found it gone.  *)
Active(s) == sock[s].at \in {"flush", "loop"}
OneHandler ==
  /\ \A s \in Sockets : Active(s) /\ AgentOf[s] \notin tangled =>
       /\ s \in open => ws[AgentOf[s]] = s
       /\ \A x \in Sockets : Active(x) /\ AgentOf[x] = AgentOf[s] => x = s
  /\ \A d \in sends : d.at = "failed" /\ d.to \notin tangled =>
       \A s \in Sockets : Active(s) /\ AgentOf[s] = d.to => s \notin open

GatewayInv == Types /\ Numbered /\ OnePlace /\ AcceptedIsNotLost /\ HandlersWait /\ OneHandler

-----------------------------------------------------------------------------
(* The messages of an agent.                                                *)

LEMMA HeldIs ==
  ASSUME NEW a, NEW m
  PROVE  /\ m \in Waiting(a) <=> m \in ToSet(queues[a])
                                 \/ \E s \in Sockets : AgentOf[s] = a /\ m \in ToSet(sock[s].rest)
         /\ m \in Held(a) <=> m \in Waiting(a) \/ m \in ToSet(given[a])
BY DEF Waiting, Held

LEMMA BatchOf ==
  ASSUME NEW q \in Seq(Msgs)
  PROVE  /\ Head10(q) \in Seq(Msgs) /\ Tail10(q) \in Seq(Msgs) /\ Len(Head10(q)) <= Batch
         /\ ToSet(q) = ToSet(Head10(q)) \cup ToSet(Tail10(q))
         /\ IsInjective(q) => /\ IsInjective(Head10(q)) /\ IsInjective(Tail10(q))
                              /\ ToSet(Head10(q)) \cap ToSet(Tail10(q)) = {}
<1> DEFINE n == IF Len(q) < Batch THEN Len(q) ELSE Batch
<1>1. n \in 0 .. Len(q) /\ n <= Batch /\ Len(q) \in Nat /\ Batch \in Nat
  BY GatewayAssumption
<1>2. Head10(q) = SubSeq(q, 1, n)
  BY DEF Head10
<1>3. Tail10(q) = SubSeq(q, n + 1, Len(q))
  <2>1. CASE Len(q) < Batch
    <3>1. SubSeq(q, Batch + 1, Len(q)) = <<>> /\ SubSeq(q, Len(q) + 1, Len(q)) = <<>>
      BY <1>1, <2>1
    <3> QED BY <2>1, <3>1 DEF Tail10
  <2>2. CASE ~(Len(q) < Batch)
    BY <2>2 DEF Tail10
  <2> QED BY <2>1, <2>2
<1> HIDE DEF n
<1> QED BY <1>1, <1>2, <1>3, PartsOf

Delivery == [msg : Msgs, to : Agents, at : {"start", "failed", "callback"}, by : Sockets \cup {Nobody}]
Handler == [at : {"new", "flush", "loop", "gone"}, rest : Seq(Msgs)]

(* A delivery that goes on is the same but for its place.                   *)
LEMMA GoesOn ==
  ASSUME NEW d \in Delivery, NEW place \in {"failed", "callback"}
  PROVE  LET e == [d EXCEPT !.at = place]
         IN e \in Delivery /\ e.msg = d.msg /\ e.to = d.to /\ e.by = d.by /\ e.at = place
BY DEF Delivery

LEMMA HandlerAt ==
  ASSUME NEW h \in Handler, NEW place \in {"loop", "gone"}
  PROVE  [h EXCEPT !.at = place] \in Handler /\ [h EXCEPT !.at = place].rest = h.rest
         /\ [h EXCEPT !.at = place].at = place
BY DEF Handler

LEMMA HandlerRest ==
  ASSUME NEW h \in Handler, NEW q \in Seq(Msgs)
  PROVE  [h EXCEPT !.rest = q] \in Handler /\ [h EXCEPT !.rest = q].rest = q
         /\ [h EXCEPT !.rest = q].at = h.at
BY DEF Handler

-----------------------------------------------------------------------------
(* Types.                                                                   *)

LEMMA QueueTyped ==
  ASSUME Types, NEW a \in Agents, NEW m \in Msgs, Enqueue(a, m)
  PROVE  queues' \in [Agents -> Seq(Msgs)] /\ accepted' \subseteq Msgs
BY DEF Types, Enqueue

LEMMA UndeliveredTyped ==
  ASSUME Types, NEW d \in Delivery, Undelivered(d) \/ UNCHANGED <<queues, accepted>>
  PROVE  queues' \in [Agents -> Seq(Msgs)] /\ accepted' \subseteq Msgs
<1>1. d.to \in Agents /\ d.msg \in Msgs
  BY DEF Delivery
<1>2. CASE Enqueue(d.to, d.msg)
  BY <1>1, <1>2, QueueTyped
<1>3. CASE UNCHANGED <<queues, accepted>>
  BY <1>3 DEF Types
<1> QED BY <1>2, <1>3 DEF Undelivered

LEMMA SendsTyped ==
  ASSUME Types, NEW d \in sends, NEW place \in {"failed", "callback"}, At(d, place)
  PROVE  sends' \subseteq Delivery
<1>1. d \in Delivery /\ sends \subseteq Delivery
  BY DEF Types, Delivery
<1> QED BY <1>1, GoesOn DEF At

LEMMA SentTyped ==
  ASSUME Types, sent < MaxMsgs, sent' = sent + 1
  PROVE  sent + 1 \in Msgs /\ sent' \in 0 .. MaxMsgs
BY GatewayAssumption DEF Types, Msgs

LEMMA TypesStep ==
  ASSUME Types, HandlersWait, [Next]_vars
  PROVE  Types'
<1> USE DEF registry, history
<1>c. AgentOf \in [Sockets -> Agents] /\ Nobody \notin Sockets /\ Batch \in Nat
  BY GatewayAssumption
<1>d. sends \subseteq Delivery /\ sock \in [Sockets -> Handler]
  BY DEF Types, Delivery, Handler
<1>1. ASSUME NEW a \in Agents, NEW c \in BOOLEAN, Register(a, c) PROVE Types'
  BY <1>1 DEF Types, Register
<1>2. ASSUME NEW a \in Agents, Unregister(a) PROVE Types'
  BY <1>2 DEF Types, Unregister
<1>3. ASSUME NEW a \in Agents, PollInbox(a) PROVE Types'
  <2>1. queues[a] \in Seq(Msgs) /\ given[a] \in Seq(Msgs)
    BY DEF Types
  <2>2. Tail10(queues[a]) \in Seq(Msgs) /\ given[a] \o Head10(queues[a]) \in Seq(Msgs)
    BY <2>1, BatchOf
  <2> QED BY <1>3, <2>2 DEF Types, PollInbox, Dequeue
<1>4. ASSUME NEW a \in Agents, PostMessage(a) PROVE Types'
  <2>1. sent + 1 \in Msgs /\ sent' \in 0 .. MaxMsgs
    BY <1>4, SentTyped DEF PostMessage
  <2>2. CASE a \in agents
    BY <1>4, <2>1, <2>2 DEF Types, PostMessage
  <2>3. CASE a \notin agents
    <3>1. queues' \in [Agents -> Seq(Msgs)] /\ accepted' \subseteq Msgs /\ sends' = sends
      BY <1>4, <2>1, <2>3, QueueTyped DEF PostMessage
    <3> QED BY <1>4, <2>1, <3>1 DEF Types, PostMessage
  <2> QED BY <2>2, <2>3
<1>5. ASSUME NEW s \in Sockets, NEW a \in Agents, RouteFrom(s, a) PROVE Types'
  <2>1. sent + 1 \in Msgs /\ sent' \in 0 .. MaxMsgs
    BY <1>5, SentTyped DEF RouteFrom
  <2> QED BY <1>5, <2>1 DEF Types, RouteFrom
<1>6. ASSUME NEW d \in sends, DeliverWs(d) PROVE Types'
  <2>1. queues' \in [Agents -> Seq(Msgs)] /\ accepted' \subseteq Msgs
    BY <1>6, <1>d, UndeliveredTyped DEF DeliverWs
  <2>2. d.msg \in Msgs
    BY <1>d DEF Delivery
  <2>3. pushed' \in [Agents -> SUBSET Msgs]
    BY <1>6, <2>2 DEF Types, DeliverWs
  <2> QED BY <1>6, <2>1, <2>3 DEF Types, DeliverWs
<1>7. ASSUME NEW d \in sends, DeliverNoWs(d) \/ DeliverWsFails(d) PROVE Types'
  <2>1. sends' \subseteq Delivery
    BY <1>7, SendsTyped DEF DeliverNoWs, DeliverWsFails
  <2> QED BY <1>7, <2>1 DEF Types, DeliverNoWs, DeliverWsFails, Delivery
<1>8. ASSUME NEW d \in sends, DetachFailed(d) PROVE Types'
  <2>1. sends' \subseteq Delivery
    BY <1>8, SendsTyped DEF DetachFailed
  <2> QED BY <1>8, <2>1 DEF Types, DetachFailed, Delivery
<1>9. ASSUME NEW d \in sends, NEW reached \in BOOLEAN, NEW answer \in BOOLEAN,
             DeliverCallback(d, reached, answer)
      PROVE  Types'
  <2>1. queues' \in [Agents -> Seq(Msgs)] /\ accepted' \subseteq Msgs
    BY <1>9, <1>d, UndeliveredTyped DEF DeliverCallback
  <2>2. d.msg \in Msgs /\ d.by \in Sockets \cup {Nobody}
    BY <1>d DEF Delivery
  <2>3. pushed' \in [Agents -> SUBSET Msgs]
    BY <1>9, <2>2 DEF Types, DeliverCallback
  <2>4. /\ ws' \in [Agents -> Sockets \cup {Nobody}]
        /\ \A a \in Agents : ws'[a] = Nobody \/ AgentOf[ws'[a]] = a
    <3>1. CASE ws' = ws
      BY <3>1 DEF Types
    <3>2. CASE ws' = [ws EXCEPT ![AgentOf[d.by]] = Nobody]
      BY <3>2 DEF Types
    <3> QED BY <1>9, <3>1, <3>2 DEF DeliverCallback
  <2>5. sock' \in [Sockets -> Handler] /\ \A s \in Sockets : Len(sock'[s].rest) <= Batch
                                          /\ (sock'[s].at # "flush" => sock'[s].rest = <<>>)
    <3>1. CASE sock' = sock
      BY <3>1, <1>d DEF Types
    <3>2. CASE d.by # Nobody /\ sock' = [sock EXCEPT ![d.by].at = "gone"]
      <4>1. sock' = [sock EXCEPT ![d.by] = [sock[d.by] EXCEPT !.at = "gone"]] /\ d.by \in Sockets
        BY <2>2, <3>2
      <4>2. sock[d.by].at = "loop"
        BY <3>2 DEF HandlersWait
      <4> QED BY <1>d, <4>1, <4>2, HandlerAt DEF Types
    <3> QED BY <1>9, <3>1, <3>2 DEF DeliverCallback
  <2> QED BY <1>9, <2>1, <2>3, <2>4, <2>5 DEF Types, DeliverCallback, Handler
<1>10. ASSUME NEW s \in Sockets, Connect(s) PROVE Types'
  <2> DEFINE a == AgentOf[s]
             new == [at |-> "flush", rest |-> Head10(queues[a])]
  <2>1. a \in Agents /\ queues[a] \in Seq(Msgs)
    BY <1>c DEF Types
  <2>2. Head10(queues[a]) \in Seq(Msgs) /\ Tail10(queues[a]) \in Seq(Msgs) /\ Len(Head10(queues[a])) <= Batch
    BY <2>1, BatchOf
  <2>3. new \in Handler /\ new.rest = Head10(queues[a]) /\ new.at = "flush"
    BY <2>2 DEF Handler
  <2> HIDE DEF new
  <2>4. sock' = [sock EXCEPT ![s] = new]
    BY <1>10 DEF Connect, new
  <2>5. sock' \in [Sockets -> Handler] /\ \A x \in Sockets : Len(sock'[x].rest) <= Batch
                                          /\ (sock'[x].at # "flush" => sock'[x].rest = <<>>)
    BY <1>d, <2>2, <2>3, <2>4 DEF Types
  <2>6. queues' \in [Agents -> Seq(Msgs)]
    BY <1>10, <2>2 DEF Connect, Dequeue, Types
  <2>7. /\ ws' \in [Agents -> Sockets \cup {Nobody}]
        /\ \A b \in Agents : ws'[b] = Nobody \/ AgentOf[ws'[b]] = b
    BY <1>10, <1>c DEF Types, Connect
  <2>8. open' \subseteq Sockets
    BY <1>10 DEF Types, Connect
  <2> QED BY <1>10, <2>5, <2>6, <2>7, <2>8 DEF Types, Connect, Handler
<1>11. ASSUME NEW s \in Sockets, Flush(s) PROVE Types'
  <2> DEFINE r == sock[s].rest
  <2>1. sock[s] \in Handler /\ r \in Seq(Msgs) /\ AgentOf[s] \in Agents
    BY <1>c, <1>d DEF Handler
  <2>2. Len(r) <= Batch /\ Len(r) \in Nat
    BY <2>1 DEF Types
  <2>3. CASE r = <<>>
    <3>1. sock' = [sock EXCEPT ![s] = [sock[s] EXCEPT !.at = "loop"]]
      BY <1>11, <2>3 DEF Flush
    <3>2. sock' \in [Sockets -> Handler] /\ \A x \in Sockets : Len(sock'[x].rest) <= Batch
                                            /\ (sock'[x].at # "flush" => sock'[x].rest = <<>>)
      BY <1>d, <2>1, <2>3, <3>1, HandlerAt DEF Types
    <3> QED BY <1>11, <2>3, <3>2 DEF Types, Flush, Handler
  <2>4. CASE r # <<>> /\ s \in open
    <3>0. Tail(r) \in Seq(Msgs) /\ Len(Tail(r)) <= Batch /\ Head(r) \in Msgs
      BY <2>1, <2>2, <2>4, <1>c
    <3>1. sock' = [sock EXCEPT ![s] = [sock[s] EXCEPT !.rest = Tail(r)]] /\ sock[s].at = "flush"
      BY <1>11, <2>4 DEF Flush
    <3>2. sock' \in [Sockets -> Handler] /\ \A x \in Sockets : Len(sock'[x].rest) <= Batch
                                            /\ (sock'[x].at # "flush" => sock'[x].rest = <<>>)
      <4> HIDE DEF r
      <4> QED BY <1>d, <2>1, <3>0, <3>1, HandlerRest, ZenonT(40) DEF Types
    <3>3. given' \in [Agents -> Seq(Msgs)]
      <4>1. given' = [given EXCEPT ![AgentOf[s]] = Append(given[AgentOf[s]], Head(r))]
        BY <1>11, <2>4 DEF Flush
      <4>2. Append(given[AgentOf[s]], Head(r)) \in Seq(Msgs)
        BY <2>1, <3>0 DEF Types
      <4> QED BY <4>1, <4>2 DEF Types
    <3> QED BY <1>11, <2>4, <3>2, <3>3 DEF Types, Flush, Handler
  <2>5. CASE r # <<>> /\ s \notin open
    <3> DEFINE new == [at |-> "gone", rest |-> <<>>]
    <3>0. new \in Handler /\ new.rest = <<>> /\ new.at = "gone" /\ Len(<<>>) <= Batch
      BY <1>c DEF Handler
    <3> HIDE DEF new
    <3>1. sock' = [sock EXCEPT ![s] = new]
      BY <1>11, <2>5 DEF Flush, new
    <3>2. sock' \in [Sockets -> Handler] /\ \A x \in Sockets : Len(sock'[x].rest) <= Batch
                                            /\ (sock'[x].at # "flush" => sock'[x].rest = <<>>)
      BY <1>d, <3>0, <3>1 DEF Types
    <3>3. {r[i] : i \in DOMAIN r} \subseteq Msgs
      BY <2>1
    <3>4. spilled' \subseteq Msgs
      BY <1>11, <2>5, <3>3 DEF Types, Flush
    <3> QED BY <1>11, <2>5, <3>2, <3>4 DEF Types, Flush, Handler
  <2> QED BY <2>3, <2>4, <2>5
<1>12. ASSUME NEW s \in Sockets, Hello(s) PROVE Types'
  BY <1>12, <1>1, <1>c DEF Hello
<1>13. ASSUME NEW s \in Sockets, Break(s) PROVE Types'
  BY <1>13 DEF Types, Break
<1>14. ASSUME NEW s \in Sockets, Disconnected(s) PROVE Types'
  <2>1. sock' = [sock EXCEPT ![s] = [sock[s] EXCEPT !.at = "gone"]] /\ sock[s].at = "loop"
    BY <1>14 DEF Disconnected, Reading
  <2>2. sock' \in [Sockets -> Handler] /\ \A x \in Sockets : Len(sock'[x].rest) <= Batch
                                          /\ (sock'[x].at # "flush" => sock'[x].rest = <<>>)
    BY <1>d, <2>1, HandlerAt DEF Types
  <2>3. /\ ws' \in [Agents -> Sockets \cup {Nobody}]
        /\ \A a \in Agents : ws'[a] = Nobody \/ AgentOf[ws'[a]] = a
    BY <1>14 DEF Types, Disconnected
  <2> QED BY <1>14, <2>2, <2>3 DEF Types, Disconnected, Handler
<1>15. CASE UNCHANGED vars
  BY <1>15 DEF Types, vars
<1> QED BY <1>1, <1>2, <1>3, <1>4, <1>5, <1>6, <1>7, <1>8, <1>9, <1>10, <1>11, <1>12, <1>13, <1>14, <1>15
        DEF Next

-----------------------------------------------------------------------------
(* What the steps do to the messages of an agent.                           *)

Rests == [s \in Sockets |-> sock[s].rest]
Places == <<queues, given, Rests>>

LEMMA PlacesTyped ==
  ASSUME Types
  PROVE  /\ \A a \in Agents : queues[a] \in Seq(Msgs) /\ given[a] \in Seq(Msgs)
         /\ \A s \in Sockets : Rests[s] = sock[s].rest /\ Rests[s] \in Seq(Msgs) /\ AgentOf[s] \in Agents
BY GatewayAssumption DEF Types, Rests

(* OnePlace says something of the queues, of what was given and of the      *)
(* rests alone.                                                             *)
LEMMA SamePlaces ==
  ASSUME UNCHANGED Places
  PROVE  /\ \A a \in Agents : Held(a)' = Held(a) /\ Waiting(a)' = Waiting(a)
         /\ OnePlace => OnePlace'
<1>1. /\ queues' = queues /\ given' = given
      /\ \A s \in Sockets : sock'[s].rest = sock[s].rest
  <2>1. \A s \in Sockets : Rests'[s] = sock'[s].rest /\ Rests[s] = sock[s].rest
    BY DEF Rests
  <2> QED BY <2>1 DEF Places
<1>2. \A a \in Agents : Waiting(a)' = Waiting(a)
  BY <1>1 DEF Waiting
<1>3. \A a \in Agents : Held(a)' = Held(a)
  BY <1>1, <1>2 DEF Held
<1>4. OnePlace => OnePlace'
  BY <1>1, <1>2 DEF OnePlace, QueueGivesOnce
<1> QED BY <1>2, <1>3, <1>4

(* A message is queued that the agent does not have.                        *)
LEMMA Queued ==
  ASSUME Types, NEW a \in Agents, NEW m \in Msgs, queues' = [queues EXCEPT ![a] = Append(@, m)],
         UNCHANGED <<given, Rests>>
  PROVE  /\ \A b \in Agents : Held(b)' = IF b = a THEN Held(b) \cup {m} ELSE Held(b)
         /\ OnePlace /\ m \notin Held(a) => OnePlace'
<1>1. /\ queues'[a] = Append(queues[a], m) /\ \A b \in Agents \ {a} : queues'[b] = queues[b]
      /\ queues[a] \in Seq(Msgs)
  BY DEF Types
<1>2. \A s \in Sockets : sock'[s].rest = sock[s].rest /\ AgentOf[s] \in Agents
  <2>1. \A s \in Sockets : Rests'[s] = sock'[s].rest /\ Rests[s] = sock[s].rest
    BY DEF Rests
  <2> QED BY <2>1, GatewayAssumption
<1>3. ToSet(queues'[a]) = ToSet(queues[a]) \cup {m}
  BY <1>1, ElementsOfAppend
<1>4. \A b \in Agents : Waiting(b)' = IF b = a THEN Waiting(b) \cup {m} ELSE Waiting(b)
  BY <1>1, <1>2, <1>3 DEF Waiting
<1>5. \A b \in Agents : Held(b)' = IF b = a THEN Held(b) \cup {m} ELSE Held(b)
  BY <1>4 DEF Held
<1>6. ASSUME OnePlace, m \notin Held(a) PROVE OnePlace'
  <2>1. m \notin ToSet(queues[a]) /\ m \notin ToSet(given[a])
        /\ \A s \in Sockets : AgentOf[s] = a => m \notin ToSet(sock[s].rest)
    BY <1>6, HeldIs
  <2>2. IsInjective(queues'[a])
    BY <1>1, <1>6, <2>1, AppendKeepsInjective DEF OnePlace, QueueGivesOnce
  <2>3. QueueGivesOnce'
    BY <1>1, <1>4, <1>6, <2>1, <2>2 DEF OnePlace, QueueGivesOnce
  <2>4. ASSUME NEW s \in Sockets PROVE ToSet(sock'[s].rest) \cap ToSet(queues'[AgentOf[s]]) = {}
    <3>0. ToSet(sock[s].rest) \cap ToSet(queues[AgentOf[s]]) = {}
      BY <1>6 DEF OnePlace
    <3>1. CASE AgentOf[s] = a
      <4>1. m \notin ToSet(sock[s].rest)
        BY <2>1, <3>1
      <4>2. ToSet(queues'[AgentOf[s]]) = ToSet(queues[AgentOf[s]]) \cup {m}
        BY <1>3, <3>1
      <4> QED BY <1>2, <3>0, <4>1, <4>2
    <3>2. CASE AgentOf[s] # a
      BY <1>1, <1>2, <3>0, <3>2
    <3> QED BY <3>1, <3>2
  <2> QED BY <1>2, <1>6, <2>3, <2>4 DEF OnePlace
<1> QED BY <1>5, <1>6

(* A batch of the queue is given.                                           *)
LEMMA Polled ==
  ASSUME Types, NEW a \in Agents, PollInbox(a)
  PROVE  /\ \A b \in Agents : Held(b)' = Held(b)
         /\ OnePlace => OnePlace'
<1> DEFINE q == queues[a]
<1>1. /\ queues' = [queues EXCEPT ![a] = Tail10(q)]
      /\ given' = [given EXCEPT ![a] = given[a] \o Head10(q)] /\ sock' = sock
  BY DEF PollInbox, Dequeue
<1>2. q \in Seq(Msgs) /\ given[a] \in Seq(Msgs)
  BY DEF Types
<1>3. /\ queues'[a] = Tail10(q) /\ \A b \in Agents \ {a} : queues'[b] = queues[b]
      /\ given'[a] = given[a] \o Head10(q) /\ \A b \in Agents \ {a} : given'[b] = given[b]
  BY <1>1 DEF Types
<1>4. /\ Head10(q) \in Seq(Msgs) /\ Tail10(q) \in Seq(Msgs)
      /\ ToSet(q) = ToSet(Head10(q)) \cup ToSet(Tail10(q))
      /\ IsInjective(q) => /\ IsInjective(Head10(q)) /\ IsInjective(Tail10(q))
                           /\ ToSet(Head10(q)) \cap ToSet(Tail10(q)) = {}
  BY <1>2, BatchOf
<1>5. ToSet(given'[a]) = ToSet(given[a]) \cup ToSet(Head10(q))
  BY <1>2, <1>3, <1>4, ElementsOfBoth
<1>6. Waiting(a)' \cup ToSet(Head10(q)) = Waiting(a) /\ \A b \in Agents \ {a} : Waiting(b)' = Waiting(b)
  BY <1>1, <1>3, <1>4 DEF Waiting
<1>7. \A b \in Agents : Held(b)' = Held(b)
  BY <1>3, <1>5, <1>6 DEF Held
<1>8. ASSUME OnePlace PROVE OnePlace'
  <2>1. IsInjective(q) /\ IsInjective(given[a]) /\ ToSet(given[a]) \cap Waiting(a) = {}
    BY <1>8 DEF OnePlace, QueueGivesOnce
  <2>2. \A s \in Sockets : AgentOf[s] = a => ToSet(sock[s].rest) \cap ToSet(q) = {}
    BY <1>8 DEF OnePlace
  <2>3. ToSet(given[a]) \cap ToSet(Head10(q)) = {}
    BY <2>1, <1>6
  <2>4. IsInjective(given'[a])
    BY <1>2, <1>3, <1>4, <2>1, <2>3, BothInjective
  <2>5. ToSet(Head10(q)) \cap Waiting(a)' = {}
    <3>1. \A m \in Waiting(a)' : m \in ToSet(Tail10(q)) \/ \E s \in Sockets : AgentOf[s] = a /\ m \in ToSet(sock[s].rest)
      BY <1>1, <1>3 DEF Waiting
    <3> QED BY <3>1, <2>1, <2>2, <1>4
  <2>6. QueueGivesOnce'
    BY <1>3, <1>4, <1>5, <1>6, <1>8, <2>1, <2>4, <2>5 DEF OnePlace, QueueGivesOnce
  <2>7. \A s \in Sockets : ToSet(sock'[s].rest) \cap ToSet(queues'[AgentOf[s]]) = {}
    BY <1>1, <1>3, <1>4, <1>8, PlacesTyped DEF OnePlace
  <2> QED BY <1>1, <1>8, <2>6, <2>7 DEF OnePlace
<1> QED BY <1>7, <1>8

(* A batch of the queue goes to a socket.                                   *)
LEMMA Connected ==
  ASSUME Types, NEW s \in Sockets, Connect(s)
  PROVE  /\ \A b \in Agents : Held(b)' = Held(b)
         /\ OnePlace => OnePlace'
<1> DEFINE a == AgentOf[s]
           q == queues[a]
<1>0. a \in Agents /\ q \in Seq(Msgs)
  BY GatewayAssumption DEF Types
<1>1. /\ queues'[a] = Tail10(q) /\ \A b \in Agents \ {a} : queues'[b] = queues[b] /\ given' = given
      /\ sock'[s].rest = Head10(q) /\ \A x \in Sockets \ {s} : sock'[x] = sock[x]
  BY <1>0 DEF Types, Connect, Dequeue
<1>2. given' = given /\ sock[s].rest = <<>>
  BY DEF Connect, Types
<1>3. ToSet(sock[s].rest) = {}
  BY <1>2, ElementsOfEmpty
<1>4. /\ Head10(q) \in Seq(Msgs) /\ Tail10(q) \in Seq(Msgs)
      /\ ToSet(q) = ToSet(Head10(q)) \cup ToSet(Tail10(q))
      /\ IsInjective(q) => /\ IsInjective(Head10(q)) /\ IsInjective(Tail10(q))
                           /\ ToSet(Head10(q)) \cap ToSet(Tail10(q)) = {}
  BY <1>0, BatchOf
<1>5. ASSUME NEW b \in Agents PROVE Waiting(b)' = Waiting(b)
  <2>1. ASSUME NEW m PROVE m \in Waiting(b)' <=> m \in Waiting(b)
    <3>1. m \in Waiting(b)' <=> m \in ToSet(queues'[b])
                                \/ \E x \in Sockets : AgentOf[x] = b /\ m \in ToSet(sock'[x].rest)
      BY DEF Waiting
    <3>2. CASE b = a
      BY <3>1, <3>2, <1>1, <1>3, <1>4, HeldIs, SMTT(30)
    <3>3. CASE b # a
      BY <3>1, <3>3, <1>1, HeldIs
    <3> QED BY <3>2, <3>3
  <2> QED BY <2>1
<1>6. \A b \in Agents : Held(b)' = Held(b)
  BY <1>2, <1>5 DEF Held
<1>7. ASSUME OnePlace PROVE OnePlace'
  <2>1. IsInjective(q)
    BY <1>0, <1>7 DEF OnePlace, QueueGivesOnce
  <2>2. QueueGivesOnce'
    BY <1>0, <1>1, <1>2, <1>4, <1>5, <1>7, <2>1 DEF OnePlace, QueueGivesOnce
  <2>3. ASSUME NEW x \in Sockets
        PROVE  IsInjective(sock'[x].rest) /\ ToSet(sock'[x].rest) \cap ToSet(queues'[AgentOf[x]]) = {}
    <3>1. CASE x = s
      BY <1>1, <1>4, <2>1, <3>1
    <3>2. CASE x # s /\ AgentOf[x] = a
      BY <1>1, <1>4, <1>7, <3>2 DEF OnePlace
    <3>3. CASE x # s /\ AgentOf[x] # a
      BY <1>1, <1>7, <3>3, GatewayAssumption DEF OnePlace
    <3> QED BY <3>1, <3>2, <3>3
  <2>4. ASSUME NEW x \in Sockets, NEW y \in Sockets, AgentOf[y] = AgentOf[x], y # x
        PROVE  ToSet(sock'[x].rest) \cap ToSet(sock'[y].rest) = {}
    <3>1. CASE x # s /\ y # s
      BY <1>1, <1>7, <2>4, <3>1 DEF OnePlace
    <3>2. CASE x = s
      BY <1>1, <1>4, <1>7, <2>4, <3>2 DEF OnePlace
    <3>3. CASE y = s
      BY <1>1, <1>4, <1>7, <2>4, <3>3 DEF OnePlace
    <3> QED BY <3>1, <3>2, <3>3
  <2> QED BY <2>2, <2>3, <2>4 DEF OnePlace
<1> QED BY <1>6, <1>7

(* A handler that flushes gives one message, or loses what it has with its  *)
(* socket, or is done.                                                      *)
LEMMA Flushed ==
  ASSUME Types, OnePlace, NEW s \in Sockets, Flush(s)
  PROVE  /\ \A b \in Agents : /\ Held(b)' \subseteq Held(b)
                              /\ \A m \in Held(b) : m \in Held(b)' \/ m \in spilled'
         /\ spilled \subseteq spilled'
         /\ OnePlace'
<1> DEFINE a == AgentOf[s]
           r == sock[s].rest
<1>0. a \in Agents /\ r \in Seq(Msgs) /\ given[a] \in Seq(Msgs)
  BY GatewayAssumption DEF Types
<1>h. sock \in [Sockets -> Handler]
  BY DEF Types, Handler
<1>1. CASE r = <<>>
  <2>1. UNCHANGED Places
    <3>1. \A x \in Sockets : sock'[x].rest = sock[x].rest
      <4>1. sock' = [sock EXCEPT ![s] = [sock[s] EXCEPT !.at = "loop"]]
        BY <1>1 DEF Flush
      <4> QED BY <1>h, <4>1, HandlerAt
    <3> QED BY <1>1, <3>1 DEF Places, Rests, Flush
  <2> QED BY <1>1, <2>1, SamePlaces DEF Flush
<1>2. CASE r # <<>> /\ s \in open
  <2>1. /\ queues' = queues /\ spilled' = spilled
        /\ sock'[s].rest = Tail(r) /\ \A x \in Sockets \ {s} : sock'[x] = sock[x]
        /\ given'[a] = Append(given[a], Head(r)) /\ \A b \in Agents \ {a} : given'[b] = given[b]
    <3>1. sock' = [sock EXCEPT ![s] = [sock[s] EXCEPT !.rest = Tail(r)]]
      BY <1>2 DEF Flush
    <3>2. Tail(r) \in Seq(Msgs)
      BY <1>0, <1>2
    <3>3. sock'[s].rest = Tail(r) /\ \A x \in Sockets \ {s} : sock'[x] = sock[x]
      <4> HIDE DEF r
      <4> QED BY <1>h, <3>1, <3>2, HandlerRest
    <3>4. given' = [given EXCEPT ![a] = Append(given[a], Head(r))]
      BY <1>2 DEF Flush
    <3>5. given'[a] = Append(given[a], Head(r)) /\ \A b \in Agents \ {a} : given'[b] = given[b]
      BY <1>0, <3>4 DEF Types
    <3> QED BY <1>2, <3>3, <3>5 DEF Flush
  <2>2. /\ Tail(r) \in Seq(Msgs) /\ ToSet(r) = ToSet(Tail(r)) \cup {Head(r)} /\ Head(r) \in Msgs
        /\ ToSet(given'[a]) = ToSet(given[a]) \cup {Head(r)}
    BY <1>0, <1>2, <2>1, ElementsOfTail, ElementsOfAppend
  <2>3. IsInjective(Tail(r)) /\ Head(r) \notin ToSet(Tail(r))
    BY <1>0, <1>2, TailKeepsInjective DEF OnePlace
  <2>4. \A m : m \in Waiting(a)' <=> m \in ToSet(queues[a]) \/ m \in ToSet(Tail(r))
                 \/ \E x \in Sockets \ {s} : AgentOf[x] = a /\ m \in ToSet(sock[x].rest)
    BY <2>1 DEF Waiting
  <2>5. \A m : m \in Waiting(a) <=> m \in ToSet(queues[a]) \/ m \in ToSet(r)
                 \/ \E x \in Sockets \ {s} : AgentOf[x] = a /\ m \in ToSet(sock[x].rest)
    BY HeldIs
  <2>6. \A b \in Agents \ {a} : Waiting(b)' = Waiting(b)
    BY <2>1 DEF Waiting
  <2>7. Waiting(a) = Waiting(a)' \cup {Head(r)} /\ Head(r) \notin Waiting(a)'
    <3>1. Head(r) \notin ToSet(queues[a]) /\ \A x \in Sockets \ {s} : AgentOf[x] = a => Head(r) \notin ToSet(sock[x].rest)
      BY <2>2 DEF OnePlace
    <3> QED BY <2>2, <2>3, <2>4, <2>5, <3>1
  <2>8. \A b \in Agents : Held(b)' = Held(b)
    BY <2>1, <2>2, <2>6, <2>7 DEF Held
  <2>9. QueueGivesOnce'
    <3>1. IsInjective(given[a]) /\ Head(r) \notin ToSet(given[a])
      BY <1>0, <2>7 DEF OnePlace, QueueGivesOnce
    <3>2. IsInjective(given'[a])
      BY <1>0, <2>1, <2>2, <3>1, AppendKeepsInjective
    <3>3. ToSet(given'[a]) \cap Waiting(a)' = {}
      BY <1>0, <2>2, <2>7 DEF OnePlace, QueueGivesOnce
    <3> QED BY <2>1, <2>6, <3>2, <3>3 DEF OnePlace, QueueGivesOnce
  <2>10. \A x \in Sockets : IsInjective(sock'[x].rest) /\ ToSet(sock'[x].rest) \subseteq ToSet(sock[x].rest)
    BY <2>1, <2>2, <2>3 DEF OnePlace
  <2> QED BY <2>1, <2>8, <2>9, <2>10 DEF OnePlace
<1>3. CASE r # <<>> /\ s \notin open
  <2>1. /\ queues' = queues /\ given' = given /\ spilled' = spilled \cup ToSet(r)
        /\ sock'[s].rest = <<>> /\ \A x \in Sockets \ {s} : sock'[x] = sock[x]
    BY <1>3 DEF Flush, Types, ToSet
  <2>2. ToSet(sock'[s].rest) = {} /\ IsInjective(sock'[s].rest)
    BY <2>1, ElementsOfEmpty DEF IsInjective
  <2>3. \A b \in Agents : Waiting(b)' \subseteq Waiting(b)
                          /\ \A m \in Waiting(b) : m \in Waiting(b)' \/ m \in spilled'
    BY <2>1, <2>2 DEF Waiting
  <2>4. \A b \in Agents : Held(b)' \subseteq Held(b) /\ \A m \in Held(b) : m \in Held(b)' \/ m \in spilled'
    BY <2>1, <2>3 DEF Held
  <2>5. QueueGivesOnce'
    BY <2>1, <2>3 DEF OnePlace, QueueGivesOnce
  <2>6. \A x \in Sockets : IsInjective(sock'[x].rest) /\ ToSet(sock'[x].rest) \subseteq ToSet(sock[x].rest)
    BY <2>1, <2>2 DEF OnePlace
  <2> QED BY <2>1, <2>4, <2>5, <2>6 DEF OnePlace
<1> QED BY <1>1, <1>2, <1>3

(* What every step does to them.                                            *)
LEMMA Moves ==
  ASSUME Types, HandlersWait, [Next]_vars
  PROVE  \/ UNCHANGED <<Places, accepted>> /\ spilled \subseteq spilled'
         \/ UNCHANGED <<sent, sends, accepted>> /\ \E a \in Agents : PollInbox(a)
         \/ UNCHANGED <<sent, sends, accepted>> /\ \E s \in Sockets : Connect(s)
         \/ UNCHANGED <<sent, sends, accepted>> /\ \E s \in Sockets : Flush(s)
         \/ /\ UNCHANGED <<given, Rests, spilled>>
            /\ \/ \E a \in Agents : Enqueue(a, sent + 1) /\ UNCHANGED sends
                                    /\ sent < MaxMsgs /\ sent' = sent + 1
               \/ \E d \in sends : Enqueue(d.to, d.msg) /\ sends' = sends \ {d} /\ UNCHANGED sent
<1> USE DEF registry, history
<1>h. sock \in [Sockets -> Handler] /\ sends \subseteq Delivery
  BY DEF Types, Handler, Delivery
<1>r. sock' = sock => Rests' = Rests
  BY DEF Rests
<1>1. ASSUME NEW a \in Agents, PostMessage(a), a \notin agents
      PROVE  /\ UNCHANGED <<given, Rests, spilled>>
             /\ Enqueue(a, sent + 1) /\ UNCHANGED sends /\ sent < MaxMsgs /\ sent' = sent + 1
  BY <1>1, <1>r DEF PostMessage
<1>2. ASSUME NEW a \in Agents, PostMessage(a), a \in agents
      PROVE  UNCHANGED <<Places, accepted, spilled>>
  BY <1>2, <1>r DEF PostMessage, Places
<1>3. ASSUME NEW a \in Agents, Unregister(a) \/ \E c \in BOOLEAN : Register(a, c)
      PROVE  UNCHANGED <<Places, accepted, spilled>>
  BY <1>3, <1>r DEF Unregister, Register, Places
<1>4. ASSUME NEW s \in Sockets, NEW a \in Agents, RouteFrom(s, a)
      PROVE  UNCHANGED <<Places, accepted, spilled>>
  BY <1>4, <1>r DEF RouteFrom, Places
<1>5. ASSUME NEW s \in Sockets, Hello(s) \/ Break(s)
      PROVE  UNCHANGED <<Places, accepted, spilled>>
  BY <1>5, <1>r DEF Hello, Register, Break, Places
<1>6. ASSUME NEW s \in Sockets, Disconnected(s) PROVE UNCHANGED <<Places, accepted, spilled>>
  <2>1. sock' = [sock EXCEPT ![s] = [sock[s] EXCEPT !.at = "gone"]]
    BY <1>6 DEF Disconnected
  <2>2. Rests' = Rests
    BY <1>h, <2>1, HandlerAt DEF Rests
  <2> QED BY <1>6, <2>2 DEF Disconnected, Places
<1>7. ASSUME NEW d \in sends, DeliverNoWs(d) \/ DeliverWsFails(d) \/ DetachFailed(d)
      PROVE  UNCHANGED <<Places, accepted, spilled>>
  BY <1>7, <1>r DEF DeliverNoWs, DeliverWsFails, DetachFailed, Places
<1>8. ASSUME NEW d \in sends, sends' = sends \ {d}, UNCHANGED <<sent, given, spilled, Rests>>,
             Undelivered(d) \/ UNCHANGED <<queues, accepted>>
      PROVE  \/ UNCHANGED <<Places, accepted, spilled>>
             \/ UNCHANGED <<given, Rests, spilled>> /\ Enqueue(d.to, d.msg) /\ sends' = sends \ {d} /\ UNCHANGED sent
  BY <1>8 DEF Undelivered, Places
<1>9. ASSUME NEW d \in sends, DeliverWs(d)
      PROVE  sends' = sends \ {d} /\ UNCHANGED <<sent, given, spilled, Rests>> /\ Undelivered(d)
  BY <1>9, <1>r DEF DeliverWs
<1>10. ASSUME NEW d \in sends, NEW reached \in BOOLEAN, NEW answer \in BOOLEAN, DeliverCallback(d, reached, answer)
       PROVE  /\ sends' = sends \ {d} /\ UNCHANGED <<sent, given, spilled, Rests>>
              /\ Undelivered(d) \/ UNCHANGED <<queues, accepted>>
  <2>1. CASE sock' = sock
    BY <1>10, <2>1, <1>r DEF DeliverCallback
  <2>2. CASE d.by # Nobody /\ sock' = [sock EXCEPT ![d.by].at = "gone"]
    <3>1. sock' = [sock EXCEPT ![d.by] = [sock[d.by] EXCEPT !.at = "gone"]] /\ d.by \in Sockets
      BY <1>h, <2>2 DEF Delivery
    <3>2. Rests' = Rests
      BY <1>h, <3>1, HandlerAt DEF Rests
    <3> QED BY <1>10, <3>2 DEF DeliverCallback
  <2> QED BY <1>10, <2>1, <2>2 DEF DeliverCallback
<1>11. ASSUME UNCHANGED vars PROVE UNCHANGED <<Places, accepted, spilled>>
  BY <1>11, <1>r DEF vars, Places
<1>12. (\E a \in Agents : PollInbox(a)) \/ (\E s \in Sockets : Connect(s) \/ Flush(s))
       => UNCHANGED <<sent, sends, accepted>>
  BY DEF PollInbox, Connect, Flush
<1> HIDE DEF Places, Rests
<1>13. ASSUME NEW d \in sends, \/ DeliverWs(d)
                               \/ \E reached, answer \in BOOLEAN : DeliverCallback(d, reached, answer)
       PROVE  \/ UNCHANGED <<Places, accepted, spilled>>
              \/ UNCHANGED <<given, Rests, spilled>> /\ Enqueue(d.to, d.msg) /\ sends' = sends \ {d} /\ UNCHANGED sent
  BY <1>8, <1>9, <1>10, <1>13
<1> QED BY <1>1, <1>2, <1>3, <1>4, <1>5, <1>6, <1>7, <1>11, <1>12, <1>13 DEF Next

-----------------------------------------------------------------------------
(* A message of the queue is in one place.                                  *)

LEMMA PlacesStep ==
  ASSUME Types, HandlersWait, Numbered, OnePlace, [Next]_vars
  PROVE  OnePlace'
<1>1. CASE UNCHANGED Places
  BY <1>1, SamePlaces
<1>2. ASSUME NEW a \in Agents, PollInbox(a) PROVE OnePlace'
  BY <1>2, Polled
<1>3. ASSUME NEW s \in Sockets, Connect(s) PROVE OnePlace'
  BY <1>3, Connected
<1>4. ASSUME NEW s \in Sockets, Flush(s) PROVE OnePlace'
  BY <1>4, Flushed
<1>5. ASSUME NEW a \in Agents, Enqueue(a, sent + 1), sent < MaxMsgs, UNCHANGED <<given, Rests>> PROVE OnePlace'
  <2>1. sent + 1 \in Msgs /\ sent \in Nat
    BY <1>5, GatewayAssumption DEF Types, Msgs
  <2>2. sent + 1 \notin Held(a)
    BY <2>1 DEF Numbered
  <2> QED BY <1>5, <2>1, <2>2, Queued DEF Enqueue
<1>6. ASSUME NEW d \in sends, Enqueue(d.to, d.msg), UNCHANGED <<given, Rests>> PROVE OnePlace'
  <2>1. d.to \in Agents /\ d.msg \in Msgs
    BY DEF Types
  <2>2. d.msg \notin Held(d.to)
    BY <2>1 DEF Numbered
  <2> QED BY <1>6, <2>1, <2>2, Queued DEF Enqueue
<1> QED BY <1>1, <1>2, <1>3, <1>4, <1>5, <1>6, Moves

-----------------------------------------------------------------------------
(* Numbers.                                                                 *)

(* The deliveries under way after a step: those of before, the same but for *)
(* their place, fewer, or one with a new number.                            *)
LEMMA Sends ==
  ASSUME Types, [Next]_vars
  PROVE  \/ sends' \subseteq sends /\ UNCHANGED sent
         \/ UNCHANGED sends /\ sent < MaxMsgs /\ sent' = sent + 1
         \/ /\ UNCHANGED sent
            /\ \E d \in sends, place \in {"failed", "callback"} :
                 At(d, place) /\ (place = "failed" => DeliverWsFails(d))
         \/ /\ sent < MaxMsgs /\ sent' = sent + 1
            /\ \E a \in Agents, s \in Sockets \cup {Nobody} :
                 /\ sends' = sends \cup {[msg |-> sent + 1, to |-> a, at |-> "start", by |-> s]}
                 /\ s # Nobody => Reading(s) /\ sock' = sock
<1> USE DEF registry, history
<1>1. ASSUME NEW a \in Agents, PostMessage(a)
      PROVE  /\ sent < MaxMsgs /\ sent' = sent + 1
             /\ UNCHANGED sends \/ sends' = sends \cup {[msg |-> sent + 1, to |-> a, at |-> "start", by |-> Nobody]}
  BY <1>1 DEF PostMessage
<1>2. ASSUME NEW s \in Sockets, NEW a \in Agents, RouteFrom(s, a)
      PROVE  /\ sent < MaxMsgs /\ sent' = sent + 1 /\ Reading(s) /\ sock' = sock
             /\ sends' = sends \cup {[msg |-> sent + 1, to |-> a, at |-> "start", by |-> s]}
  BY <1>2 DEF RouteFrom
<1>3. ASSUME NEW d \in sends, DeliverNoWs(d) \/ DetachFailed(d)
      PROVE  UNCHANGED sent /\ At(d, "callback")
  BY <1>3 DEF DeliverNoWs, DetachFailed
<1>4. ASSUME NEW d \in sends, DeliverWsFails(d)
      PROVE  UNCHANGED sent /\ At(d, "failed")
  BY <1>4 DEF DeliverWsFails
<1>5. ASSUME NEW d \in sends, \/ DeliverWs(d)
                              \/ \E reached, answer \in BOOLEAN : DeliverCallback(d, reached, answer)
      PROVE  sends' = sends \ {d} /\ UNCHANGED sent
  BY <1>5 DEF DeliverWs, DeliverCallback
<1>6. ASSUME NEW a \in Agents, Unregister(a) \/ PollInbox(a) \/ \E c \in BOOLEAN : Register(a, c)
      PROVE  UNCHANGED <<sends, sent>>
  BY <1>6 DEF Unregister, PollInbox, Register
<1>7. ASSUME NEW s \in Sockets, Connect(s) \/ Flush(s) \/ Hello(s) \/ Break(s) \/ Disconnected(s)
      PROVE  UNCHANGED <<sends, sent>>
  BY <1>7 DEF Connect, Flush, Hello, Register, Break, Disconnected
<1>8. ASSUME UNCHANGED vars PROVE UNCHANGED <<sends, sent>>
  BY <1>8 DEF vars
<1> QED BY <1>1, <1>2, <1>3, <1>4, <1>5, <1>6, <1>7, <1>8 DEF Next

LEMMA NumberedStep ==
  ASSUME Types, HandlersWait, Numbered, OnePlace, [Next]_vars
  PROVE  Numbered'
<1>s. sent \in Nat /\ sends \subseteq Delivery /\ \A d \in sends : d.msg \in Nat /\ d.to \in Agents
  BY GatewayAssumption DEF Types, Delivery, Msgs
(* The messages of the agents grow by one at most, a delivered or a new one. *)
<1>1. \/ \A a \in Agents : Held(a)' \subseteq Held(a)
      \/ /\ sent' = sent + 1 /\ UNCHANGED sends
         /\ \A a \in Agents : Held(a)' \subseteq Held(a) \cup {sent + 1}
      \/ \E d \in sends : /\ sends' = sends \ {d} /\ UNCHANGED sent
                          /\ \A a \in Agents : Held(a)' \subseteq Held(a) \cup {d.msg}
  <2>1. CASE UNCHANGED Places
    BY <2>1, SamePlaces
  <2>2. ASSUME NEW a \in Agents, PollInbox(a) PROVE \A b \in Agents : Held(b)' \subseteq Held(b)
    BY <2>2, Polled
  <2>3. ASSUME NEW s \in Sockets, Connect(s) PROVE \A b \in Agents : Held(b)' \subseteq Held(b)
    BY <2>3, Connected
  <2>4. ASSUME NEW s \in Sockets, Flush(s) PROVE \A b \in Agents : Held(b)' \subseteq Held(b)
    BY <2>4, Flushed
  <2>5. ASSUME NEW a \in Agents, Enqueue(a, sent + 1), sent < MaxMsgs, UNCHANGED <<given, Rests>>
        PROVE  \A b \in Agents : Held(b)' \subseteq Held(b) \cup {sent + 1}
    <3>1. sent + 1 \in Msgs
      BY <1>s, <2>5, GatewayAssumption DEF Msgs
    <3> QED BY <2>5, <3>1, Queued DEF Enqueue
  <2>6. ASSUME NEW d \in sends, Enqueue(d.to, d.msg), UNCHANGED <<given, Rests>>
        PROVE  \A b \in Agents : Held(b)' \subseteq Held(b) \cup {d.msg}
    <3>1. d.msg \in Msgs /\ d.to \in Agents
      BY DEF Types
    <3> QED BY <2>6, <3>1, Queued DEF Enqueue
  <2> QED BY <2>1, <2>2, <2>3, <2>4, <2>5, <2>6, Moves
<1>2. sent <= sent' /\ sent' \in Nat
  BY <1>s, Sends
<1>3. ASSUME NEW a \in Agents, NEW m \in Held(a)' PROVE m <= sent'
  <2>1. m \in Held(a) => m <= sent /\ m \in Int
    <3>1. m \in Held(a) => m \in Msgs
      BY HeldIs, PlacesTyped, ElementsOf DEF Rests
    <3> QED BY <3>1 DEF Numbered, Msgs
  <2>2. \A d \in sends : d.msg <= sent
    BY DEF Numbered
  <2> QED BY <1>1, <1>2, <1>3, <1>s, <2>1, <2>2
<1> DEFINE Fresh(d) == /\ d.msg <= sent'
                       /\ \A a \in Agents : d.msg \notin Held(a)'
                       /\ \A e \in sends' : e.msg = d.msg => e = d
<1>4. ASSUME NEW d \in sends' PROVE Fresh(d)
  <2>0. \A e \in sends : /\ e.msg \in Nat /\ e.msg <= sent
                         /\ \A a \in Agents : e.msg \notin Held(a)
                         /\ \A f \in sends : f.msg = e.msg => f = e
    BY <1>s DEF Numbered
  <2>1. CASE \A a \in Agents : Held(a)' \subseteq Held(a)
    <3>1. CASE sends' \subseteq sends
      BY <1>2, <1>4, <1>s, <2>0, <2>1, <3>1, Sends
    <3>2. ASSUME UNCHANGED sent, NEW e \in sends, NEW place \in {"failed", "callback"}, At(e, place)
          PROVE  Fresh(d)
      <4> DEFINE n == [e EXCEPT !.at = place]
      <4>1. n.msg = e.msg
        BY <1>s, GoesOn
      <4>2. sends' = (sends \ {e}) \cup {n}
        BY <3>2 DEF At
      <4> HIDE DEF n
      <4> QED BY <1>4, <2>0, <2>1, <3>2, <4>1, <4>2
    <3>3. ASSUME sent' = sent + 1, NEW n, n.msg = sent + 1, sends' = sends \cup {n}
          PROVE  Fresh(d)
      <4>1. \A a \in Agents : sent + 1 \notin Held(a)
        BY <1>s DEF Numbered
      <4>2. \A e \in sends : e.msg # sent + 1 /\ e.msg <= sent + 1
        BY <1>s, <2>0
      <4> QED BY <1>4, <1>s, <2>0, <2>1, <3>3, <4>1, <4>2
    <3>4. ASSUME sent' = sent + 1, NEW a \in Agents, NEW s \in Sockets \cup {Nobody},
                 sends' = sends \cup {[msg |-> sent + 1, to |-> a, at |-> "start", by |-> s]}
          PROVE  Fresh(d)
      BY <3>3, <3>4
    <3> QED BY <3>1, <3>2, <3>4, Sends
  <2>2. CASE sent' = sent + 1 /\ UNCHANGED sends /\ \A a \in Agents : Held(a)' \subseteq Held(a) \cup {sent + 1}
    <3>1. d.msg # sent + 1 /\ d.msg <= sent + 1
      BY <1>s, <1>4, <2>0, <2>2
    <3> QED BY <1>4, <2>0, <2>2, <3>1
  <2>3. ASSUME NEW e \in sends, sends' = sends \ {e}, UNCHANGED sent,
               \A a \in Agents : Held(a)' \subseteq Held(a) \cup {e.msg}
        PROVE  Fresh(d)
    BY <1>4, <2>0, <2>3
  <2> QED BY <1>1, <2>1, <2>2, <2>3
<1> QED BY <1>3, <1>4 DEF Numbered

-----------------------------------------------------------------------------
(* What was accepted.                                                       *)

LEMMA PushedStays ==
  ASSUME Types, [Next]_vars, NEW a \in Agents
  PROVE  pushed[a] \subseteq pushed'[a]
<1> USE DEF registry, history
<1>1. ASSUME NEW d \in sends, DeliverWs(d) PROVE pushed[a] \subseteq pushed'[a]
  BY <1>1 DEF DeliverWs, Types
<1>2. ASSUME NEW d \in sends, NEW reached \in BOOLEAN, NEW answer \in BOOLEAN, DeliverCallback(d, reached, answer)
      PROVE  pushed[a] \subseteq pushed'[a]
  BY <1>2 DEF DeliverCallback, Types
<1>3. ASSUME NEW d \in sends, DeliverNoWs(d) \/ DeliverWsFails(d) \/ DetachFailed(d) PROVE UNCHANGED pushed
  BY <1>3 DEF DeliverNoWs, DeliverWsFails, DetachFailed
<1>4. ASSUME NEW b \in Agents, \/ Unregister(b) \/ PollInbox(b) \/ PostMessage(b)
                               \/ \E c \in BOOLEAN : Register(b, c)
      PROVE UNCHANGED pushed
  BY <1>4 DEF Unregister, PollInbox, PostMessage, Register
<1>5. ASSUME NEW s \in Sockets, \/ Connect(s) \/ Flush(s) \/ Hello(s) \/ Break(s) \/ Disconnected(s)
                                \/ \E b \in Agents : RouteFrom(s, b)
      PROVE UNCHANGED pushed
  BY <1>5 DEF Connect, Flush, Hello, Register, Break, Disconnected, RouteFrom
<1> QED BY <1>1, <1>2, <1>3, <1>4, <1>5 DEF Next, vars

LEMMA AcceptedStep ==
  ASSUME Types, HandlersWait, OnePlace, AcceptedIsNotLost, [Next]_vars
  PROVE  AcceptedIsNotLost'
<1> DEFINE Kept(m) == m \in spilled \/ \E a \in Agents : m \in Held(a) \/ m \in pushed[a]
<1>1. AcceptedIsNotLost <=> \A m \in accepted : Kept(m)
  BY DEF AcceptedIsNotLost, Held, Reached
<1>2. AcceptedIsNotLost' <=> \A m \in accepted' : Kept(m)'
  BY DEF AcceptedIsNotLost, Held, Reached
<1>3. \A a \in Agents : pushed[a] \subseteq pushed'[a]
  BY PushedStays
<1>4. ASSUME spilled \subseteq spilled',
             \A a \in Agents : \A m \in Held(a) : m \in Held(a)' \/ m \in spilled'
      PROVE  \A m : Kept(m) => Kept(m)'
  BY <1>3, <1>4
<1>5. CASE UNCHANGED <<Places, accepted>> /\ spilled \subseteq spilled'
  BY <1>1, <1>2, <1>4, <1>5, SamePlaces
<1>6. ASSUME UNCHANGED accepted, NEW a \in Agents, PollInbox(a) PROVE AcceptedIsNotLost'
  <2>1. spilled' = spilled
    BY <1>6 DEF PollInbox
  <2> QED BY <1>1, <1>2, <1>4, <1>6, <2>1, Polled
<1>7. ASSUME UNCHANGED accepted, NEW s \in Sockets, Connect(s) PROVE AcceptedIsNotLost'
  <2>1. spilled' = spilled
    BY <1>7 DEF Connect
  <2> QED BY <1>1, <1>2, <1>4, <1>7, <2>1, Connected
<1>8. ASSUME UNCHANGED accepted, NEW s \in Sockets, Flush(s) PROVE AcceptedIsNotLost'
  BY <1>1, <1>2, <1>4, <1>8, Flushed
<1>9. ASSUME NEW a \in Agents, NEW m \in Msgs, Enqueue(a, m), UNCHANGED <<given, Rests, spilled>>
      PROVE  AcceptedIsNotLost'
  <2>1. \A b \in Agents : Held(b)' = IF b = a THEN Held(b) \cup {m} ELSE Held(b)
    BY <1>9, Queued DEF Enqueue
  <2>2. accepted' = accepted \cup {m} /\ Kept(m)'
    BY <1>9, <2>1 DEF Enqueue
  <2>3. \A n : Kept(n) => Kept(n)'
    BY <1>4, <1>9, <2>1
  <2> HIDE DEF Kept
  <2> QED BY <1>1, <1>2, <2>2, <2>3
<1>10. sent < MaxMsgs => sent + 1 \in Msgs
  BY GatewayAssumption DEF Types, Msgs
<1>11. \A d \in sends : d.to \in Agents /\ d.msg \in Msgs
  BY DEF Types
<1> HIDE DEF Kept
<1> QED BY <1>5, <1>6, <1>7, <1>8, <1>9, <1>10, <1>11, Moves

-----------------------------------------------------------------------------
(* The handlers.                                                            *)

(* A handler leaves its loop when it reads nothing and waits for nothing,   *)
(* or with the delivery it waits for.                                       *)
LEMMA LoopsStay ==
  ASSUME Types, [Next]_vars, NEW s \in Sockets, sock[s].at = "loop"
  PROVE  \/ sock'[s].at = "loop"
         \/ Reading(s) /\ UNCHANGED sends
         \/ \E d \in sends : d.by = s /\ sends' = sends \ {d}
<1> USE DEF registry, history
<1>h. sock \in [Sockets -> Handler] /\ sends \subseteq Delivery
  BY DEF Types, Handler, Delivery
<1>1. ASSUME NEW x \in Sockets, Disconnected(x)
      PROVE  sock'[s].at = "loop" \/ (Reading(s) /\ UNCHANGED sends)
  BY <1>1, <1>h DEF Disconnected
<1>2. ASSUME NEW x \in Sockets, Connect(x) \/ Flush(x) PROVE sock'[s].at = "loop"
  <2>1. x # s
    BY <1>2 DEF Connect, Flush
  <2> QED BY <1>2, <1>h, <2>1 DEF Connect, Flush
<1>3. ASSUME NEW d \in sends, NEW reached \in BOOLEAN, NEW answer \in BOOLEAN, DeliverCallback(d, reached, answer)
      PROVE  sock'[s].at = "loop" \/ (d.by = s /\ sends' = sends \ {d})
  BY <1>3, <1>h DEF DeliverCallback
<1>4. ASSUME NEW d \in sends, DeliverWs(d) \/ DeliverNoWs(d) \/ DeliverWsFails(d) \/ DetachFailed(d)
      PROVE  UNCHANGED sock
  BY <1>4 DEF DeliverWs, DeliverNoWs, DeliverWsFails, DetachFailed
<1>5. ASSUME NEW b \in Agents, \/ Unregister(b) \/ PollInbox(b) \/ PostMessage(b)
                               \/ \E c \in BOOLEAN : Register(b, c)
      PROVE UNCHANGED sock
  BY <1>5 DEF Unregister, PollInbox, PostMessage, Register
<1>6. ASSUME NEW x \in Sockets, \/ Hello(x) \/ Break(x) \/ \E b \in Agents : RouteFrom(x, b)
      PROVE UNCHANGED sock
  BY <1>6 DEF Hello, Register, Break, RouteFrom
<1> QED BY <1>1, <1>2, <1>3, <1>4, <1>5, <1>6 DEF Next, vars

LEMMA HandlersWaitStep ==
  ASSUME Types, HandlersWait, [Next]_vars
  PROVE  HandlersWait'
<1>s. sends \subseteq Delivery
  BY DEF Types, Delivery
<1>1. ASSUME sends' \subseteq sends PROVE HandlersWait'
  <2> SUFFICES ASSUME NEW d \in sends', d.by # Nobody
               PROVE  sock'[d.by].at = "loop" /\ \A e \in sends' : e.by = d.by => e = d
    BY DEF HandlersWait
  <2>1. d \in sends /\ d.by \in Sockets
    BY <1>1, <1>s DEF Delivery
  <2>2. sock[d.by].at = "loop" /\ \A e \in sends : e.by = d.by => e = d
    BY <2>1 DEF HandlersWait
  <2>3. ~Reading(d.by)
    BY <2>1 DEF Reading
  <2>4. \A e \in sends : e.by = d.by => sends' # sends \ {e}
    BY <2>2
  <2> QED BY <1>1, <2>1, <2>2, <2>3, <2>4, LoopsStay
<1>2. ASSUME NEW d \in sends, NEW place \in {"failed", "callback"}, At(d, place) PROVE HandlersWait'
  <2> DEFINE n == [d EXCEPT !.at = place]
  <2>1. n.by = d.by /\ n.msg = d.msg /\ n.at = place /\ sends' = (sends \ {d}) \cup {n}
    BY <1>2, <1>s, GoesOn DEF At
  <2>2. \A e \in sends : e.by # Nobody => e.by \in Sockets /\ sock[e.by].at = "loop"
                                         /\ (\A f \in sends : f.by = e.by => f = e) /\ ~Reading(e.by)
    BY <1>s DEF HandlersWait, Reading, Delivery
  <2> HIDE DEF n
  <2>3. ASSUME NEW e \in sends, e.by # Nobody PROVE sends' # sends \ {e}
    <3> SUFFICES ASSUME sends' = sends \ {e} PROVE FALSE
      OBVIOUS
    <3>1. n \in sends /\ n # e
      BY <2>1
    <3>2. e = d
      BY <2>1, <3>1
    <3> QED BY <2>1, <2>2, <2>3, <3>1, <3>2
  <2>4. \A e \in sends : e.by # Nobody => sock'[e.by].at = "loop"
    BY <2>2, <2>3, LoopsStay
  <2> QED BY <2>1, <2>2, <2>4 DEF HandlersWait
<1>3. ASSUME NEW a \in Agents, NEW s \in Sockets \cup {Nobody},
             sends' = sends \cup {[msg |-> sent + 1, to |-> a, at |-> "start", by |-> s]},
             s # Nobody => Reading(s) /\ sock' = sock
      PROVE  HandlersWait'
  <2> DEFINE n == [msg |-> sent + 1, to |-> a, at |-> "start", by |-> s]
  <2>1. n.by = s /\ sends' = sends \cup {n}
    BY <1>3
  <2> HIDE DEF n
  <2>2. \A e \in sends : e.by # Nobody => e.by \in Sockets /\ sock[e.by].at = "loop"
                                         /\ (\A f \in sends : f.by = e.by => f = e)
    BY <1>s DEF HandlersWait, Delivery
  <2>3. CASE s = Nobody
    <3>1. ASSUME NEW e \in sends, e.by # Nobody PROVE sock'[e.by].at = "loop"
      <4>1. ~(Reading(e.by))
        BY <2>2, <3>1 DEF Reading
      <4>2. \A d \in sends : sends' # sends \ {d}
        BY <2>1
      <4> QED BY <2>2, <3>1, <4>1, <4>2, LoopsStay
    <3> QED BY <2>1, <2>2, <2>3, <3>1 DEF HandlersWait
  <2>4. CASE s # Nobody
    <3>1. sock[s].at = "loop" /\ sock' = sock /\ \A e \in sends : e.by # s
      BY <1>3, <2>4 DEF Reading
    <3> QED BY <2>1, <2>2, <3>1 DEF HandlersWait
  <2> QED BY <2>3, <2>4
<1> QED BY <1>1, <1>2, <1>3, Sends

-----------------------------------------------------------------------------
(* One handler for an agent that is not tangled.                            *)

(* It stays so when nobody new comes, no agent with a client is detached    *)
(* and every new failure is one of an agent without a client.               *)
LEMMA NobodyNew ==
  ASSUME OneHandler, tangled \subseteq tangled', open' \subseteq open,
         \A s \in Sockets : Active(s)' => Active(s),
         \A s \in Sockets : Active(s)' /\ AgentOf[s] \notin tangled' /\ s \in open' =>
           ws'[AgentOf[s]] = ws[AgentOf[s]],
         \A d \in sends' : d.at = "failed" => d \in sends \/ (d.to \notin tangled =>
           \A s \in Sockets : Active(s) /\ AgentOf[s] = d.to => s \notin open)
  PROVE  OneHandler'
<1>1. ASSUME NEW s \in Sockets, Active(s)', AgentOf[s] \notin tangled'
      PROVE  /\ s \in open' => ws'[AgentOf[s]] = s
             /\ \A x \in Sockets : Active(x)' /\ AgentOf[x] = AgentOf[s] => x = s
  BY <1>1 DEF OneHandler
<1>2. ASSUME NEW d \in sends', d.at = "failed", d.to \notin tangled', NEW s \in Sockets, Active(s)', AgentOf[s] = d.to
      PROVE  s \notin open'
  BY <1>2 DEF OneHandler
<1> QED BY <1>1, <1>2 DEF OneHandler

LEMMA OneHandlerStep ==
  ASSUME Types, HandlersWait, OneHandler, [Next]_vars
  PROVE  OneHandler'
<1> USE DEF registry, history
<1>h. sock \in [Sockets -> Handler] /\ sends \subseteq Delivery
  BY DEF Types, Handler, Delivery
<1>c. AgentOf \in [Sockets -> Agents]
  BY GatewayAssumption
<1>w. \A a \in Agents : \A n : [ws EXCEPT ![a] = n][a] = n /\ \A b \in Agents \ {a} : [ws EXCEPT ![a] = n][b] = ws[b]
  BY DEF Types
(* Nobody comes, goes or fails.                                             *)
<1>1. ASSUME UNCHANGED <<ws, sock, open, tangled>>, \A d \in sends' : d.at = "failed" => d \in sends
      PROVE  OneHandler'
  <2>1. \A s \in Sockets : Active(s)' = Active(s)
    BY <1>1 DEF Active
  <2> QED BY <1>1, <2>1, NobodyNew
<1>2. ASSUME NEW a \in Agents, \/ PollInbox(a) \/ PostMessage(a) \/ \E c \in BOOLEAN : Register(a, c)
      PROVE  OneHandler'
  <2>1. CASE PostMessage(a)
    <3>1. \A d \in sends' : d \in sends \/ d.at = "start"
      BY <2>1 DEF PostMessage
    <3>2. UNCHANGED <<ws, sock, open, tangled>>
      BY <2>1 DEF PostMessage
    <3> QED BY <1>1, <3>1, <3>2
  <2>2. CASE PollInbox(a) \/ \E c \in BOOLEAN : Register(a, c)
    BY <1>1, <2>2 DEF PollInbox, Register
  <2> QED BY <1>2, <2>1, <2>2
<1>3. ASSUME NEW s \in Sockets, Hello(s) \/ \E a \in Agents : RouteFrom(s, a)
      PROVE  OneHandler'
  <2>1. \A d \in sends' : d \in sends \/ d.at = "start"
    BY <1>3 DEF Hello, Register, RouteFrom
  <2>2. UNCHANGED <<ws, sock, open, tangled>>
    BY <1>3 DEF Hello, Register, RouteFrom
  <2> QED BY <1>1, <2>1, <2>2
<1>4. ASSUME NEW d \in sends, DeliverWs(d) PROVE OneHandler'
  BY <1>1, <1>4 DEF DeliverWs
<1>5. ASSUME NEW d \in sends, At(d, "callback")
      PROVE  \A e \in sends' : e.at = "failed" => e \in sends
  BY <1>5, <1>h, GoesOn DEF At
<1>6. ASSUME NEW d \in sends, DeliverNoWs(d) PROVE OneHandler'
  BY <1>1, <1>5, <1>6 DEF DeliverNoWs
<1>7. ASSUME NEW d \in sends, DeliverWsFails(d) PROVE OneHandler'
  <2>1. \A s \in Sockets : Active(s)' = Active(s)
    BY <1>7 DEF Active, DeliverWsFails
  <2>2. \A s \in Sockets : Active(s) /\ AgentOf[s] = d.to /\ d.to \notin tangled => s \notin open
    BY <1>7 DEF DeliverWsFails, OneHandler
  <2>3. \A e \in sends' : e \in sends \/ e.to = d.to
    BY <1>7, <1>h, GoesOn DEF DeliverWsFails, At
  <2> QED BY <1>7, <2>1, <2>2, <2>3, NobodyNew DEF DeliverWsFails
(* The agent of a failure has no client.                                    *)
<1>8. ASSUME NEW d \in sends, DetachFailed(d) PROVE OneHandler'
  <2>1. \A s \in Sockets : Active(s)' = Active(s)
    BY <1>8 DEF Active, DetachFailed
  <2>2. ws' = [ws EXCEPT ![d.to] = Nobody] /\ d.to \in Agents
    BY <1>8, <1>h DEF DetachFailed, Delivery
  <2>3. \A s \in Sockets : Active(s) /\ AgentOf[s] \notin tangled /\ s \in open => AgentOf[s] # d.to
    BY <1>8 DEF DetachFailed, OneHandler
  <2>4. \A s \in Sockets : Active(s) /\ AgentOf[s] \notin tangled /\ s \in open => ws'[AgentOf[s]] = ws[AgentOf[s]]
    BY <1>c, <1>w, <2>2, <2>3
  <2> QED BY <1>5, <1>8, <2>1, <2>4, NobodyNew DEF DetachFailed
(* A handler that finds its client gone was the only one of its agent.      *)
<1>9. ASSUME NEW x \in Sockets, sock[x].at = "loop", x \notin open, UNCHANGED <<open, tangled>>,
             sock' = [sock EXCEPT ![x].at = "gone"],
             ws' = [ws EXCEPT ![AgentOf[x]] = Nobody] \/ UNCHANGED ws, sends' \subseteq sends
      PROVE  OneHandler'
  <2>1. \A s \in Sockets : Active(s)' => Active(s)
    BY <1>9, <1>h DEF Active
  <2>2. \A s \in Sockets : Active(s) /\ AgentOf[s] \notin tangled /\ s \in open => AgentOf[s] # AgentOf[x]
    BY <1>9 DEF OneHandler, Active
  <2>3. \A s \in Sockets : Active(s) /\ AgentOf[s] \notin tangled /\ s \in open => ws'[AgentOf[s]] = ws[AgentOf[s]]
    BY <1>c, <1>w, <1>9, <2>2
  <2> QED BY <1>9, <2>1, <2>3, NobodyNew
<1>10. ASSUME NEW s \in Sockets, Disconnected(s) PROVE OneHandler'
  BY <1>9, <1>10 DEF Disconnected, Reading
<1>11. ASSUME NEW d \in sends, NEW reached \in BOOLEAN, NEW answer \in BOOLEAN, DeliverCallback(d, reached, answer)
       PROVE  OneHandler'
  <2>1. CASE answer /\ d.by # Nobody /\ d.by \notin open
    <3>1. d.by \in Sockets /\ sock[d.by].at = "loop"
      BY <1>h, <2>1 DEF HandlersWait, Delivery
    <3>2. /\ sock' = [sock EXCEPT ![d.by].at = "gone"] /\ UNCHANGED <<open, tangled>> /\ sends' \subseteq sends
          /\ ws' = [ws EXCEPT ![AgentOf[d.by]] = Nobody] \/ UNCHANGED ws
      BY <1>11, <2>1 DEF DeliverCallback
    <3> QED BY <1>9, <2>1, <3>1, <3>2
  <2>2. CASE ~(answer /\ d.by # Nobody /\ d.by \notin open)
    BY <1>1, <1>11, <2>2 DEF DeliverCallback
  <2> QED BY <2>1, <2>2
<1>12. ASSUME NEW a \in Agents, Unregister(a) PROVE OneHandler'
  <2>1. \A s \in Sockets : Active(s)' = Active(s)
    BY <1>12 DEF Active, Unregister
  <2>2. \A s \in Sockets : AgentOf[s] \notin tangled' => ws'[AgentOf[s]] = ws[AgentOf[s]]
    BY <1>12, <1>c, <1>w DEF Unregister
  <2> QED BY <1>12, <2>1, <2>2, NobodyNew DEF Unregister
<1>13. ASSUME NEW s \in Sockets, Flush(s) PROVE OneHandler'
  <2>1. sock[s].at = "flush" /\ \A x \in Sockets \ {s} : sock'[x] = sock[x]
    BY <1>13, <1>h DEF Flush
  <2>2. \A x \in Sockets : Active(x)' => Active(x)
    BY <2>1 DEF Active
  <2> QED BY <1>13, <2>2, NobodyNew DEF Flush
<1>14. ASSUME NEW s \in Sockets, Break(s) PROVE OneHandler'
  <2>1. \A x \in Sockets : Active(x)' = Active(x)
    BY <1>14 DEF Active, Break
  <2> QED BY <1>14, <2>1, NobodyNew DEF Break
<1>15. ASSUME NEW s \in Sockets, Connect(s) PROVE OneHandler'
  <2> DEFINE a == AgentOf[s]
  <2>1. /\ a \in Agents /\ ws'[a] = s /\ \A b \in Agents \ {a} : ws'[b] = ws[b]
        /\ ~Active(s) /\ open' = open \cup {s} /\ sends' = sends /\ tangled \subseteq tangled'
    BY <1>15, <1>c, <1>w DEF Connect, Active
  <2>2. \A x \in Sockets \ {s} : Active(x)' = Active(x)
    BY <1>15, <1>h DEF Connect, Active
  <2>3. a \notin tangled' => /\ \A x \in Sockets : AgentOf[x] = a => ~Active(x)
                             /\ \A d \in sends : d.at = "failed" => d.to # a
    BY <1>15, <2>1 DEF Connect, Active
  <2>4. ASSUME NEW x \in Sockets, Active(x)', AgentOf[x] \notin tangled'
        PROVE  /\ x \in open' => ws'[AgentOf[x]] = x
               /\ \A y \in Sockets : Active(y)' /\ AgentOf[y] = AgentOf[x] => y = x
    <3>1. CASE AgentOf[x] = a
      BY <2>1, <2>2, <2>3, <2>4, <3>1
    <3>2. CASE AgentOf[x] # a
      BY <1>c, <2>1, <2>2, <2>4, <3>2 DEF OneHandler
    <3> QED BY <3>1, <3>2
  <2>5. ASSUME NEW d \in sends', d.at = "failed", d.to \notin tangled', NEW x \in Sockets, Active(x)', AgentOf[x] = d.to
        PROVE  x \notin open'
    BY <2>1, <2>2, <2>3, <2>5 DEF OneHandler
  <2> QED BY <2>4, <2>5 DEF OneHandler
<1>16. CASE UNCHANGED vars
  BY <1>1, <1>16 DEF vars
<1> QED BY <1>2, <1>3, <1>4, <1>6, <1>7, <1>8, <1>10, <1>11, <1>12, <1>13, <1>14, <1>15, <1>16 DEF Next

-----------------------------------------------------------------------------
(* The theorems.                                                            *)

LEMMA GatewayInvInit == Init => GatewayInv
<1> SUFFICES ASSUME Init PROVE GatewayInv
  OBVIOUS
<1>1. Types
  BY GatewayAssumption DEF Init, Quiet, Types
<1>2. \A s \in Sockets : sock[s].at = "new" /\ sock[s].rest = <<>>
  BY DEF Init, Quiet
<1>3. \A a \in Agents : queues[a] = <<>> /\ given[a] = <<>>
  BY DEF Init
<1>4. ToSet(<<>>) = {} /\ IsInjective(<<>>)
  BY ElementsOfEmpty DEF IsInjective
<1>5. \A a \in Agents : Waiting(a) = {} /\ Held(a) = {}
  BY <1>2, <1>3, <1>4 DEF Waiting, Held
<1>6. Numbered /\ AcceptedIsNotLost /\ HandlersWait
  BY <1>5 DEF Init, Numbered, AcceptedIsNotLost, HandlersWait
<1>7. OnePlace
  BY <1>2, <1>3, <1>4, <1>5 DEF OnePlace, QueueGivesOnce
<1>8. OneHandler
  BY <1>2 DEF Init, OneHandler, Active
<1> QED BY <1>1, <1>6, <1>7, <1>8 DEF GatewayInv

LEMMA GatewayInvStep == GatewayInv /\ [Next]_vars => GatewayInv'
BY TypesStep, NumberedStep, PlacesStep, AcceptedStep, HandlersWaitStep, OneHandlerStep DEF GatewayInv

LEMMA GatewayInvAlways == Spec => []GatewayInv
BY GatewayInvInit, GatewayInvStep, PTL DEF Spec

(* The variables of the gateway have their types; a handler holds at most   *)
(* a batch.                                                                 *)
THEOREM GatewayTypes == Spec => []TypeOK
<1>1. Types => TypeOK
  BY DEF Types, TypeOK
<1>2. GatewayInv => TypeOK
  BY <1>1 DEF GatewayInv
<1> QED BY <1>2, GatewayInvAlways, PTL

(* Whatever the order in which the handlers get their turns: a message      *)
(* whose sender got 202 is with its recipient, waits for it, or was lost    *)
(* with a socket that broke while it flushed; a queue gives each entry      *)
(* once; and a socket that is read, of an agent without a second socket, a  *)
(* failed send or an unregistration, is the one deliver uses.               *)
THEOREM GatewayHolds == Spec => []GatewayDelivers
<1>1. OneHandler => ReadIsAttached
  BY DEF OneHandler, Active, ReadIsAttached
<1>2. GatewayInv => GatewayDelivers
  BY <1>1 DEF GatewayInv, OnePlace, GatewayDelivers
<1> QED BY <1>2, GatewayInvAlways, PTL

-----------------------------------------------------------------------------
(* Federation.                                                              *)

(* A request that registers a relay, from its look at the registry on.      *)
Registering(c, l) == call[c].pc \in {"row", "add"} /\ call[c].link = l

Row == [link : Links, ws : BOOLEAN]
Request == [kind : {"idle", "add", "route"}, link : Links \cup {None},
            pc : {"none", "row", "add", "send"}, row : Nat]

(* Types: a registered relay has a row, and a request that made one keeps   *)
(* its number.                                                              *)
FederationTypes ==
  /\ rows \in Seq(Row)
  /\ relays \in Seq(Nat) /\ \A i \in DOMAIN relays : relays[i] \in DOMAIN rows
  /\ call \in [Callers -> Request]
  /\ \A c \in Callers : /\ call[c].pc \in {"row", "add"} => call[c].link \in Links
                        /\ call[c].pc = "add" => /\ call[c].row \in DOMAIN rows
                                                 /\ rows[call[c].row].link = call[c].link
  /\ fedWs \subseteq Locals /\ queued \in [Locals -> Seq(Nat)] /\ fedGot \in [Locals -> Seq(Nat)]
  /\ feds \in Nat

(* A link that is registered twice, is about to be although it is, or that  *)
(* two requests are about to register, was asked for by overlapping ones.   *)
OneRegistration ==
  /\ F!OneRelayPerLink
  /\ \A c \in Callers, l \in Links :
       /\ Registering(c, l) /\ F!Registered(l) => l \in twin
       /\ \A d \in Callers \ {c} : Registering(c, l) /\ Registering(d, l) => l \in twin

(* Envelopes are numbered as they come.                                     *)
Increasing(s) == \A i, j \in DOMAIN s : i < j => s[i] < s[j]
EnvelopesNumbered ==
  \A p \in Locals : /\ Increasing(fedGot[p] \o queued[p])
                    /\ \A i \in DOMAIN (fedGot[p] \o queued[p]) : (fedGot[p] \o queued[p])[i] <= feds

FederationInv == FederationTypes /\ OneRegistration /\ EnvelopesNumbered

(* The rows of registered relays and of requests stay when one is added or  *)
(* its socket changes.                                                      *)
RowsGrow ==
  /\ rows' \in Seq(Row)
  /\ \A r \in DOMAIN rows : r \in DOMAIN rows' /\ rows'[r].link = rows[r].link

LEMMA RowMade ==
  ASSUME NEW q \in Request, NEW n \in Nat
  PROVE  LET e == [q EXCEPT !.pc = "add", !.row = n]
         IN e \in Request /\ e.pc = "add" /\ e.row = n /\ e.link = q.link
BY DEF Request

LEMMA SocketChanged ==
  ASSUME NEW q \in Row, NEW on \in BOOLEAN
  PROVE  LET e == [q EXCEPT !.ws = on] IN e \in Row /\ e.link = q.link
BY DEF Row

LEMMA RowChanged ==
  ASSUME NEW r \in DOMAIN rows, FederationTypes, NEW on \in BOOLEAN, rows' = [rows EXCEPT ![r].ws = on]
  PROVE  RowsGrow
<1>1. rows \in Seq(Row) /\ rows[r] \in Row
  BY DEF FederationTypes
<1> DEFINE e == [rows[r] EXCEPT !.ws = on]
<1>2. e \in Row /\ e.link = rows[r].link
  BY <1>1, SocketChanged
<1>3. rows' = [rows EXCEPT ![r] = e]
  OBVIOUS
<1> HIDE DEF e
<1>4. rows' \in Seq(Row) /\ DOMAIN rows' = DOMAIN rows
      /\ \A q \in DOMAIN rows : rows'[q] = IF q = r THEN e ELSE rows[q]
  BY <1>1, <1>2, <1>3
<1> QED BY <1>2, <1>4 DEF RowsGrow

LEMMA IncreasingAppend ==
  ASSUME NEW s \in Seq(Nat), NEW n \in Nat, Increasing(s), \A i \in DOMAIN s : s[i] <= n
  PROVE  LET t == Append(s, n + 1) IN Increasing(t) /\ \A i \in DOMAIN t : t[i] <= n + 1
BY DEF Increasing

LEMMA AppendAtEnd ==
  ASSUME NEW s \in Seq(Nat), NEW t \in Seq(Nat), NEW e \in Nat
  PROVE  s \o Append(t, e) = Append(s \o t, e)
OBVIOUS

LEMMA RouteAsked ==
  ASSUME NEW n \in Nat
  PROVE  LET e == [F!Idle EXCEPT !.kind = "route", !.pc = "send", !.row = n]
         IN e \in Request /\ e.pc = "send"
BY DEF F!Idle, Request

LEMMA FederationInit == F!Init => FederationInv
<1> SUFFICES ASSUME F!Init PROVE FederationInv
  OBVIOUS
<1> USE DEF F!Init, F!Idle
<1>1. FederationTypes
  BY DEF FederationTypes, Request
<1>2. OneRegistration
  BY DEF OneRegistration, F!OneRelayPerLink, F!Registered, Registering
<1>3. EnvelopesNumbered
  BY DEF EnvelopesNumbered, Increasing
<1> QED BY <1>1, <1>2, <1>3 DEF FederationInv

LEMMA FederationSame ==
  ASSUME FederationInv, RowsGrow, UNCHANGED <<relays, call, twin, queued, fedGot, feds>>, fedWs' \subseteq Locals
  PROVE  FederationInv'
<1> USE DEF FederationInv, RowsGrow
<1>1. FederationTypes'
  <2>1. \A i \in DOMAIN relays : relays[i] \in DOMAIN rows'
    BY DEF FederationTypes
  <2>2. \A c \in Callers : call[c].pc = "add" => /\ call[c].row \in DOMAIN rows'
                                                /\ rows'[call[c].row].link = call[c].link
    BY DEF FederationTypes
  <2> QED BY <2>1, <2>2 DEF FederationTypes
<1>2. OneRegistration'
  <2>1. \A i \in DOMAIN relays : relays[i] \in DOMAIN rows
    BY DEF FederationTypes
  <2>2. \A i \in DOMAIN relays : rows'[relays[i]].link = rows[relays[i]].link
    BY <2>1
  <2>3. \A l : F!Registered(l)' <=> F!Registered(l)
    BY <2>2 DEF F!Registered
  <2>4. F!OneRelayPerLink'
    BY <2>2 DEF F!OneRelayPerLink, OneRegistration
  <2> QED BY <2>3, <2>4 DEF OneRegistration, Registering
<1>3. EnvelopesNumbered'
  BY DEF EnvelopesNumbered, Increasing
<1> QED BY <1>1, <1>2, <1>3

LEMMA EnvelopesTyped ==
  ASSUME FederationTypes, UNCHANGED <<rows, relays, call>>, fedWs' \subseteq Locals, feds' \in Nat,
         queued' \in [Locals -> Seq(Nat)], fedGot' \in [Locals -> Seq(Nat)]
  PROVE  FederationTypes'
BY DEF FederationTypes

LEMMA FederationStep ==
  ASSUME FederationInv, F!Next
  PROVE  FederationInv'
<1> USE DEF F!outVars, F!inVars
<1>1. ASSUME NEW c \in Callers, NEW l \in Links, F!Look(c, l)
      PROVE  FederationInv'
  <2>1. CASE F!Registered(l)
    <3>1. UNCHANGED <<rows, relays, call, twin, queued, fedGot, feds, fedWs>>
      BY <1>1, <2>1 DEF F!Look
    <3> QED BY <3>1 DEF FederationInv, FederationTypes, OneRegistration, F!OneRelayPerLink, F!Registered,
                        Registering, EnvelopesNumbered, Increasing
  <2>2. CASE ~F!Registered(l)
    <3>1. /\ call' = [call EXCEPT ![c] = [kind |-> "add", link |-> l, pc |-> "row", row |-> 0]]
          /\ twin \subseteq twin' /\ \A d \in Callers : call[d].link = l => l \in twin'
          /\ UNCHANGED <<rows, relays, queued, fedGot, feds, fedWs>>
      BY <1>1, <2>2 DEF F!Look, F!Idle
    <3>2. FederationTypes'
      BY <3>1 DEF FederationInv, FederationTypes, Request
    <3>3. OneRegistration'
      BY <3>1, <2>2 DEF FederationInv, FederationTypes, OneRegistration, F!OneRelayPerLink, F!Registered, Registering
    <3>4. EnvelopesNumbered'
      BY <3>1 DEF FederationInv, EnvelopesNumbered, Increasing
    <3> QED BY <3>2, <3>3, <3>4 DEF FederationInv
  <2> QED BY <2>1, <2>2
<1>2. ASSUME NEW c \in Callers, F!MakeRow(c)
      PROVE  FederationInv'
  <2>1. /\ call[c].pc = "row" /\ call[c].link \in Links
        /\ rows' = Append(rows, [link |-> call[c].link, ws |-> FALSE])
        /\ call' = [call EXCEPT ![c] = [@ EXCEPT !.pc = "add", !.row = Len(rows) + 1]]
        /\ UNCHANGED <<relays, twin, queued, fedGot, feds, fedWs>>
    BY <1>2 DEF F!MakeRow, FederationInv, FederationTypes
  <2>r. LET e == [link |-> call[c].link, ws |-> FALSE] IN e \in Row /\ e.link = call[c].link
    BY <2>1 DEF Row
  <2>2. /\ rows' \in Seq(Row) /\ Len(rows') = Len(rows) + 1 /\ DOMAIN rows' = 1 .. Len(rows) + 1
        /\ DOMAIN rows = 1 .. Len(rows) /\ Len(rows) \in Nat
        /\ rows'[Len(rows) + 1].link = call[c].link
        /\ \A r \in DOMAIN rows : r \in DOMAIN rows' /\ rows'[r].link = rows[r].link
    BY <2>1, <2>r DEF FederationInv, FederationTypes
  <2>3. /\ \A d \in Callers \ {c} : call'[d] = call[d]
        /\ call'[c].pc = "add" /\ call'[c].row = Len(rows) + 1 /\ call'[c].link = call[c].link
        /\ call' \in [Callers -> Request]
    <3> DEFINE e == [call[c] EXCEPT !.pc = "add", !.row = Len(rows) + 1]
    <3>1. call[c] \in Request /\ call \in [Callers -> Request]
      BY DEF FederationInv, FederationTypes, Request
    <3>2. e \in Request /\ e.pc = "add" /\ e.row = Len(rows) + 1 /\ e.link = call[c].link
      <4>1. Len(rows) + 1 \in Nat
        BY <2>2
      <4> QED BY <3>1, <4>1, RowMade
    <3>3. call' = [call EXCEPT ![c] = e]
      BY <2>1
    <3> HIDE DEF e
    <3> QED BY <3>1, <3>2, <3>3
  <2>4. FederationTypes'
    BY <2>1, <2>2, <2>3 DEF FederationInv, FederationTypes, Request
  <2>5. OneRegistration'
    BY <2>1, <2>2, <2>3 DEF FederationInv, FederationTypes, OneRegistration, F!OneRelayPerLink, F!Registered, Registering
  <2>6. EnvelopesNumbered'
    BY <2>1 DEF FederationInv, EnvelopesNumbered, Increasing
  <2> QED BY <2>4, <2>5, <2>6 DEF FederationInv
<1>3. ASSUME NEW c \in Callers, F!AddRelay(c)
      PROVE  FederationInv'
  <2>1. /\ call[c].pc = "add" /\ call[c].row \in DOMAIN rows /\ rows[call[c].row].link = call[c].link
        /\ call[c].link \in Links /\ call[c].row \in Nat
        /\ relays' = Append(relays, call[c].row)
        /\ call' = [call EXCEPT ![c] = [kind |-> "idle", link |-> None, pc |-> "none", row |-> 0]]
        /\ UNCHANGED <<rows, twin, queued, fedGot, feds, fedWs>>
    BY <1>3 DEF F!AddRelay, F!Idle, FederationInv, FederationTypes
  <2>2. FederationTypes'
    BY <2>1 DEF FederationInv, FederationTypes, Request
  <2>3. \A i \in DOMAIN relays' : \/ i \in DOMAIN relays /\ relays'[i] = relays[i]
                                  \/ i = Len(relays) + 1 /\ i \notin DOMAIN relays /\ relays'[i] = call[c].row
    BY <2>1 DEF FederationInv, FederationTypes, Request
  <2>4. OneRegistration'
    <3>1. \A d \in Callers, l \in Links : Registering(d, l)' => d # c /\ Registering(d, l)
      BY <2>1 DEF Registering, FederationInv, FederationTypes
    <3>2. \A l : F!Registered(l)' => F!Registered(l) \/ l = call[c].link
      BY <2>1, <2>3 DEF F!Registered
    <3>3. Registering(c, call[c].link)
      BY <2>1 DEF Registering
    <3>4. F!OneRelayPerLink'
      <4> SUFFICES ASSUME NEW i \in DOMAIN relays', NEW j \in DOMAIN relays', i # j,
                          rows[relays'[i]].link = rows[relays'[j]].link
                   PROVE  rows[relays'[i]].link \in twin
        BY <2>1 DEF F!OneRelayPerLink
      <4>1. CASE i \in DOMAIN relays /\ j \in DOMAIN relays
        BY <2>3, <4>1, <2>1 DEF FederationInv, OneRegistration, F!OneRelayPerLink
      <4>2. CASE i \notin DOMAIN relays
        BY <2>3, <4>2, <2>1, <3>3 DEF FederationInv, OneRegistration, F!Registered
      <4>3. CASE j \notin DOMAIN relays
        BY <2>3, <4>3, <2>1, <3>3 DEF FederationInv, OneRegistration, F!Registered
      <4> QED BY <4>1, <4>2, <4>3
    <3> QED BY <2>1, <3>1, <3>2, <3>3, <3>4 DEF FederationInv, OneRegistration
  <2>5. EnvelopesNumbered'
    BY <2>1 DEF FederationInv, EnvelopesNumbered, Increasing
  <2> QED BY <2>2, <2>4, <2>5 DEF FederationInv
<1>4. ASSUME NEW c \in Callers, NEW i \in 1 .. MaxRows, F!AskRoute(c, i)
      PROVE  FederationInv'
  <2>1. /\ \E e \in Request : e.pc = "send" /\ call' = [call EXCEPT ![c] = e]
        /\ UNCHANGED <<rows, relays, twin, queued, fedGot, feds, fedWs>>
    <3>1. i \in DOMAIN relays /\ UNCHANGED <<rows, relays, twin, queued, fedGot, feds, fedWs>>
      BY <1>4 DEF F!AskRoute
    <3>2. relays[i] \in Nat
      BY <3>1 DEF FederationInv, FederationTypes
    <3>3. call' = [call EXCEPT ![c] = [F!Idle EXCEPT !.kind = "route", !.pc = "send", !.row = relays[i]]]
      BY <1>4 DEF F!AskRoute
    <3> QED BY <3>1, <3>2, <3>3, RouteAsked
  <2>2. FederationTypes'
    BY <2>1 DEF FederationInv, FederationTypes, Request
  <2>3. OneRegistration'
    BY <2>1 DEF FederationInv, FederationTypes, OneRegistration, F!OneRelayPerLink, F!Registered, Registering
  <2>4. EnvelopesNumbered'
    BY <2>1 DEF FederationInv, EnvelopesNumbered, Increasing
  <2> QED BY <2>2, <2>3, <2>4 DEF FederationInv
<1>5. ASSUME NEW c \in Callers, F!Route(c)
      PROVE  FederationInv'
  <2>1. /\ call' = [call EXCEPT ![c] = [kind |-> "idle", link |-> None, pc |-> "none", row |-> 0]]
        /\ UNCHANGED <<rows, relays, twin, queued, fedGot, feds, fedWs>>
    BY <1>5 DEF F!Route, F!Idle
  <2>2. FederationTypes'
    BY <2>1 DEF FederationInv, FederationTypes, Request
  <2>3. OneRegistration'
    BY <2>1 DEF FederationInv, FederationTypes, OneRegistration, F!OneRelayPerLink, F!Registered, Registering
  <2>4. EnvelopesNumbered'
    BY <2>1 DEF FederationInv, EnvelopesNumbered, Increasing
  <2> QED BY <2>2, <2>3, <2>4 DEF FederationInv
<1>6. ASSUME NEW r \in 1 .. MaxRows, F!Connect(r) \/ F!Disconnect(r)
      PROVE  FederationInv'
  <2>1. /\ r \in DOMAIN rows /\ UNCHANGED <<relays, call, twin, queued, fedGot, feds, fedWs>>
        /\ \E on \in BOOLEAN : rows' = [rows EXCEPT ![r].ws = on]
    BY <1>6 DEF F!Connect, F!Disconnect
  <2>2. FederationTypes /\ fedWs' \subseteq Locals
    BY <2>1 DEF FederationInv, FederationTypes
  <2>3. RowsGrow
    BY <2>1, <2>2, RowChanged
  <2> QED BY <2>1, <2>2, <2>3, FederationSame
<1>7. ASSUME NEW p \in Locals, F!Receive(p)
      PROVE  FederationInv'
  <2>1. /\ UNCHANGED <<rows, relays, call, twin, fedGot, fedWs>> /\ feds' = feds + 1
        /\ \/ UNCHANGED queued
           \/ queued' = [queued EXCEPT ![p] = Append(@, feds + 1)]
    BY <1>7 DEF F!Receive, F!Serialises, F!FirstArgument
  <2>t. /\ FederationTypes /\ fedWs \subseteq Locals /\ feds \in Nat
        /\ queued \in [Locals -> Seq(Nat)] /\ fedGot \in [Locals -> Seq(Nat)]
    BY DEF FederationInv, FederationTypes
  <2>2. FederationTypes'
    <3>1. queued' \in [Locals -> Seq(Nat)]
      <4>1. Append(queued[p], feds + 1) \in Seq(Nat)
        BY <2>t
      <4> QED BY <2>1, <2>t, <4>1
    <3>2. feds' \in Nat
      BY <2>1, <2>t
    <3> QED BY <2>1, <2>t, <3>1, <3>2, EnvelopesTyped
  <2>3. OneRegistration'
    BY <2>1 DEF FederationInv, FederationTypes, OneRegistration, F!OneRelayPerLink, F!Registered, Registering
  <2>4. ASSUME NEW q \in Locals
        PROVE  LET all == fedGot'[q] \o queued'[q]
               IN Increasing(all) /\ \A i \in DOMAIN all : all[i] <= feds'
    <3> DEFINE all == fedGot[q] \o queued[q]
    <3>1. all \in Seq(Nat) /\ Increasing(all) /\ (\A i \in DOMAIN all : all[i] <= feds) /\ feds \in Nat
      BY DEF FederationInv, FederationTypes, EnvelopesNumbered
    <3>2. fedGot'[q] \o queued'[q] = all \/ fedGot'[q] \o queued'[q] = Append(all, feds + 1)
      <4>1. CASE queued' = queued
        BY <2>1, <4>1
      <4>2. CASE queued' = [queued EXCEPT ![p] = Append(@, feds + 1)]
        <5>1. queued'[q] = IF q = p THEN Append(queued[q], feds + 1) ELSE queued[q]
          BY <2>t, <4>2
        <5>2. feds + 1 \in Nat /\ queued[q] \in Seq(Nat) /\ fedGot[q] \in Seq(Nat) /\ fedGot'[q] = fedGot[q]
          BY <2>1, <2>t
        <5>3. fedGot[q] \o Append(queued[q], feds + 1) = Append(fedGot[q] \o queued[q], feds + 1)
          BY <5>2, AppendAtEnd
        <5> QED BY <5>1, <5>2, <5>3
      <4> QED BY <2>1, <4>1, <4>2
    <3>3. \A i \in DOMAIN all : all[i] <= feds + 1
      <4> HIDE DEF all
      <4> QED BY <3>1
    <3> HIDE DEF all
    <3> QED BY <2>1, <3>1, <3>2, <3>3, IncreasingAppend
  <2>5. EnvelopesNumbered'
    BY <2>4 DEF EnvelopesNumbered
  <2> QED BY <2>2, <2>3, <2>5 DEF FederationInv
<1>8. ASSUME NEW p \in Locals, F!Arrive(p)
      PROVE  FederationInv'
  <2>1. /\ UNCHANGED <<rows, relays, call, twin, feds>>
        /\ fedWs' = fedWs \cup {p}
        /\ fedGot' = [fedGot EXCEPT ![p] = @ \o queued[p]]
        /\ queued' = [queued EXCEPT ![p] = <<>>]
    BY <1>8 DEF F!Arrive
  <2>t. /\ FederationTypes /\ fedWs \subseteq Locals /\ feds \in Nat
        /\ queued \in [Locals -> Seq(Nat)] /\ fedGot \in [Locals -> Seq(Nat)]
    BY DEF FederationInv, FederationTypes
  <2>2. FederationTypes'
    <3>1. queued' \in [Locals -> Seq(Nat)] /\ fedGot' \in [Locals -> Seq(Nat)]
      <4>1. fedGot[p] \o queued[p] \in Seq(Nat) /\ <<>> \in Seq(Nat)
        BY <2>t
      <4> QED BY <2>1, <2>t, <4>1
    <3> QED BY <2>1, <2>t, <3>1, EnvelopesTyped
  <2>3. OneRegistration'
    BY <2>1 DEF FederationInv, FederationTypes, OneRegistration, F!OneRelayPerLink, F!Registered, Registering
  <2>4. ASSUME NEW q \in Locals PROVE fedGot'[q] \o queued'[q] = fedGot[q] \o queued[q]
    <3>1. fedGot[q] \in Seq(Nat) /\ queued[q] \in Seq(Nat)
      BY <2>t
    <3>2. /\ fedGot'[q] = IF q = p THEN fedGot[q] \o queued[q] ELSE fedGot[q]
          /\ queued'[q] = IF q = p THEN <<>> ELSE queued[q]
      BY <2>1, <2>t
    <3>3. (fedGot[q] \o queued[q]) \o <<>> = fedGot[q] \o queued[q]
      BY <3>1
    <3> QED BY <3>2, <3>3
  <2>5. EnvelopesNumbered'
    BY <2>1, <2>4 DEF FederationInv, EnvelopesNumbered
  <2> QED BY <2>2, <2>3, <2>5 DEF FederationInv
<1>9. ASSUME NEW p \in Locals, F!GoAway(p)
      PROVE  FederationInv'
  <2>1. RowsGrow /\ UNCHANGED <<relays, call, twin, queued, fedGot, feds>> /\ fedWs' \subseteq Locals
    BY <1>9 DEF F!GoAway, RowsGrow, FederationInv, FederationTypes
  <2> QED BY <2>1, FederationSame
<1> QED BY <1>1, <1>2, <1>3, <1>4, <1>5, <1>6, <1>7, <1>8, <1>9 DEF F!Next

LEMMA FederationPart ==
  ASSUME part = "federation" => FederationInv,
         [NextAll]_<<part, relayVars, vars, groupsVars, signalVars, federationVars, sdkVars, lanVars>>
  PROVE  (part = "federation" => FederationInv)'
<1> SUFFICES ASSUME part' = "federation" PROVE FederationInv'
  OBVIOUS
<1>1. CASE Federation
  BY <1>1, FederationStep DEF Federation
<1>2. CASE UNCHANGED federationVars /\ part = "federation"
  BY <1>2 DEF federationVars, FederationInv, FederationTypes, OneRegistration, F!OneRelayPerLink, F!Registered,
              Registering, EnvelopesNumbered, Increasing
<1> QED BY <1>1, <1>2 DEF NextAll, Relay, GatewayStep, Groups, Signal, Sdk, Lan

(* However registrations, connections, routes and arrivals interleave: a    *)
(* link has one relay unless two requests for it overlapped, and envelopes  *)
(* reach a peer once, in the order they came, at its socket or from the     *)
(* queue.                                                                   *)
THEOREM FederationHolds == SpecAll => []FederationIsSound
<1>1. InitAll => (part = "federation" => FederationInv)
  BY FederationInit DEF InitAll
<1>2. (part = "federation" => FederationInv)
      /\ [NextAll]_<<part, relayVars, vars, groupsVars, signalVars, federationVars, sdkVars, lanVars>>
      => (part = "federation" => FederationInv)'
  BY FederationPart
<1>3. (part = "federation" => FederationInv) => FederationIsSound
  BY DEF FederationIsSound, FederationInv, OneRegistration, EnvelopesNumbered, Increasing, F!FederatedInOrder
<1> QED BY <1>1, <1>2, <1>3, PTL DEF SpecAll

-----------------------------------------------------------------------------
(* The HTTP relay.                                                          *)

RelayMsg == [id : Ids \cup Nat, seq : Nat, ts : Nat, n : Nat]
Session == [msgs : Seq(RelayMsg), seq : Nat]
RelayRequest ==
  [at : {"idle", "loaded", "touch", "index", "remove", "unindex"}, op : {"none", "new", "join", "send", "delete"},
   token : Tokens \cup {Nothing}, id : Ids \cup Nat \cup {Nothing}, n : Nat,
   copy : Session \cup {Nothing}, index : [Tokens -> Nat]]
Pollers == Guests \cup Cursors

(* The request r of the session of t is between its two awaits.             *)
Loaded(r, t) == req[r].at = "loaded" /\ req[r].token = t
Busy(r, t) == req[r].at # "idle" /\ req[r].token = t

(* A session of t that is in the store or will be put there.                *)
Current(s, t) ==
  /\ s # Nothing
  /\ s = kv[t] \/ \E r \in Slots : Loaded(r, t) /\ s = req[r].copy

(* What a request must be like, next to its type.                           *)
RequestOK(q, n) ==
  /\ q.at # "idle" => q.token \in Tokens
  /\ q.at = "loaded" => /\ q.op \in {"new", "join", "send"} /\ (q.op # "new" => q.copy # Nothing)
                        /\ (q.op = "join" => q.id = q.n) /\ (q.op = "send" => q.id \in Ids)
  /\ q.n <= n

(* Types.                                                                   *)
RelayTypes ==
  /\ kv \in [Tokens -> Session \cup {Nothing}] /\ rooms \in [Tokens -> Nat]
  /\ req \in [Slots -> RelayRequest]
  /\ \A r \in Slots : RequestOK(req[r], requests)
  /\ now \in 1 .. MaxNow /\ requests \in Nat
  /\ since \in [Guests -> Nat] /\ last \in [Cursors -> Ids \cup Nat \cup {Nothing}]
  /\ got \in [Pollers -> Seq(RelayMsg)]
  /\ kept \in [Tokens -> SUBSET Nat] /\ mixed \in BOOLEAN

(* However requests overlap: no id twice, messages numbered and stamped in  *)
(* their order; an id is chosen by the sender or made of the request's      *)
(* number, which is later than those of what the request found.             *)
Sound(s) ==
  /\ \A i, j \in DOMAIN s.msgs : s.msgs[i].id = s.msgs[j].id => i = j
  /\ \A i, j \in DOMAIN s.msgs : i < j => s.msgs[i].seq < s.msgs[j].seq /\ s.msgs[i].ts <= s.msgs[j].ts
  /\ \A i \in DOMAIN s.msgs : /\ s.msgs[i].seq <= s.seq
                              /\ s.msgs[i].ts \in 1 .. now /\ s.msgs[i].n <= requests
                              /\ s.msgs[i].id \in Ids \/ s.msgs[i].id = s.msgs[i].n
Later(r) == \A i \in DOMAIN req[r].copy.msgs : req[r].copy.msgs[i].n < req[r].n
SessionsSound ==
  /\ \A t \in Tokens : \A s \in Session : Current(s, t) => Sound(s)
  /\ \A r \in Slots : req[r].at = "loaded" /\ req[r].copy # Nothing => Later(r)

(* As long as no requests of a session overlap one is under way, and what   *)
(* it found is still what is stored, unless that has ended.                 *)
OneAtATime == \A t \in Tokens \ raced, r, x \in Slots : Busy(r, t) /\ Busy(x, t) => x = r
FoundIsThere == \A t \in Tokens \ raced, r \in Slots : Loaded(r, t) => kv[t] \in {Nothing, req[r].copy}

(* Then the session has what was acknowledged and not dropped, in the order *)
(* in which the requests came in.                                           *)
NumbersIncrease(q) == \A i, j \in DOMAIN q : i < j => q[i].n < q[j].n
KeptThere ==
  \A t \in Tokens :
    /\ kv[t] = Nothing => kept[t] = {}
    /\ t \notin raced => \A s \in Session : Current(s, t) => /\ kept[t] \subseteq H!Numbers(s.msgs)
                                                             /\ NumbersIncrease(s.msgs)

(* A cursor has been given all that was there up to its last message; if    *)
(* anything that old is left, so is this message.                           *)
GivenUpTo(c, s) ==
  /\ \A j \in DOMAIN s.msgs : s.msgs[j].id = last[c] =>
       /\ got[c] # <<>> /\ s.msgs[j] = got[c][Len(got[c])]
       /\ \A i \in 1 .. j : \E k \in DOMAIN got[c] : got[c][k] = s.msgs[i]
  /\ got[c] # <<>> => \A i \in DOMAIN s.msgs : s.msgs[i].n <= got[c][Len(got[c])].n =>
                        \E j \in DOMAIN s.msgs : s.msgs[j] = got[c][Len(got[c])]
CursorAt(c) ==
  /\ NumbersIncrease(got[c])
  /\ \A i \in DOMAIN got[c] : /\ got[c][i].n <= requests
                              /\ \A r \in Slots : Loaded(r, t1) => got[c][i].n < req[r].n
  /\ last[c] = IF got[c] = <<>> THEN Nothing ELSE got[c][Len(got[c])].id
  /\ \A s \in Session : Current(s, t1) => GivenUpTo(c, s)
CursorsFollow == \A c \in Cursors : t1 \notin raced /\ c \notin lapped => CursorAt(c)

(* A guest has been given something of every time up to the newest.         *)
GuestAt(g) ==
  /\ since[g] <= now
  /\ since[g] # 0 => \E k \in DOMAIN got[g] : got[g][k].ts = since[g]
  /\ \A s \in Session : Current(s, t1) =>
       \A i \in DOMAIN s.msgs : s.msgs[i].ts <= since[g] => \E k \in DOMAIN got[g] : got[g][k].ts = s.msgs[i].ts
GuestsFollow == t1 \notin raced => \A g \in Guests : GuestAt(g)

(* A session that is not in the index is about to be put there by the one   *)
(* request that has the index.                                              *)
AtIndex(r) == req[r].at \in {"index", "unindex"}
IndexHeld ==
  /\ ~mixed => \A r \in Slots : AtIndex(r) => req[r].index = rooms /\ \A x \in Slots : AtIndex(x) => x = r
  /\ \A t \in Tokens \ raced :
       /\ \A r \in Slots : req[r].at \in {"remove", "unindex"} /\ req[r].token = t => kv[t] = Nothing
       /\ ~mixed /\ kv[t] # Nothing /\ rooms[t] = 0 =>
            \E r \in Slots : req[r].at \in {"touch", "index"} /\ req[r].token = t

RelayInv ==
  /\ RelayTypes /\ SessionsSound /\ OneAtATime /\ FoundIsThere /\ KeptThere
  /\ CursorsFollow /\ GuestsFollow /\ IndexHeld

-----------------------------------------------------------------------------
(* Records of requests.                                                     *)

LEMMA IdleRequest == H!Idle \in RelayRequest /\ H!Idle.at = "idle" /\ H!Idle.n = 0
BY DEF H!Idle, H!NoIndex, RelayRequest

Arrived(o, t, i, n, c) ==
  [H!Idle EXCEPT !.at = "loaded", !.op = o, !.token = t, !.id = i, !.n = n, !.copy = c]

LEMMA RequestArrives ==
  ASSUME NEW t \in Tokens, NEW o \in {"new", "join", "send"}, NEW i \in Ids \cup Nat \cup {Nothing},
         NEW n \in Nat, NEW c \in Session \cup {Nothing}
  PROVE  LET e == Arrived(o, t, i, n, c)
         IN e \in RelayRequest /\ e.at = "loaded" /\ e.op = o /\ e.token = t /\ e.id = i /\ e.n = n /\ e.copy = c
BY DEF H!Idle, H!NoIndex, RelayRequest, Arrived

LEMMA RequestRemoves ==
  ASSUME NEW t \in Tokens
  PROVE  LET e == [H!Idle EXCEPT !.at = "remove", !.op = "delete", !.token = t]
         IN e \in RelayRequest /\ e.at = "remove" /\ e.token = t /\ e.n = 0
BY DEF H!Idle, H!NoIndex, RelayRequest

LEMMA RequestPuts ==
  ASSUME NEW q \in RelayRequest
  PROVE  LET e == [q EXCEPT !.at = "touch", !.copy = Nothing]
         IN e \in RelayRequest /\ e.at = "touch" /\ e.token = q.token /\ e.n = q.n /\ e.op = q.op
BY DEF RelayRequest

Loading(q, a, x) == [q EXCEPT !.at = a, !.index = x]

LEMMA RequestLoads ==
  ASSUME NEW q \in RelayRequest, NEW x \in [Tokens -> Nat], NEW a \in {"index", "unindex"}
  PROVE  LET e == Loading(q, a, x)
         IN e \in RelayRequest /\ e.at = a /\ e.token = q.token /\ e.n = q.n /\ e.index = x
BY DEF RelayRequest, Loading

LEMMA Pushed ==
  ASSUME NEW s \in Session, NEW m \in RelayMsg
  PROVE  /\ H!Push(s, m) \in Session /\ H!Push(s, m).seq = m.seq
         /\ H!Push(s, m).msgs = IF Len(s.msgs) = MsgLimit THEN Append(Tail(s.msgs), m) ELSE Append(s.msgs, m)
<1>1. s.msgs \in Seq(RelayMsg) /\ m.seq \in Nat
  BY DEF Session, RelayMsg
<1>2. Len(s.msgs) = MsgLimit => s.msgs # <<>>
  BY <1>1, RelaysAssumption
<1> DEFINE q == IF Len(s.msgs) = MsgLimit THEN Append(Tail(s.msgs), m) ELSE Append(s.msgs, m)
<1>3. q \in Seq(RelayMsg)
  BY <1>1, <1>2
<1>4. H!Push(s, m) = [s EXCEPT !.seq = m.seq, !.msgs = q]
  BY DEF H!Push
<1> HIDE DEF q
<1>5. LET e == [s EXCEPT !.seq = m.seq, !.msgs = q] IN e \in Session /\ e.seq = m.seq /\ e.msgs = q
  BY <1>1, <1>3 DEF Session
<1> QED BY <1>4, <1>5 DEF q

LEMMA NothingIsNoSession == Nothing \notin Session
BY RelaysAssumption DEF Session, RelayMsg

LEMMA EmptySession == H!Empty \in Session /\ H!Empty.msgs = <<>>
BY DEF H!Empty, Session

-----------------------------------------------------------------------------
(* What the requests of the HTTP relay do.                                  *)

(* A request that comes in: r becomes e, which found what is stored.        *)
Comes(r, t) ==
  /\ req[r].at = "idle" /\ UNCHANGED <<kv, rooms, now, since, last, got, kept, mixed, lapped>>
  /\ requests' = requests + 1
  /\ raced' = IF H!Others(r, t) # {} THEN raced \cup {t} ELSE raced
  /\ \E e \in RelayRequest :
       /\ req' = [req EXCEPT ![r] = e]
       /\ e.at = "loaded" /\ e.token = t /\ e.n = requests + 1 /\ e.copy = kv[t]
       /\ e.op \in {"new", "join", "send"} /\ (e.op # "new" => kv[t] # Nothing)
       /\ e.op = "join" => e.id = e.n
       /\ e.op = "send" => e.id \in Ids

LEMMA Arrives ==
  ASSUME RelayTypes, NEW r \in Slots, NEW t \in Tokens,
         H!New(r, t) \/ H!Join(r, t) \/ \E i \in Ids : H!Send(r, t, i)
  PROVE  Comes(r, t)
<1>1. ASSUME NEW o \in {"new", "join", "send"}, NEW i \in Ids \cup Nat \cup {Nothing}, H!Arrive(r, o, t, i),
             o = "join" => i = requests + 1, o = "send" => i \in Ids
      PROVE  Comes(r, t)
  <2>1. requests + 1 \in Nat /\ kv[t] \in Session \cup {Nothing}
    BY DEF RelayTypes
  <2> DEFINE e == Arrived(o, t, i, requests + 1, kv[t])
  <2>2. /\ e \in RelayRequest /\ e.at = "loaded" /\ e.op = o /\ e.token = t /\ e.id = i
        /\ e.n = requests + 1 /\ e.copy = kv[t]
    BY <1>1, <2>1, RequestArrives
  <2>3. req' = [req EXCEPT ![r] = e] /\ (o # "new" => kv[t] # Nothing) /\ req[r].at = "idle"
        /\ requests' = requests + 1 /\ UNCHANGED <<kv, rooms, now, since, last, got, kept, mixed, lapped>>
        /\ raced' = IF H!Others(r, t) # {} THEN raced \cup {t} ELSE raced
    BY <1>1 DEF H!Arrive, H!store, H!polls, Arrived
  <2> HIDE DEF e
  <2> QED BY <1>1, <2>2, <2>3 DEF Comes
<1>2. CASE H!New(r, t)
  BY <1>1, <1>2 DEF H!New
<1>3. CASE H!Join(r, t)
  <2>1. requests + 1 \in Nat
    BY DEF RelayTypes
  <2> QED BY <1>1, <1>3, <2>1 DEF H!Join
<1>4. ASSUME NEW i \in Ids, H!Send(r, t, i) PROVE Comes(r, t)
  BY <1>1, <1>4 DEF H!Send
<1> QED BY <1>2, <1>3, <1>4

(* A request puts s back.                                                   *)
Puts(r, s) ==
  /\ req[r].at = "loaded" /\ s \in Session
  /\ kv' = [kv EXCEPT ![req[r].token] = s]
  /\ \E e \in RelayRequest : /\ req' = [req EXCEPT ![r] = e]
                             /\ e.at = "touch" /\ e.token = req[r].token /\ e.n = req[r].n
  /\ UNCHANGED <<rooms, now, since, last, got, requests, raced, mixed>>

LEMMA PutsIt ==
  ASSUME RelayTypes, NEW r \in Slots, NEW s \in Session, req[r].at = "loaded", H!Put(r, s)
  PROVE  Puts(r, s)
<1>1. req[r] \in RelayRequest
  BY DEF RelayTypes
<1> DEFINE e == [req[r] EXCEPT !.at = "touch", !.copy = Nothing]
<1>2. e \in RelayRequest /\ e.at = "touch" /\ e.token = req[r].token /\ e.n = req[r].n
  BY <1>1, RequestPuts
<1>3. req' = [req EXCEPT ![r] = e]
  BY DEF H!Put
<1> HIDE DEF e
<1> QED BY <1>2, <1>3 DEF Puts, H!Put, H!polls

PutsOld(r) ==
  /\ req[r].op = "new" /\ UNCHANGED <<kept, lapped>>
  /\ Puts(r, IF req[r].copy = Nothing THEN H!Empty ELSE req[r].copy)

LEMMA PutsNew ==
  ASSUME RelayTypes, NEW r \in Slots, H!PutNew(r)
  PROVE  PutsOld(r)
<1>1. (IF req[r].copy = Nothing THEN H!Empty ELSE req[r].copy) \in Session
  BY EmptySession DEF RelayTypes, RelayRequest
<1> QED BY <1>1, PutsIt DEF H!PutNew, PutsOld

(* What is stored of a message.                                             *)
Message(r) == [id |-> req[r].id, seq |-> req[r].copy.seq + 1, ts |-> now, n |-> req[r].n]
Stores(r) ==
  /\ req[r].op \in {"join", "send"} /\ req[r].copy \in Session /\ req[r].token \in Tokens
  /\ \A j \in DOMAIN req[r].copy.msgs : req[r].op = "send" => req[r].copy.msgs[j].id # req[r].id
  /\ Message(r) \in RelayMsg
  /\ Puts(r, H!Push(req[r].copy, Message(r)))
  /\ kept' = [kept EXCEPT ![req[r].token] = (@ \cup {req[r].n}) \ H!Cut(req[r].copy.msgs)]
  /\ lapped' = lapped \cup {c \in Cursors : t1 = req[r].token /\ last[c] = req[r].id}

LEMMA StoresMessage ==
  ASSUME RelayTypes, NEW r \in Slots, H!PutMessage(r)
  PROVE  Stores(r)
<1>1. /\ req[r] \in RelayRequest /\ req[r].at = "loaded" /\ req[r].op \in {"join", "send"} /\ req[r].token \in Tokens
      /\ req[r].copy # Nothing /\ (req[r].op = "join" => req[r].id = req[r].n)
      /\ (req[r].op = "send" => req[r].id \in Ids) /\ now \in Nat
  BY DEF H!PutMessage, RelayTypes, RequestOK
<1>2. req[r].copy \in Session /\ req[r].n \in Nat /\ req[r].id \in Ids \cup Nat
  BY <1>1 DEF RelayRequest
<1>3. req[r].copy.seq \in Nat
  BY <1>2 DEF Session
<1>4. Message(r) \in RelayMsg
  BY <1>1, <1>2, <1>3 DEF Message, RelayMsg
<1>5. H!Push(req[r].copy, Message(r)) \in Session
  BY <1>2, <1>4, Pushed
<1>6. H!Store(r)
  BY DEF H!PutMessage
<1>7. Puts(r, H!Push(req[r].copy, Message(r)))
  BY <1>1, <1>5, <1>6, PutsIt DEF H!Store, Message
<1>8. lapped' = lapped \cup {c \in Cursors : t1 = req[r].token /\ last[c] = req[r].id}
  BY <1>6 DEF H!Store
<1> QED BY <1>1, <1>2, <1>4, <1>6, <1>7, <1>8 DEF Stores, H!Store, H!PutMessage, H!Deduped

(* The request r is over.                                                   *)
Frees(r) == \E e \in RelayRequest : req' = [req EXCEPT ![r] = e] /\ e.at = "idle" /\ e.n = 0

LEMMA IdleFrees ==
  ASSUME NEW r \in Slots, req' = [req EXCEPT ![r] = H!Idle]
  PROVE  Frees(r)
BY IdleRequest DEF Frees

(* DELETE ends the session of t and goes on to the index.                   *)
Removes(r, t) ==
  /\ req[r].at = "idle" /\ UNCHANGED <<rooms, now, since, last, got, mixed, lapped>>
  /\ kv' = [kv EXCEPT ![t] = Nothing] /\ kept' = [kept EXCEPT ![t] = {}]
  /\ requests' = requests + 1
  /\ raced' = IF H!Others(r, t) # {} THEN raced \cup {t} ELSE raced
  /\ \E e \in RelayRequest : req' = [req EXCEPT ![r] = e] /\ e.at = "remove" /\ e.token = t /\ e.n = 0

LEMMA Deletes ==
  ASSUME NEW r \in Slots, NEW t \in Tokens, H!Delete(r, t)
  PROVE  Removes(r, t)
<1> DEFINE e == [H!Idle EXCEPT !.at = "remove", !.op = "delete", !.token = t]
<1>1. e \in RelayRequest /\ e.at = "remove" /\ e.token = t /\ e.n = 0
  BY RequestRemoves
<1>2. req' = [req EXCEPT ![r] = e]
  BY DEF H!Delete
<1> HIDE DEF e
<1> QED BY <1>1, <1>2 DEF H!Delete, H!polls, Removes

LoadsIndex(r) ==
  /\ req[r].at \in {"touch", "remove"}
  /\ \E e \in RelayRequest :
       /\ req' = [req EXCEPT ![r] = e]
       /\ e.at = (IF req[r].at = "touch" THEN "index" ELSE "unindex")
       /\ e.token = req[r].token /\ e.n = req[r].n /\ e.index = rooms
  /\ mixed' = (mixed \/ \E s \in Slots : AtIndex(s))
  /\ UNCHANGED <<kv, rooms, now, since, last, got, requests, kept, raced, lapped>>

LEMMA Loads ==
  ASSUME RelayTypes, NEW r \in Slots, H!LoadRooms(r)
  PROVE  LoadsIndex(r)
<1> DEFINE a == IF req[r].at = "touch" THEN "index" ELSE "unindex"
           e == Loading(req[r], a, rooms)
<1>1. req[r] \in RelayRequest /\ rooms \in [Tokens -> Nat] /\ a \in {"index", "unindex"}
  BY DEF RelayTypes
<1>2. e \in RelayRequest /\ e.at = a /\ e.token = req[r].token /\ e.n = req[r].n /\ e.index = rooms
  <2> HIDE DEF a
  <2> QED BY <1>1, RequestLoads
<1>3. req' = [req EXCEPT ![r] = e]
  BY DEF H!LoadRooms, Loading
<1> HIDE DEF e
<1> QED BY <1>2, <1>3 DEF LoadsIndex, AtIndex, H!LoadRooms, H!store, H!polls

(* The index r loaded is put back, with its room on top; a room k may go.   *)
Touches(r) ==
  /\ req[r].at = "index" /\ Frees(r)
  /\ \/ rooms' = [req[r].index EXCEPT ![req[r].token] = now] /\ UNCHANGED <<kv, kept>>
     \/ \E k \in Tokens \ {req[r].token} :
          /\ rooms' = [[req[r].index EXCEPT ![req[r].token] = now] EXCEPT ![k] = 0]
          /\ kv' = [kv EXCEPT ![k] = Nothing] /\ kept' = [kept EXCEPT ![k] = {}]
  /\ UNCHANGED <<now, since, last, got, requests, raced, mixed, lapped>>

LEMMA TouchesRoom ==
  ASSUME NEW r \in Slots, H!TouchRoom(r)
  PROVE  Touches(r)
<1>1. Frees(r) /\ req[r].at = "index"
  BY IdleFrees DEF H!TouchRoom
<1> DEFINE t == req[r].token
           index == [req[r].index EXCEPT ![t] = now]
<1>2. \A k \in H!Oldest(index, t) : k \in Tokens \ {t}
  BY DEF H!Oldest, H!InIndex
<1>3. \/ \E k \in H!Oldest(index, t) : /\ rooms' = [index EXCEPT ![k] = 0]
                                       /\ kv' = [kv EXCEPT ![k] = Nothing]
                                       /\ kept' = [kept EXCEPT ![k] = {}]
      \/ rooms' = index /\ UNCHANGED <<kv, kept>>
  BY DEF H!TouchRoom
<1>4. UNCHANGED <<now, since, last, got, requests, raced, mixed, lapped>>
  BY DEF H!TouchRoom, H!polls
<1> QED BY <1>1, <1>2, <1>3, <1>4 DEF Touches

Unindexes(r) ==
  /\ req[r].at = "unindex" /\ Frees(r)
  /\ rooms' = [req[r].index EXCEPT ![req[r].token] = 0]
  /\ UNCHANGED <<kv, now, since, last, got, requests, kept, raced, mixed, lapped>>

Expires(t) ==
  /\ kv' = [kv EXCEPT ![t] = Nothing] /\ kept' = [kept EXCEPT ![t] = {}] /\ requests' = requests + 1
  /\ UNCHANGED <<rooms, req, now, since, last, got, raced, mixed, lapped>>

Drops(r) ==
  /\ req[r].at = "loaded" /\ Frees(r)
  /\ UNCHANGED <<kv, rooms, now, since, last, got, requests, kept, raced, mixed, lapped>>

LEMMA Ends ==
  /\ \A r \in Slots : /\ H!RemoveRoom(r) => Unindexes(r)
                      /\ H!Dedup(r) => Drops(r)
  /\ \A t \in Tokens : H!Expire(t) => Expires(t)
<1>1. ASSUME NEW r \in Slots, H!RemoveRoom(r) PROVE Unindexes(r)
  BY <1>1, IdleFrees DEF H!RemoveRoom, Unindexes, H!polls, H!history
<1>2. ASSUME NEW r \in Slots, H!Dedup(r) PROVE Drops(r)
  BY <1>2, IdleFrees DEF H!Dedup, Drops, H!store, H!polls, H!history
<1>3. ASSUME NEW t \in Tokens, H!Expire(t) PROVE Expires(t)
  BY <1>3 DEF H!Expire, Expires, H!polls
<1> QED BY <1>1, <1>2, <1>3

(* The clock goes on.                                                       *)
Ticks == now' \in 1 .. MaxNow /\ now <= now'
         /\ UNCHANGED <<kv, rooms, req, since, last, got, requests, kept, raced, mixed, lapped>>

LEMMA TimePasses == ASSUME RelayTypes, H!Tick PROVE Ticks
BY RelaysAssumption DEF RelayTypes, H!Tick, Ticks, H!store, H!polls, H!history

(* A poll gives c the page q.                                               *)
PageGiven(c, q) ==
  /\ kv[t1] \in Session /\ q \in Seq(RelayMsg) /\ q # <<>>
  /\ got' = [got EXCEPT ![c] = @ \o q]
  /\ UNCHANGED <<kv, rooms, req, now, requests, kept, raced, mixed, lapped>>

(* Consecutive messages, behind the one with the cursor's last id, or from  *)
(* the start if there is none.                                              *)
PollsAfter(c) ==
  \E q \in Seq(RelayMsg), k \in Nat :
    /\ PageGiven(c, q) /\ k + Len(q) <= Len(kv[t1].msgs)
    /\ \A x \in DOMAIN q : q[x] = kv[t1].msgs[k + x]
    /\ \/ k = 0 /\ \A j \in DOMAIN kv[t1].msgs : kv[t1].msgs[j].id # last[c]
       \/ k > 0 /\ kv[t1].msgs[k].id = last[c]
    /\ last' = [last EXCEPT ![c] = q[Len(q)].id]
    /\ UNCHANGED since

LEMMA PageOf ==
  ASSUME NEW s \in Seq(RelayMsg)
  PROVE  /\ H!Page(s) \in Seq(RelayMsg) /\ Len(H!Page(s)) <= Len(s)
         /\ \A x \in DOMAIN H!Page(s) : x \in DOMAIN s /\ H!Page(s)[x] = s[x]
<1> DEFINE n == IF Len(s) < PageLimit THEN Len(s) ELSE PageLimit
<1>1. n \in Nat /\ n <= Len(s) /\ Len(s) \in Nat
  BY RelaysAssumption
<1>2. H!Page(s) = SubSeq(s, 1, n)
  BY DEF H!Page
<1> HIDE DEF n
<1> QED BY <1>1, <1>2

LEMMA AfterIs ==
  ASSUME NEW s \in Seq(RelayMsg), NEW i
  PROVE  \E k \in 0 .. Len(s) : /\ H!After(s, i) \in Seq(RelayMsg) /\ Len(H!After(s, i)) = Len(s) - k
                                /\ \A x \in 1 .. Len(s) - k : H!After(s, i)[x] = s[k + x]
                                /\ \/ k = 0 /\ \A j \in DOMAIN s : s[j].id # i
                                   \/ k > 0 /\ s[k].id = i
<1> DEFINE at == {j \in DOMAIN s : s[j].id = i}
<1>1. CASE at = {}
  <2>1. H!After(s, i) = s
    BY <1>1 DEF H!After
  <2> WITNESS 0 \in 0 .. Len(s)
  <2> QED BY <1>1, <2>1
<1>2. CASE at # {}
  <2> DEFINE k == CHOOSE j \in at : TRUE
  <2>1. k \in at
    BY <1>2
  <2>2. H!After(s, i) = SubSeq(s, k + 1, Len(s))
    BY <1>2 DEF H!After
  <2>3. k \in 1 .. Len(s) /\ s[k].id = i
    BY <2>1
  <2> HIDE DEF k
  <2>4. k \in 0 .. Len(s) /\ k > 0
    BY <2>3
  <2>5. /\ SubSeq(s, k + 1, Len(s)) \in Seq(RelayMsg) /\ Len(SubSeq(s, k + 1, Len(s))) = Len(s) - k
        /\ \A x \in 1 .. Len(s) - k : SubSeq(s, k + 1, Len(s))[x] = s[k + x]
    BY <2>3
  <2> QED BY <2>2, <2>3, <2>4, <2>5
<1> QED BY <1>1, <1>2

LEMMA CursorPolls ==
  ASSUME RelayTypes, NEW c \in Cursors, H!PollAfter(c)
  PROVE  PollsAfter(c)
<1> DEFINE s == kv[t1].msgs
           q == H!Page(H!After(s, last[c]))
<1>1. kv[t1] \in Session /\ s \in Seq(RelayMsg)
  BY RelaysAssumption DEF RelayTypes, Session, H!PollAfter
<1>2. /\ q # <<>> /\ got' = [got EXCEPT ![c] = @ \o q] /\ last' = [last EXCEPT ![c] = q[Len(q)].id]
      /\ UNCHANGED <<kv, rooms, req, now, since, requests, kept, raced, mixed, lapped>>
  BY DEF H!PollAfter, H!Give, H!store, H!history
<1>3. PICK k \in 0 .. Len(s) :
        /\ H!After(s, last[c]) \in Seq(RelayMsg) /\ Len(H!After(s, last[c])) = Len(s) - k
        /\ \A x \in 1 .. Len(s) - k : H!After(s, last[c])[x] = s[k + x]
        /\ \/ k = 0 /\ \A j \in DOMAIN s : s[j].id # last[c]
           \/ k > 0 /\ s[k].id = last[c]
  <2> HIDE DEF s
  <2> QED BY <1>1, AfterIs
<1> DEFINE a == H!After(s, last[c])
<1>4. /\ q \in Seq(RelayMsg) /\ Len(q) <= Len(a) /\ \A x \in DOMAIN q : x \in DOMAIN a /\ q[x] = a[x]
  <2> HIDE DEF s
  <2> QED BY <1>3, PageOf
<1> HIDE DEF q, a, s
<1>5. \A x \in DOMAIN q : q[x] = s[k + x]
  BY <1>1, <1>3, <1>4 DEF a
<1>6. k \in Nat /\ k + Len(q) <= Len(s)
  BY <1>1, <1>3, <1>4 DEF a
<1> QED BY <1>1, <1>2, <1>3, <1>4, <1>5, <1>6 DEF PollsAfter, PageGiven, s

(* The first messages that are newer than since, which becomes the time of  *)
(* the last of them.                                                        *)
PollsSince(g) ==
  \E q \in Seq(RelayMsg) :
    /\ PageGiven(g, q)
    /\ \A x \in DOMAIN q : \E i \in DOMAIN kv[t1].msgs : q[x] = kv[t1].msgs[i]
    /\ \A i \in DOMAIN kv[t1].msgs : kv[t1].msgs[i].ts > since[g] /\ kv[t1].msgs[i].ts < q[Len(q)].ts =>
         \E x \in DOMAIN q : q[x] = kv[t1].msgs[i]
    /\ since' = [since EXCEPT ![g] = q[Len(q)].ts]
    /\ UNCHANGED last

LEMMA SamePick == ASSUME NEW s, NEW T PROVE H!Pick(s, T) = Pick(s, T)
BY DEF H!Pick, Pick, H!PickedOf, PickedOf

LEMMA GuestPolls ==
  ASSUME RelayTypes, SessionsSound, NEW g \in Guests, H!PollSince(g)
  PROVE  PollsSince(g)
<1> DEFINE s == kv[t1].msgs
           T == {m \in Range(s) : m.ts > since[g]}
           a == Pick(s, T)
           q == H!Page(a)
           newest == CHOOSE k \in 1 .. MaxNow : /\ \E j \in DOMAIN q : q[j].ts = k
                                                /\ \A j \in DOMAIN q : q[j].ts <= k
<1>1. kv[t1] \in Session /\ s \in Seq(RelayMsg) /\ Current(kv[t1], t1)
  BY RelaysAssumption DEF RelayTypes, Session, H!PollSince, Current
<1>2. Sound(kv[t1]) /\ now \in 1 .. MaxNow
  BY <1>1, RelaysAssumption DEF SessionsSound, RelayTypes
<1>3. a = H!Newer(s, since[g])
  BY SamePick DEF H!Newer, H!Range, Range
<1>4. /\ q # <<>> /\ got' = [got EXCEPT ![g] = @ \o q] /\ since' = [since EXCEPT ![g] = newest]
      /\ UNCHANGED <<kv, rooms, req, now, last, requests, kept, raced, mixed, lapped>>
  BY <1>3 DEF H!PollSince, H!Give, H!store, H!history
<1> HIDE DEF newest
<1>5. a \in Seq(RelayMsg)
  <2>1. a \in Seq(RelayMsg \cap T)
    BY <1>1, PickType DEF a
  <2> HIDE DEF a
  <2> QED BY <2>1
<1>6. PICK f \in [1 .. Len(a) -> 1 .. Len(s)] :
        /\ \A k \in DOMAIN f : a[k] = s[f[k]] /\ s[f[k]] \in T
        /\ \A k, l \in DOMAIN f : k < l => f[k] < f[l]
        /\ \A i \in 1 .. Len(s) : s[i] \in T => \E k \in DOMAIN f : f[k] = i
  <2>1. s \in Seq(RelayMsg)
    BY <1>1
  <2> HIDE DEF s, T
  <2>2. PICK f : PickedFrom(s, T, f)
    BY <2>1, PickHasPlaces
  <2> QED BY <2>2 DEF PickedFrom
<1>7. \A i \in DOMAIN s : s[i].ts > since[g] => s[i] \in T
  BY DEF T, Range
<1> HIDE DEF a, T
<1>8. /\ q \in Seq(RelayMsg) /\ Len(q) <= Len(a) /\ \A x \in DOMAIN q : x \in DOMAIN a /\ q[x] = a[x]
  BY <1>5, PageOf
<1> HIDE DEF q
<1>9. Len(q) \in DOMAIN q /\ DOMAIN q = 1 .. Len(q) /\ DOMAIN a = 1 .. Len(a) /\ Len(a) \in Nat /\ Len(s) \in Nat
      /\ DOMAIN s = 1 .. Len(s)
  BY <1>1, <1>4, <1>5, <1>8
<1>10. \A x \in DOMAIN q : f[x] \in DOMAIN s /\ q[x] = s[f[x]] /\ x \in DOMAIN f
  BY <1>6, <1>8, <1>9
<1>11. \A i, j \in DOMAIN s : i < j => s[i].ts <= s[j].ts
  BY <1>2 DEF Sound
<1>12. \A i \in DOMAIN s : s[i].ts \in 1 .. now /\ s[i].ts \in 1 .. MaxNow
  <2>1. \A i \in DOMAIN s : s[i].ts \in 1 .. now
    BY <1>2 DEF Sound
  <2> QED BY <1>2, <2>1, RelaysAssumption
<1> HIDE DEF s
<1>13. \A x \in DOMAIN q : q[x].ts <= q[Len(q)].ts
  <2> SUFFICES ASSUME NEW x \in DOMAIN q PROVE q[x].ts <= q[Len(q)].ts
    OBVIOUS
  <2>1. CASE x = Len(q)
    BY <1>9, <1>10, <1>12, <2>1
  <2>2. CASE x # Len(q)
    <3>1. x < Len(q)
      BY <1>9, <2>2
    <3>2. f[x] < f[Len(q)]
      BY <1>6, <1>9, <1>10, <3>1
    <3> QED BY <1>9, <1>10, <1>11, <3>2
  <2> QED BY <2>1, <2>2
<1>14. newest = q[Len(q)].ts
  <2>1. q[Len(q)].ts \in 1 .. MaxNow
    BY <1>9, <1>10, <1>12
  <2>2. \A k \in 1 .. MaxNow : (/\ \E j \in DOMAIN q : q[j].ts = k
                                /\ \A j \in DOMAIN q : q[j].ts <= k) => k = q[Len(q)].ts
    BY <1>9, <1>10, <1>12, <1>13, RelaysAssumption
  <2> QED BY <1>9, <1>13, <2>1, <2>2 DEF newest
<1>15. ASSUME NEW i \in DOMAIN s, s[i].ts > since[g], s[i].ts < q[Len(q)].ts
       PROVE  \E x \in DOMAIN q : q[x] = s[i]
  <2>1. PICK k \in DOMAIN f : f[k] = i
    BY <1>6, <1>7, <1>9, <1>15
  <2>2. k \in DOMAIN q
    <3>1. k \in Nat /\ f[Len(q)] \in DOMAIN s /\ Len(q) \in DOMAIN f
      <4>1. DOMAIN f = 1 .. Len(a)
        BY <1>6
      <4> QED BY <1>9, <1>10, <4>1
    <3>2. ~(k > Len(q))
      <4> SUFFICES ASSUME k > Len(q) PROVE FALSE
        OBVIOUS
      <4>1. f[Len(q)] < i
        BY <1>6, <2>1, <3>1
      <4>2. s[f[Len(q)]].ts <= s[i].ts
        BY <1>9, <1>11, <3>1, <4>1
      <4> QED BY <1>9, <1>10, <1>12, <1>15, <3>1, <4>2
    <3> QED BY <1>6, <1>9, <3>1, <3>2
  <2> QED BY <1>10, <2>1, <2>2
<1> QED BY <1>1, <1>4, <1>8, <1>10, <1>14, <1>15 DEF PollsSince, PageGiven, s

RelayActs ==
  \/ \E r \in Slots, t \in Tokens : Comes(r, t) \/ Removes(r, t)
  \/ \E r \in Slots : PutsOld(r) \/ Stores(r) \/ Drops(r) \/ LoadsIndex(r) \/ Touches(r) \/ Unindexes(r)
  \/ \E t \in Tokens : Expires(t)
  \/ \E c \in Cursors : PollsAfter(c)
  \/ \E g \in Guests : PollsSince(g)
  \/ Ticks

LEMMA RelaySteps ==
  ASSUME RelayTypes, SessionsSound, H!Next
  PROVE  RelayActs
<1>1. ASSUME NEW r \in Slots, NEW t \in Tokens,
             H!New(r, t) \/ H!Join(r, t) \/ H!Delete(r, t) \/ \E i \in Ids : H!Send(r, t, i)
      PROVE  RelayActs
  BY <1>1, Arrives, Deletes DEF RelayActs
<1>2. ASSUME NEW r \in Slots, \/ H!PutNew(r) \/ H!PutMessage(r) \/ H!Dedup(r)
                              \/ H!LoadRooms(r) \/ H!TouchRoom(r) \/ H!RemoveRoom(r)
      PROVE  RelayActs
  BY <1>2, PutsNew, StoresMessage, Ends, Loads, TouchesRoom DEF RelayActs
<1>3. ASSUME NEW t \in Tokens, H!Expire(t) PROVE RelayActs
  BY <1>3, Ends DEF RelayActs
<1>4. ASSUME NEW c \in Cursors, H!PollAfter(c) PROVE RelayActs
  BY <1>4, CursorPolls DEF RelayActs
<1>5. ASSUME NEW g \in Guests, H!PollSince(g) PROVE RelayActs
  BY <1>5, GuestPolls DEF RelayActs
<1>6. CASE H!Tick
  BY <1>6, TimePasses DEF RelayActs
<1> QED BY <1>1, <1>2, <1>3, <1>4, <1>5, <1>6 DEF H!Next

-----------------------------------------------------------------------------
(* Types.                                                                   *)

LEMMA RequestsTyped ==
  ASSUME RelayTypes, NEW r \in Slots, NEW e \in RelayRequest, req' = [req EXCEPT ![r] = e],
         requests' \in Nat, requests <= requests', RequestOK(e, requests')
  PROVE  req' \in [Slots -> RelayRequest] /\ \A x \in Slots : RequestOK(req'[x], requests')
<1>1. req \in [Slots -> RelayRequest] /\ requests \in Nat /\ \A x \in Slots : RequestOK(req[x], requests)
  BY DEF RelayTypes
<1>2. \A x \in Slots : req[x].n \in Nat
  BY <1>1 DEF RelayRequest
<1>3. ASSUME NEW x \in Slots PROVE RequestOK(req'[x], requests')
  <2>1. CASE x = r
    BY <1>1, <2>1
  <2>2. CASE x # r
    <3>1. req'[x] = req[x]
      BY <1>1, <2>2
    <3>2. RequestOK(req[x], requests) /\ req[x].n \in Nat
      BY <1>1, <1>2
    <3>3. req[x].n <= requests'
      BY <1>1, <3>2 DEF RequestOK
    <3> QED BY <3>1, <3>2, <3>3 DEF RequestOK
  <2> QED BY <2>1, <2>2
<1> QED BY <1>1, <1>3

LEMMA StoreTyped ==
  ASSUME RelayTypes, NEW t \in Tokens,
         \/ UNCHANGED <<kv, kept>>
         \/ kv' = [kv EXCEPT ![t] = Nothing] /\ kept' = [kept EXCEPT ![t] = {}]
  PROVE  kv' \in [Tokens -> Session \cup {Nothing}] /\ kept' \in [Tokens -> SUBSET Nat]
BY DEF RelayTypes

LEMMA RelayTypesStep ==
  ASSUME RelayTypes, RelayActs
  PROVE  RelayTypes'
<1>t. /\ kv \in [Tokens -> Session \cup {Nothing}] /\ rooms \in [Tokens -> Nat]
      /\ req \in [Slots -> RelayRequest] /\ \A x \in Slots : RequestOK(req[x], requests)
      /\ now \in 1 .. MaxNow /\ requests \in Nat
      /\ since \in [Guests -> Nat] /\ last \in [Cursors -> Ids \cup Nat \cup {Nothing}]
      /\ got \in [Pollers -> Seq(RelayMsg)]
      /\ kept \in [Tokens -> SUBSET Nat] /\ mixed \in BOOLEAN
  BY DEF RelayTypes
<1>r. requests + 1 \in Nat /\ requests <= requests + 1 /\ requests <= requests
  BY <1>t
<1>1. ASSUME NEW r \in Slots, NEW t \in Tokens, Comes(r, t) PROVE RelayTypes'
  <2>1. PICK e \in RelayRequest :
       /\ req' = [req EXCEPT ![r] = e]
       /\ e.at = "loaded" /\ e.token = t /\ e.n = requests + 1 /\ e.copy = kv[t]
       /\ e.op \in {"new", "join", "send"} /\ (e.op # "new" => kv[t] # Nothing)
       /\ e.op = "join" => e.id = e.n
       /\ e.op = "send" => e.id \in Ids
    BY <1>1 DEF Comes
  <2>2. requests' = requests + 1 /\ UNCHANGED <<kv, rooms, now, since, last, got, kept, mixed>>
    BY <1>1 DEF Comes
  <2>3. RequestOK(e, requests')
    BY <1>r, <2>1, <2>2 DEF RequestOK
  <2>4. req' \in [Slots -> RelayRequest] /\ \A x \in Slots : RequestOK(req'[x], requests')
    BY <1>r, <2>1, <2>2, <2>3, RequestsTyped
  <2> QED BY <1>t, <1>r, <2>2, <2>4 DEF RelayTypes
<1>2. ASSUME NEW r \in Slots, NEW t \in Tokens, Removes(r, t) PROVE RelayTypes'
  <2>1. PICK e \in RelayRequest : req' = [req EXCEPT ![r] = e] /\ e.at = "remove" /\ e.token = t /\ e.n = 0
    BY <1>2 DEF Removes
  <2>2. /\ requests' = requests + 1 /\ UNCHANGED <<rooms, now, since, last, got, mixed>>
        /\ kv' = [kv EXCEPT ![t] = Nothing] /\ kept' = [kept EXCEPT ![t] = {}]
    BY <1>2 DEF Removes
  <2>3. RequestOK(e, requests')
    BY <1>r, <2>1, <2>2 DEF RequestOK
  <2>4. req' \in [Slots -> RelayRequest] /\ \A x \in Slots : RequestOK(req'[x], requests')
    BY <1>r, <2>1, <2>2, <2>3, RequestsTyped
  <2>5. kv' \in [Tokens -> Session \cup {Nothing}] /\ kept' \in [Tokens -> SUBSET Nat]
    BY <2>2, StoreTyped
  <2> QED BY <1>t, <1>r, <2>2, <2>4, <2>5 DEF RelayTypes
<1>p. ASSUME NEW r \in Slots, NEW s \in Session, Puts(r, s)
      PROVE  /\ kv' \in [Tokens -> Session \cup {Nothing}] /\ req[r].token \in Tokens
             /\ req' \in [Slots -> RelayRequest] /\ \A x \in Slots : RequestOK(req'[x], requests')
             /\ UNCHANGED <<rooms, now, since, last, got, requests, mixed>>
  <2>1. PICK e \in RelayRequest : /\ req' = [req EXCEPT ![r] = e]
                                  /\ e.at = "touch" /\ e.token = req[r].token /\ e.n = req[r].n
    BY <1>p DEF Puts
  <2>2. /\ req[r].token \in Tokens /\ kv' = [kv EXCEPT ![req[r].token] = s]
        /\ UNCHANGED <<rooms, now, since, last, got, requests, mixed>>
    BY <1>p, <1>t DEF Puts, RequestOK
  <2>3. RequestOK(e, requests')
    BY <1>t, <2>1, <2>2 DEF RequestOK
  <2>4. req' \in [Slots -> RelayRequest] /\ \A x \in Slots : RequestOK(req'[x], requests')
    BY <1>t, <1>r, <2>1, <2>2, <2>3, RequestsTyped
  <2>5. kv' \in [Tokens -> Session \cup {Nothing}]
    BY <1>t, <2>2
  <2> QED BY <2>2, <2>4, <2>5
<1>3. ASSUME NEW r \in Slots, PutsOld(r) PROVE RelayTypes'
  <2>1. (IF req[r].copy = Nothing THEN H!Empty ELSE req[r].copy) \in Session
    BY <1>t, EmptySession DEF RelayRequest
  <2> QED BY <1>t, <1>3, <1>p, <2>1 DEF PutsOld, RelayTypes
<1>4. ASSUME NEW r \in Slots, Stores(r) PROVE RelayTypes'
  <2>1. H!Push(req[r].copy, Message(r)) \in Session
    BY <1>4 DEF Stores, Puts
  <2>2. kept' \in [Tokens -> SUBSET Nat]
    <3>1. req[r].n \in Nat
      BY <1>t DEF RelayRequest
    <3> QED BY <1>t, <1>4, <3>1 DEF Stores
  <2> QED BY <1>t, <1>4, <1>p, <2>1, <2>2 DEF Stores, RelayTypes
<1>f. ASSUME NEW r \in Slots, Frees(r), requests' = requests
      PROVE  req' \in [Slots -> RelayRequest] /\ \A x \in Slots : RequestOK(req'[x], requests')
  <2>1. PICK e \in RelayRequest : req' = [req EXCEPT ![r] = e] /\ e.at = "idle" /\ e.n = 0
    BY <1>f DEF Frees
  <2>2. RequestOK(e, requests')
    BY <1>t, <1>f, <2>1 DEF RequestOK
  <2> QED BY <1>t, <1>r, <1>f, <2>1, <2>2, RequestsTyped
<1>5. ASSUME NEW r \in Slots, Drops(r) PROVE RelayTypes'
  BY <1>t, <1>5, <1>f DEF Drops, RelayTypes
<1>6. ASSUME NEW r \in Slots, LoadsIndex(r) PROVE RelayTypes'
  <2>1. PICK e \in RelayRequest : /\ req' = [req EXCEPT ![r] = e]
                                  /\ e.at = (IF req[r].at = "touch" THEN "index" ELSE "unindex")
                                  /\ e.token = req[r].token /\ e.n = req[r].n /\ e.index = rooms
    BY <1>6 DEF LoadsIndex
  <2>2. /\ req[r].at \in {"touch", "remove"} /\ mixed' \in BOOLEAN
        /\ UNCHANGED <<kv, rooms, now, since, last, got, requests, kept>>
    BY <1>6 DEF LoadsIndex
  <2>3. RequestOK(e, requests')
    BY <1>t, <2>1, <2>2 DEF RequestOK
  <2>4. req' \in [Slots -> RelayRequest] /\ \A x \in Slots : RequestOK(req'[x], requests')
    BY <1>t, <1>r, <2>1, <2>2, <2>3, RequestsTyped
  <2> QED BY <1>t, <2>2, <2>4 DEF RelayTypes
<1>i. ASSUME NEW r \in Slots, NEW t \in Tokens, NEW n \in Nat
      PROVE  [req[r].index EXCEPT ![t] = n] \in [Tokens -> Nat]
  BY <1>t DEF RelayRequest
<1>7. ASSUME NEW r \in Slots, Touches(r) PROVE RelayTypes'
  <2>1. /\ req' \in [Slots -> RelayRequest] /\ \A x \in Slots : RequestOK(req'[x], requests')
        /\ UNCHANGED <<now, since, last, got, requests, mixed>> /\ req[r].token \in Tokens /\ now \in Nat
    BY <1>t, <1>7, <1>f DEF Touches, RequestOK
  <2>2. CASE rooms' = [req[r].index EXCEPT ![req[r].token] = now] /\ UNCHANGED <<kv, kept>>
    BY <1>t, <1>i, <2>1, <2>2 DEF RelayTypes
  <2>3. ASSUME NEW k \in Tokens,
               rooms' = [[req[r].index EXCEPT ![req[r].token] = now] EXCEPT ![k] = 0],
               kv' = [kv EXCEPT ![k] = Nothing] /\ kept' = [kept EXCEPT ![k] = {}]
        PROVE  RelayTypes'
    <3>1. rooms' \in [Tokens -> Nat]
      BY <1>i, <2>1, <2>3
    <3>2. kv' \in [Tokens -> Session \cup {Nothing}] /\ kept' \in [Tokens -> SUBSET Nat]
      BY <2>3, StoreTyped
    <3> QED BY <1>t, <2>1, <3>1, <3>2 DEF RelayTypes
  <2> QED BY <1>7, <2>2, <2>3 DEF Touches
<1>8. ASSUME NEW r \in Slots, Unindexes(r) PROVE RelayTypes'
  <2>1. req[r].token \in Tokens
    BY <1>t, <1>8 DEF Unindexes, RequestOK
  <2>2. rooms' \in [Tokens -> Nat]
    BY <1>i, <1>8, <2>1 DEF Unindexes
  <2> QED BY <1>t, <1>8, <1>f, <2>2 DEF Unindexes, RelayTypes
<1>9. ASSUME NEW t \in Tokens, Expires(t) PROVE RelayTypes'
  <2>1. /\ requests' = requests + 1 /\ UNCHANGED <<rooms, req, now, since, last, got, mixed>>
        /\ kv' = [kv EXCEPT ![t] = Nothing] /\ kept' = [kept EXCEPT ![t] = {}]
    BY <1>9 DEF Expires
  <2>2. kv' \in [Tokens -> Session \cup {Nothing}] /\ kept' \in [Tokens -> SUBSET Nat]
    BY <2>1, StoreTyped
  <2>3. \A x \in Slots : req[x].n \in Nat
    BY <1>t DEF RelayRequest
  <2>4. \A x \in Slots : RequestOK(req[x], requests + 1)
    BY <1>t, <2>3 DEF RequestOK
  <2> QED BY <1>t, <1>r, <2>1, <2>2, <2>4 DEF RelayTypes
<1>g. ASSUME NEW c \in Pollers, NEW q \in Seq(RelayMsg), PageGiven(c, q)
      PROVE  /\ got' \in [Pollers -> Seq(RelayMsg)] /\ q[Len(q)] \in RelayMsg
             /\ UNCHANGED <<kv, rooms, req, now, requests, kept, mixed>>
  <2>1. got[c] \o q \in Seq(RelayMsg) /\ q[Len(q)] \in RelayMsg
    BY <1>t, <1>g DEF PageGiven
  <2> QED BY <1>t, <1>g, <2>1 DEF PageGiven
<1>10. ASSUME NEW c \in Cursors, PollsAfter(c) PROVE RelayTypes'
  <2>1. PICK q \in Seq(RelayMsg) : PageGiven(c, q) /\ last' = [last EXCEPT ![c] = q[Len(q)].id] /\ UNCHANGED since
    BY <1>10 DEF PollsAfter
  <2>2. c \in Pollers
    BY DEF Pollers
  <2>3. last' \in [Cursors -> Ids \cup Nat \cup {Nothing}]
    BY <1>t, <1>g, <2>1, <2>2 DEF RelayMsg
  <2> QED BY <1>t, <1>g, <2>1, <2>2, <2>3 DEF RelayTypes
<1>11. ASSUME NEW g \in Guests, PollsSince(g) PROVE RelayTypes'
  <2>1. PICK q \in Seq(RelayMsg) : PageGiven(g, q) /\ since' = [since EXCEPT ![g] = q[Len(q)].ts] /\ UNCHANGED last
    BY <1>11 DEF PollsSince
  <2>2. g \in Pollers
    BY DEF Pollers
  <2>3. since' \in [Guests -> Nat]
    BY <1>t, <1>g, <2>1, <2>2 DEF RelayMsg
  <2> QED BY <1>t, <1>g, <2>1, <2>2, <2>3 DEF RelayTypes
<1>12. CASE Ticks
  BY <1>t, <1>12 DEF Ticks, RelayTypes
<1> QED BY <1>1, <1>2, <1>3, <1>4, <1>5, <1>6, <1>7, <1>8, <1>9, <1>10, <1>11, <1>12 DEF RelayActs

-----------------------------------------------------------------------------
(* Steps that change no session but in that it begins or ends.              *)

LEMMA OtherSlots ==
  ASSUME RelayTypes, NEW r \in Slots, NEW e, req' = [req EXCEPT ![r] = e]
  PROVE  req'[r] = e /\ \A x \in Slots : x # r => req'[x] = req[x]
BY DEF RelayTypes

(* What is found then was there before, or is an empty session; requests    *)
(* that come find what is stored and have a later number.                   *)
Goes ==
  /\ UNCHANGED <<since, last, got, lapped>>
  /\ now <= now' /\ requests <= requests' /\ raced \subseteq raced'
  /\ \A t \in Tokens :
       /\ \A s \in Session : Current(s, t)' => Current(s, t) \/ (s = H!Empty /\ (t \notin raced => kept'[t] = {}))
       /\ kept'[t] \subseteq kept[t] /\ (kv'[t] = Nothing => kept'[t] = {})
       /\ \A r \in Slots : Loaded(r, t)' => \/ Loaded(r, t) /\ req'[r] = req[r]
                                            \/ requests < req'[r].n /\ req'[r].copy = kv[t]

LEMMA SoundStays ==
  ASSUME NEW s \in Session, Sound(s), now \in Nat, now' \in Nat, requests \in Nat, requests' \in Nat,
         now <= now', requests <= requests'
  PROVE  Sound(s)'
<1>1. s.msgs \in Seq(RelayMsg)
  BY DEF Session
<1>2. \A i \in DOMAIN s.msgs : s.msgs[i] \in RelayMsg
  BY <1>1
<1>3. \A i \in DOMAIN s.msgs : s.msgs[i].ts \in Nat /\ s.msgs[i].n \in Nat
  BY <1>2 DEF RelayMsg
<1>4. \A i \in DOMAIN s.msgs : s.msgs[i].ts \in 1 .. now' /\ s.msgs[i].n <= requests'
  BY <1>3 DEF Sound
<1> QED BY <1>4 DEF Sound

LEMMA EmptySound == Sound(H!Empty)
BY DEF Sound, H!Empty

LEMMA RequestGoesOn ==
  ASSUME RelayInv, RelayTypes', Goes
  PROVE  SessionsSound' /\ KeptThere' /\ CursorsFollow' /\ GuestsFollow'
<1>t. /\ now \in Nat /\ now' \in Nat /\ requests \in Nat /\ requests' \in Nat /\ now <= now' /\ requests <= requests'
      /\ kv \in [Tokens -> Session \cup {Nothing}] /\ req \in [Slots -> RelayRequest]
      /\ req' \in [Slots -> RelayRequest]
  BY RelaysAssumption DEF RelayInv, RelayTypes, Goes
<1>1. ASSUME NEW t \in Tokens, NEW s \in Session, Current(s, t)' PROVE Sound(s)'
  <2>1. Sound(s)
    BY <1>1, EmptySound DEF Goes, RelayInv, SessionsSound
  <2> QED BY <1>t, <2>1, SoundStays
<1>2. ASSUME NEW r \in Slots, req'[r].at = "loaded", req'[r].copy # Nothing PROVE Later(r)'
  <2>1. \E t \in Tokens : Loaded(r, t)'
    BY <1>2 DEF RelayTypes, RequestOK, Loaded
  <2> SUFFICES ASSUME NEW t \in Tokens, Loaded(r, t)' PROVE Later(r)'
    BY <2>1
  <2>2. CASE Loaded(r, t) /\ req'[r] = req[r]
    BY <1>2, <2>2 DEF Loaded, RelayInv, SessionsSound, Later
  <2>3. CASE requests < req'[r].n /\ req'[r].copy = kv[t]
    <3>1. kv[t] \in Session /\ Current(kv[t], t)
      BY <1>2, <1>t, <2>1, <2>3 DEF Current
    <3>2. Sound(kv[t]) /\ kv[t].msgs \in Seq(RelayMsg) /\ req'[r].n \in Nat
      BY <1>t, <2>1, <3>1 DEF RelayInv, SessionsSound, Session, RelayRequest
    <3>3. \A i \in DOMAIN kv[t].msgs : kv[t].msgs[i] \in RelayMsg
      BY <3>2
    <3>4. \A i \in DOMAIN kv[t].msgs : kv[t].msgs[i].n < req'[r].n
      BY <1>t, <2>3, <3>2, <3>3 DEF Sound, RelayMsg
    <3> QED BY <2>3, <3>4 DEF Later
  <2> QED BY <2>1, <2>2, <2>3 DEF Goes
<1>3. KeptThere'
  <2> SUFFICES ASSUME NEW t \in Tokens
               PROVE  /\ kv'[t] = Nothing => kept'[t] = {}
                      /\ t \notin raced' => \A s \in Session : Current(s, t)' => /\ kept'[t] \subseteq H!Numbers(s.msgs)
                                                                                 /\ NumbersIncrease(s.msgs)
    BY DEF KeptThere, NumbersIncrease, H!Numbers
  <2>1. ASSUME NEW s \in Session, Current(s, t)', t \notin raced'
        PROVE  kept'[t] \subseteq H!Numbers(s.msgs) /\ NumbersIncrease(s.msgs)
    <3>1. t \notin raced
      BY <2>1 DEF Goes
    <3>2. CASE Current(s, t)
      BY <3>1, <3>2 DEF Goes, RelayInv, KeptThere
    <3>3. CASE s = H!Empty /\ kept'[t] = {}
      BY <3>3 DEF H!Empty, NumbersIncrease
    <3> QED BY <2>1, <3>1, <3>2, <3>3 DEF Goes
  <2> QED BY <2>1 DEF Goes
<1>4. CursorsFollow'
  <2> SUFFICES ASSUME NEW c \in Cursors, t1 \notin raced', c \notin lapped'
               PROVE  CursorAt(c)'
    BY DEF CursorsFollow
  <2>1. CursorAt(c) /\ UNCHANGED <<got, last>> /\ got[c] \in Seq(RelayMsg)
    BY DEF Goes, RelayInv, CursorsFollow, RelayTypes, Pollers
  <2>2. \A i \in DOMAIN got[c] : got[c][i] \in RelayMsg
    BY <2>1
  <2>3. \A i \in DOMAIN got[c] : got[c][i].n \in Nat /\ got[c][i].n <= requests
    BY <2>1, <2>2 DEF RelayMsg, CursorAt
  <2>4. ASSUME NEW i \in DOMAIN got[c]
        PROVE  got[c][i].n <= requests' /\ \A r \in Slots : Loaded(r, t1)' => got[c][i].n < req'[r].n
    <3>1. ASSUME NEW r \in Slots, Loaded(r, t1)' PROVE got[c][i].n < req'[r].n
      <4>1. CASE Loaded(r, t1) /\ req'[r] = req[r]
        BY <2>1, <4>1 DEF CursorAt
      <4>2. CASE requests < req'[r].n
        <5>1. req'[r].n \in Nat
          BY <1>t DEF RelayRequest
        <5> QED BY <1>t, <2>3, <4>2, <5>1
      <4> QED BY <3>1, <4>1, <4>2, RelaysAssumption DEF Goes
    <3> QED BY <1>t, <2>3, <3>1
  <2>5. ASSUME NEW s \in Session, Current(s, t1)' PROVE GivenUpTo(c, s)'
    <3>1. CASE Current(s, t1)
      BY <2>1, <3>1 DEF CursorAt, GivenUpTo
    <3>2. CASE s = H!Empty
      BY <3>2 DEF H!Empty, GivenUpTo
    <3> QED BY <2>5, <3>1, <3>2, RelaysAssumption DEF Goes
  <2> QED BY <2>1, <2>4, <2>5 DEF CursorAt, NumbersIncrease
<1>5. GuestsFollow'
  <2> SUFFICES ASSUME NEW g \in Guests, t1 \notin raced'
               PROVE  GuestAt(g)'
    BY DEF GuestsFollow
  <2>1. GuestAt(g) /\ UNCHANGED <<got, since>> /\ since[g] \in Nat
    BY DEF Goes, RelayInv, GuestsFollow, RelayTypes
  <2>2. ASSUME NEW s \in Session, Current(s, t1)'
        PROVE  \A i \in DOMAIN s.msgs : s.msgs[i].ts <= since[g] => \E k \in DOMAIN got[g] : got[g][k].ts = s.msgs[i].ts
    <3>1. CASE Current(s, t1)
      BY <2>1, <3>1 DEF GuestAt
    <3>2. CASE s = H!Empty
      BY <3>2 DEF H!Empty
    <3> QED BY <2>2, <3>1, <3>2, RelaysAssumption DEF Goes
  <2> QED BY <1>t, <2>1, <2>2 DEF GuestAt
<1> QED BY <1>1, <1>2, <1>3, <1>4, <1>5 DEF SessionsSound

(* The first: sessions end, requests come or go on to the index.            *)
EndsOrStays == \A t \in Tokens : \/ kv'[t] = kv[t] /\ kept'[t] = kept[t]
                                 \/ kv'[t] = Nothing /\ kept'[t] = {}
LoadedSame == \A r \in Slots, t \in Tokens : Loaded(r, t)' => \/ Loaded(r, t) /\ req'[r] = req[r]
                                                              \/ requests < req'[r].n /\ req'[r].copy = kv[t]

LEMMA EndsGo ==
  ASSUME RelayInv, EndsOrStays, LoadedSame, UNCHANGED <<since, last, got, lapped>>,
         now <= now', requests <= requests', raced \subseteq raced'
  PROVE  Goes
<1>1. ASSUME NEW t \in Tokens, NEW s \in Session, Current(s, t)' PROVE Current(s, t)
  <2>1. s # Nothing
    BY NothingIsNoSession
  <2>2. CASE s = kv'[t]
    BY <2>1, <2>2 DEF EndsOrStays, Current
  <2>3. ASSUME NEW r \in Slots, Loaded(r, t)', s = req'[r].copy PROVE Current(s, t)
    BY <2>1, <2>3 DEF LoadedSame, Current
  <2> QED BY <1>1, <2>2, <2>3 DEF Current
<1>2. ASSUME NEW t \in Tokens PROVE kept'[t] \subseteq kept[t] /\ (kv'[t] = Nothing => kept'[t] = {})
  BY DEF EndsOrStays, RelayInv, KeptThere
<1> QED BY <1>1, <1>2 DEF Goes, LoadedSame

LEMMA SessionEnds ==
  ASSUME RelayTypes, NEW t \in Tokens, kv' = [kv EXCEPT ![t] = Nothing], kept' = [kept EXCEPT ![t] = {}]
  PROVE  EndsOrStays
BY DEF RelayTypes, EndsOrStays

LEMMA SlotOnly ==
  ASSUME RelayTypes, NEW r \in Slots, NEW e, req' = [req EXCEPT ![r] = e], e.at # "loaded"
  PROVE  LoadedSame
<1> SUFFICES ASSUME NEW x \in Slots, NEW t \in Tokens, Loaded(x, t)'
             PROVE  Loaded(x, t) /\ req'[x] = req[x]
  BY DEF LoadedSame
<1>1. x # r
  BY OtherSlots DEF Loaded
<1> QED BY <1>1, OtherSlots DEF Loaded

LEMMA QuietGoes ==
  ASSUME RelayInv,
         \/ \E r \in Slots, t \in Tokens : Comes(r, t) \/ Removes(r, t)
         \/ \E r \in Slots : Drops(r) \/ LoadsIndex(r) \/ Touches(r) \/ Unindexes(r)
         \/ \E t \in Tokens : Expires(t)
         \/ Ticks
  PROVE  Goes /\ EndsOrStays /\ LoadedSame
<1>t. RelayTypes /\ requests \in Nat /\ requests <= requests + 1 /\ requests <= requests /\ now \in Nat /\ now <= now
  BY RelaysAssumption DEF RelayInv, RelayTypes
<1>1. ASSUME NEW r \in Slots, NEW t \in Tokens, Comes(r, t) PROVE Goes /\ EndsOrStays /\ LoadedSame
  <2>1. PICK e \in RelayRequest : /\ req' = [req EXCEPT ![r] = e] /\ e.at = "loaded" /\ e.token = t
                                  /\ e.n = requests + 1 /\ e.copy = kv[t]
    BY <1>1 DEF Comes
  <2>2. ASSUME NEW x \in Slots, NEW u \in Tokens, Loaded(x, u)'
        PROVE  \/ Loaded(x, u) /\ req'[x] = req[x]
               \/ requests < req'[x].n /\ req'[x].copy = kv[u]
    <3>1. CASE x = r
      BY <1>t, <2>1, <2>2, <3>1, OtherSlots DEF Loaded
    <3>2. CASE x # r
      BY <1>t, <2>1, <2>2, <3>2, OtherSlots DEF Loaded
    <3> QED BY <3>1, <3>2
  <2>3. EndsOrStays
    BY <1>1 DEF Comes, EndsOrStays
  <2>4. LoadedSame
    BY <2>2 DEF LoadedSame
  <2>5. raced \subseteq raced'
    BY <1>1 DEF Comes
  <2> QED BY <1>t, <1>1, <2>3, <2>4, <2>5, EndsGo DEF Comes
<1>2. ASSUME NEW r \in Slots, NEW t \in Tokens, Removes(r, t) PROVE Goes /\ EndsOrStays /\ LoadedSame
  <2>1. PICK e \in RelayRequest : req' = [req EXCEPT ![r] = e] /\ e.at = "remove"
    BY <1>2 DEF Removes
  <2>2. EndsOrStays /\ LoadedSame
    BY <1>t, <1>2, <2>1, SlotOnly, SessionEnds DEF Removes
  <2>3. raced \subseteq raced'
    BY <1>2 DEF Removes
  <2> QED BY <1>t, <1>2, <2>2, <2>3, EndsGo DEF Removes
<1>f. ASSUME NEW r \in Slots, Frees(r) PROVE LoadedSame
  BY <1>t, <1>f, SlotOnly DEF Frees
<1>3. ASSUME NEW r \in Slots, Drops(r) \/ Unindexes(r) PROVE Goes /\ EndsOrStays /\ LoadedSame
  <2>1. LoadedSame /\ UNCHANGED <<kv, kept, now, since, last, got, requests, raced, lapped>>
    BY <1>3, <1>f DEF Drops, Unindexes
  <2>2. EndsOrStays
    BY <2>1 DEF EndsOrStays
  <2> QED BY <1>t, <2>1, <2>2, EndsGo
<1>4. ASSUME NEW r \in Slots, LoadsIndex(r) PROVE Goes /\ EndsOrStays /\ LoadedSame
  <2>1. LoadedSame
    BY <1>t, <1>4, SlotOnly DEF LoadsIndex
  <2>2. EndsOrStays
    BY <1>4 DEF LoadsIndex, EndsOrStays
  <2> QED BY <1>t, <1>4, <2>1, <2>2, EndsGo DEF LoadsIndex
<1>5. ASSUME NEW r \in Slots, Touches(r) PROVE Goes /\ EndsOrStays /\ LoadedSame
  <2>1. LoadedSame
    BY <1>5, <1>f DEF Touches
  <2>2. EndsOrStays
    <3>1. CASE UNCHANGED <<kv, kept>>
      BY <3>1 DEF EndsOrStays
    <3> QED BY <1>t, <1>5, <3>1, SessionEnds DEF Touches
  <2> QED BY <1>t, <1>5, <2>1, <2>2, EndsGo DEF Touches
<1>6. ASSUME NEW t \in Tokens, Expires(t) PROVE Goes /\ EndsOrStays /\ LoadedSame
  <2>1. EndsOrStays
    BY <1>t, <1>6, SessionEnds DEF Expires
  <2>2. LoadedSame
    BY <1>6 DEF Expires, LoadedSame, Loaded
  <2> QED BY <1>t, <1>6, <2>1, <2>2, EndsGo DEF Expires
<1>7. ASSUME Ticks PROVE Goes /\ EndsOrStays /\ LoadedSame
  <2>1. EndsOrStays /\ LoadedSame
    BY <1>7 DEF Ticks, EndsOrStays, LoadedSame, Loaded
  <2> QED BY <1>t, <1>7, <2>1, EndsGo DEF Ticks
<1> QED BY <1>1, <1>2, <1>3, <1>4, <1>5, <1>6, <1>7

LEMMA FoundStays ==
  ASSUME RelayInv, EndsOrStays, LoadedSame, raced \subseteq raced'
  PROVE  FoundIsThere'
<1> SUFFICES ASSUME NEW t \in Tokens, t \notin raced', NEW r \in Slots, Loaded(r, t)'
             PROVE  kv'[t] \in {Nothing, req'[r].copy}
  BY DEF FoundIsThere
<1>1. CASE Loaded(r, t) /\ req'[r] = req[r]
  BY <1>1 DEF EndsOrStays, RelayInv, FoundIsThere
<1>2. CASE req'[r].copy = kv[t]
  BY <1>2 DEF EndsOrStays
<1> QED BY <1>1, <1>2 DEF LoadedSame

(* The last: PutNew, which puts back what there was.                        *)
LEMMA PutsOldGoes ==
  ASSUME RelayInv, NEW r \in Slots, PutsOld(r)
  PROVE  Goes /\ FoundIsThere'
<1> DEFINE s0 == IF req[r].copy = Nothing THEN H!Empty ELSE req[r].copy
           v == req[r].token
<1>t. /\ RelayTypes /\ v \in Tokens /\ requests \in Nat /\ now \in Nat /\ s0 \in Session
      /\ Loaded(r, v) /\ Busy(r, v)
      /\ UNCHANGED <<rooms, now, since, last, got, requests, raced, mixed, kept, lapped>>
  BY RelaysAssumption DEF RelayInv, RelayTypes, RequestOK, PutsOld, Puts, Loaded, Busy
<1>1. PICK e \in RelayRequest : req' = [req EXCEPT ![r] = e] /\ e.at = "touch"
  BY DEF PutsOld, Puts
<1>2. LoadedSame
  BY <1>t, <1>1, SlotOnly
<1>3. kv'[v] = s0 /\ \A t \in Tokens : t # v => kv'[t] = kv[t]
  BY <1>t DEF PutsOld, Puts, RelayTypes
<1>4. \A x \in Slots, t \in Tokens : Loaded(x, t)' => x # r /\ Loaded(x, t) /\ req'[x] = req[x]
  BY <1>t, <1>1, OtherSlots DEF Loaded
<1>5. v \notin raced => (s0 = req[r].copy \/ kept[v] = {})
  BY <1>t DEF RelayInv, FoundIsThere, KeptThere
<1>6. s0 = req[r].copy => Current(s0, v)
  BY <1>t, NothingIsNoSession DEF Current
<1>7. s0 = req[r].copy \/ s0 = H!Empty
  OBVIOUS
<1>n. s0 # Nothing
  BY <1>t, NothingIsNoSession
<1> HIDE DEF s0, v
<1>8. ASSUME NEW t \in Tokens, NEW s \in Session, Current(s, t)'
      PROVE  Current(s, t) \/ (s = H!Empty /\ (t \notin raced => kept'[t] = {}))
  <2>1. CASE s = kv'[t] /\ t = v
    BY <1>t, <1>3, <1>5, <1>6, <1>7, <2>1
  <2>2. CASE s = kv'[t] /\ t # v
    BY <1>3, <2>2, NothingIsNoSession DEF Current
  <2>3. ASSUME NEW x \in Slots, Loaded(x, t)', s = req'[x].copy PROVE Current(s, t)
    BY <1>4, <2>3, NothingIsNoSession DEF Current
  <2> QED BY <1>8, <2>1, <2>2, <2>3 DEF Current
<1>9. ASSUME NEW t \in Tokens PROVE kept'[t] \subseteq kept[t] /\ (kv'[t] = Nothing => kept'[t] = {})
  BY <1>t, <1>3, <1>n DEF RelayInv, KeptThere
<1>10. Goes
  BY <1>t, <1>2, <1>8, <1>9 DEF Goes, LoadedSame
<1>11. ASSUME NEW t \in Tokens, t \notin raced', NEW x \in Slots, Loaded(x, t)'
       PROVE  kv'[t] \in {Nothing, req'[x].copy}
  <2>1. x # r /\ Loaded(x, t) /\ req'[x] = req[x] /\ Busy(x, t)
    BY <1>4, <1>11 DEF Loaded, Busy
  <2>2. t # v
    BY <1>t, <1>11, <2>1 DEF RelayInv, OneAtATime
  <2> QED BY <1>3, <1>t, <1>11, <2>1, <2>2 DEF RelayInv, FoundIsThere
<1> QED BY <1>10, <1>11 DEF FoundIsThere

-----------------------------------------------------------------------------
(* A message is stored.                                                     *)

(* The message is behind those that were there, but for the first of a full *)
(* session.                                                                 *)
LEMMA BehindTheRest ==
  ASSUME NEW q \in Seq(RelayMsg), NEW m \in RelayMsg
  PROVE  LET p == IF Len(q) = MsgLimit THEN Append(Tail(q), m) ELSE Append(q, m)
             d == IF Len(q) = MsgLimit THEN 1 ELSE 0
         IN /\ d \in {0, 1} /\ p \in Seq(RelayMsg) /\ Len(p) = Len(q) + 1 - d /\ Len(q) \in Nat /\ d <= Len(q)
            /\ p[Len(p)] = m /\ Len(p) \in DOMAIN p
            /\ \A i \in 1 .. Len(p) - 1 : i + d \in DOMAIN q /\ p[i] = q[i + d]
            /\ d = 0 => H!Cut(q) = {}
            /\ d = 1 => H!Cut(q) = {q[1].n}
<1>1. CASE Len(q) = MsgLimit
  <2>1. Len(q) \in Nat /\ Len(q) > 0 /\ q # <<>>
    BY <1>1, RelaysAssumption
  <2>2. Tail(q) \in Seq(RelayMsg) /\ Len(Tail(q)) = Len(q) - 1 /\ \A i \in 1 .. Len(q) - 1 : Tail(q)[i] = q[i + 1]
    BY <2>1
  <2> DEFINE p == Append(Tail(q), m)
  <2>3. p \in Seq(RelayMsg) /\ Len(p) = Len(q) /\ p[Len(q)] = m /\ \A i \in 1 .. Len(q) - 1 : p[i] = Tail(q)[i]
    BY <2>1, <2>2
  <2> HIDE DEF p
  <2>4. H!Cut(q) = {q[1].n}
    BY <1>1 DEF H!Cut
  <2>5. \A i \in 1 .. Len(q) - 1 : i + 1 \in DOMAIN q /\ p[i] = q[i + 1]
    BY <2>1, <2>2, <2>3
  <2>6. Len(q) \in DOMAIN p
    BY <2>1, <2>3
  <2> QED BY <1>1, <2>1, <2>3, <2>4, <2>5, <2>6 DEF p
<1>2. CASE Len(q) # MsgLimit
  <2> DEFINE p == Append(q, m)
  <2>1. /\ p \in Seq(RelayMsg) /\ Len(p) = Len(q) + 1 /\ p[Len(q) + 1] = m /\ Len(q) \in Nat
        /\ \A i \in 1 .. Len(q) : p[i] = q[i]
    OBVIOUS
  <2> HIDE DEF p
  <2>2. H!Cut(q) = {}
    BY <1>2 DEF H!Cut
  <2>3. \A i \in 1 .. Len(p) - 1 : i + 0 \in DOMAIN q /\ p[i] = q[i + 0]
    BY <2>1
  <2>4. Len(p) \in DOMAIN p
    BY <2>1
  <2> QED BY <1>2, <2>1, <2>2, <2>3, <2>4 DEF p
<1> QED BY <1>1, <1>2

(* What r is about to store, in terms of the copy it has.                   *)
Stored(r, p, d) ==
  LET q == req[r].copy.msgs
      m == Message(r)
      s == H!Push(req[r].copy, m)
  IN /\ s \in Session /\ p = s.msgs /\ s.seq = m.seq /\ q \in Seq(RelayMsg) /\ p \in Seq(RelayMsg)
     /\ d \in {0, 1} /\ Len(p) = Len(q) + 1 - d /\ Len(q) \in Nat /\ d <= Len(q)
     /\ p[Len(p)] = m /\ Len(p) \in DOMAIN p
     /\ \A i \in 1 .. Len(p) - 1 : i + d \in DOMAIN q /\ p[i] = q[i + d]
     /\ d = 0 => H!Cut(q) = {}
     /\ d = 1 => H!Cut(q) = {q[1].n}

LEMMA StoresAs ==
  ASSUME NEW r \in Slots, Stores(r)
  PROVE  \E p \in Seq(RelayMsg), d \in {0, 1} : Stored(r, p, d)
<1> DEFINE q == req[r].copy.msgs
           m == Message(r)
           p == IF Len(q) = MsgLimit THEN Append(Tail(q), m) ELSE Append(q, m)
           d == IF Len(q) = MsgLimit THEN 1 ELSE 0
<1>1. req[r].copy \in Session /\ m \in RelayMsg /\ q \in Seq(RelayMsg)
  BY DEF Stores, Session
<1>2. H!Push(req[r].copy, m) \in Session /\ H!Push(req[r].copy, m).msgs = p /\ H!Push(req[r].copy, m).seq = m.seq
  <2> HIDE DEF m
  <2> QED BY <1>1, Pushed
<1>3. /\ d \in {0, 1} /\ p \in Seq(RelayMsg) /\ Len(p) = Len(q) + 1 - d /\ Len(q) \in Nat /\ d <= Len(q)
      /\ p[Len(p)] = m /\ Len(p) \in DOMAIN p
      /\ \A i \in 1 .. Len(p) - 1 : i + d \in DOMAIN q /\ p[i] = q[i + d]
      /\ d = 0 => H!Cut(q) = {}
      /\ d = 1 => H!Cut(q) = {q[1].n}
  <2> HIDE DEF q, m
  <2> QED BY <1>1, BehindTheRest
<1> HIDE DEF p, d
<1>4. Stored(r, p, d)
  BY <1>1, <1>2, <1>3 DEF Stored
<1> QED BY <1>3, <1>4

LEMMA StoredSound ==
  ASSUME RelayInv, NEW r \in Slots, Stores(r), NEW p \in Seq(RelayMsg), NEW d \in {0, 1}, Stored(r, p, d)
  PROVE  Sound(H!Push(req[r].copy, Message(r)))
<1> DEFINE c == req[r].copy
           q == c.msgs
           m == Message(r)
           s == H!Push(c, m)
<1>1. /\ m.id = req[r].id /\ m.seq = c.seq + 1 /\ m.ts = now /\ m.n = req[r].n
      /\ c \in Session /\ c.seq \in Nat /\ q \in Seq(RelayMsg)
  BY DEF Message, Stores, Session
<1>2. Sound(c) /\ Later(r)
  <2>1. c # Nothing /\ Current(c, req[r].token) /\ req[r].token \in Tokens /\ req[r].at = "loaded"
    BY <1>1, NothingIsNoSession DEF Stores, Puts, Current, Loaded
  <2> QED BY <1>1, <2>1 DEF RelayInv, SessionsSound
<1>3. /\ req[r].n \in Nat /\ req[r].n <= requests /\ requests \in Nat /\ now \in Nat \ {0}
      /\ (req[r].op = "join" => req[r].id = req[r].n) /\ (req[r].op = "send" => req[r].id \in Ids)
      /\ req[r].op \in {"join", "send"}
  BY RelaysAssumption DEF RelayInv, RelayTypes, RequestOK, RelayRequest, Stores, Puts
<1>4. /\ p = s.msgs /\ s.seq = c.seq + 1 /\ Len(p) = Len(q) + 1 - d /\ Len(q) \in Nat /\ d <= Len(q)
      /\ p[Len(p)] = m /\ Len(p) \in DOMAIN p
      /\ \A i \in 1 .. Len(p) - 1 : i + d \in DOMAIN q /\ p[i] = q[i + d]
  BY <1>1 DEF Stored
<1>5. \A i \in DOMAIN q : q[i].id \in Ids \cup Nat /\ q[i].seq \in Nat /\ q[i].ts \in Nat /\ q[i].n \in Nat
  <2>1. \A i \in DOMAIN q : q[i] \in RelayMsg
    BY <1>1
  <2> QED BY <2>1 DEF RelayMsg
<1>6. \A i \in DOMAIN q : /\ q[i].seq <= c.seq /\ q[i].ts \in 1 .. now /\ q[i].n <= requests /\ q[i].n < req[r].n
                          /\ (q[i].id \in Ids \/ q[i].id = q[i].n)
  BY <1>2 DEF Sound, Later
<1>7. \A i \in DOMAIN q : q[i].id # m.id
  BY <1>1, <1>3, <1>5, <1>6, RelaysAssumption DEF Stores
<1>8. \A i, j \in DOMAIN q : i < j => q[i].seq < q[j].seq /\ q[i].ts <= q[j].ts
  BY <1>2 DEF Sound
<1>9. \A i, j \in DOMAIN q : q[i].id = q[j].id => i = j
  BY <1>2 DEF Sound
<1> DEFINE l == Len(p)
<1>10. DOMAIN p = 1 .. l /\ l \in Nat /\ d \in Nat /\ DOMAIN q = 1 .. Len(q) /\ p[l] = m
  <2>1. p[l] = m
    BY <1>4
  <2>2. DOMAIN p = 1 .. l /\ l \in Nat
    OBVIOUS
  <2> QED BY <1>1, <2>1, <2>2
<1>r. \A i \in 1 .. l - 1 : i + d \in DOMAIN q /\ p[i] = q[i + d]
  BY <1>4
<1>n. requests \in Nat /\ now \in Nat /\ now >= 1 /\ c.seq \in Nat
  BY <1>1, <1>3
<1> HIDE DEF c, q, m, s, l
<1>11. \A i \in DOMAIN p : i = l \/ i \in 1 .. l - 1
  BY <1>10
<1>12. ASSUME NEW i \in DOMAIN p, NEW j \in DOMAIN p, p[i].id = p[j].id
       PROVE  i = j
  <2>1. i \in Int /\ j \in Int
    BY <1>10
  <2>2. CASE i = l /\ j \in 1 .. l - 1
    BY <1>7, <1>10, <1>12, <1>r, <2>2
  <2>3. CASE j = l /\ i \in 1 .. l - 1
    BY <1>7, <1>10, <1>12, <1>r, <2>3
  <2>4. CASE i \in 1 .. l - 1 /\ j \in 1 .. l - 1
    <3>1. i + d = j + d
      BY <1>9, <1>12, <1>r, <2>4
    <3> QED BY <1>10, <2>1, <3>1
  <2> QED BY <1>11, <2>2, <2>3, <2>4
<1>13. ASSUME NEW i \in DOMAIN p, NEW j \in DOMAIN p, i < j
       PROVE  p[i].seq < p[j].seq /\ p[i].ts <= p[j].ts
  <2>1. i \in 1 .. l - 1
    BY <1>10, <1>13
  <2>4. i + d \in DOMAIN q /\ p[i] = q[i + d]
    BY <1>r, <2>1
  <2>2. CASE j = l
    BY <1>1, <1>5, <1>6, <1>10, <1>n, <2>4, <2>2
  <2>3. CASE j \in 1 .. l - 1
    <3>1. j + d \in DOMAIN q /\ p[j] = q[j + d]
      BY <1>r, <2>3
    <3>2. i + d < j + d
      BY <1>10, <1>13, <2>1, <2>3
    <3> QED BY <1>8, <2>4, <3>1, <3>2
  <2> QED BY <1>11, <2>2, <2>3
<1>14. ASSUME NEW i \in DOMAIN p
       PROVE  /\ p[i].seq <= c.seq + 1 /\ p[i].ts \in 1 .. now /\ p[i].n <= requests
              /\ (p[i].id \in Ids \/ p[i].id = p[i].n)
  <2>1. CASE i = l
    BY <1>1, <1>3, <1>10, <1>n, <2>1
  <2>2. CASE i \in 1 .. l - 1
    <3>1. i + d \in DOMAIN q /\ p[i] = q[i + d]
      BY <1>r, <2>2
    <3> QED BY <1>5, <1>6, <1>n, <3>1
  <2> QED BY <1>11, <2>1, <2>2
<1> QED BY <1>4, <1>12, <1>13, <1>14 DEF Sound, c, m, s

(* Where the message is found then.                                         *)
LEMMA StoredWhere ==
  ASSUME RelayInv, NEW r \in Slots, Stores(r)
  PROVE  LET v == req[r].token
             s1 == H!Push(req[r].copy, Message(r))
         IN /\ v \in Tokens /\ s1 \in Session /\ Current(req[r].copy, v) /\ Loaded(r, v)
            /\ kv'[v] = s1 /\ \A t \in Tokens : t # v => kv'[t] = kv[t]
            /\ \A x \in Slots, t \in Tokens : Loaded(x, t)' => Loaded(x, t) /\ req'[x] = req[x] /\ (t = v => v \in raced)
            /\ \A s \in Session, t \in Tokens : Current(s, t)' => \/ t = v /\ s = s1
                                                                  \/ Current(s, t) /\ (t = v => v \in raced)
<1> DEFINE v == req[r].token
           s1 == H!Push(req[r].copy, Message(r))
<1>1. /\ RelayTypes /\ v \in Tokens /\ s1 \in Session /\ req[r].at = "loaded" /\ req[r].copy \in Session
      /\ kv' = [kv EXCEPT ![v] = s1]
  BY DEF RelayInv, Stores, Puts
<1>2. PICK e \in RelayRequest : req' = [req EXCEPT ![r] = e] /\ e.at = "touch"
  BY DEF Stores, Puts
<1>3. Loaded(r, v) /\ Busy(r, v) /\ Current(req[r].copy, v)
  BY <1>1, NothingIsNoSession DEF Loaded, Busy, Current
<1>4. kv'[v] = s1 /\ \A t \in Tokens : t # v => kv'[t] = kv[t]
  BY <1>1 DEF RelayTypes
<1> HIDE DEF v, s1
<1>5. ASSUME NEW x \in Slots, NEW t \in Tokens, Loaded(x, t)'
      PROVE  Loaded(x, t) /\ req'[x] = req[x] /\ (t = v => v \in raced)
  <2>1. x # r
    BY <1>1, <1>2, <1>5, OtherSlots DEF Loaded
  <2>2. Loaded(x, t) /\ req'[x] = req[x] /\ Busy(x, t)
    BY <1>1, <1>2, <1>5, <2>1, OtherSlots DEF Loaded, Busy
  <2> QED BY <1>1, <1>3, <2>1, <2>2 DEF RelayInv, OneAtATime
<1>6. ASSUME NEW s \in Session, NEW t \in Tokens, Current(s, t)'
      PROVE  \/ t = v /\ s = s1
             \/ Current(s, t) /\ (t = v => v \in raced)
  <2>1. CASE s = kv'[t]
    BY <1>4, <2>1, NothingIsNoSession DEF Current
  <2>2. ASSUME NEW x \in Slots, Loaded(x, t)', s = req'[x].copy
        PROVE  Current(s, t) /\ (t = v => v \in raced)
    BY <1>5, <2>2, NothingIsNoSession DEF Current
  <2> QED BY <1>6, <2>1, <2>2 DEF Current
<1> QED BY <1>1, <1>3, <1>4, <1>5, <1>6 DEF v, s1

LEMMA StoresSound ==
  ASSUME RelayInv, NEW r \in Slots, Stores(r), RelayTypes'
  PROVE  SessionsSound' /\ FoundIsThere'
<1> DEFINE v == req[r].token
           s1 == H!Push(req[r].copy, Message(r))
<1>1. /\ v \in Tokens /\ s1 \in Session
      /\ kv'[v] = s1 /\ \A t \in Tokens : t # v => kv'[t] = kv[t]
      /\ \A x \in Slots, t \in Tokens : Loaded(x, t)' => Loaded(x, t) /\ req'[x] = req[x] /\ (t = v => v \in raced)
      /\ \A s \in Session, t \in Tokens : Current(s, t)' => (t = v /\ s = s1) \/ Current(s, t)
  BY StoredWhere
<1>2. /\ now \in Nat /\ requests \in Nat /\ now' = now /\ requests' = requests /\ raced' = raced
  BY RelaysAssumption DEF RelayInv, RelayTypes, Stores, Puts
<1>3. Sound(s1)
  <2>1. PICK p \in Seq(RelayMsg), d \in {0, 1} : Stored(r, p, d)
    BY StoresAs
  <2> QED BY <2>1, StoredSound
<1> HIDE DEF v, s1
<1>4. ASSUME NEW t \in Tokens, NEW s \in Session, Current(s, t)' PROVE Sound(s)'
  <2>1. Sound(s)
    BY <1>1, <1>3, <1>4 DEF RelayInv, SessionsSound
  <2> QED BY <1>2, <2>1 DEF Sound
<1>5. ASSUME NEW x \in Slots, req'[x].at = "loaded", req'[x].copy # Nothing PROVE Later(x)'
  <2>1. PICK t \in Tokens : Loaded(x, t)'
    BY <1>5 DEF RelayTypes, RequestOK, Loaded
  <2>2. req'[x] = req[x]
    BY <1>1, <2>1
  <2> QED BY <1>5, <2>2 DEF RelayInv, SessionsSound, Later
<1>6. ASSUME NEW t \in Tokens, t \notin raced', NEW x \in Slots, Loaded(x, t)' PROVE kv'[t] \in {Nothing, req'[x].copy}
  BY <1>1, <1>2, <1>6 DEF RelayInv, FoundIsThere
<1> QED BY <1>4, <1>5, <1>6 DEF SessionsSound, FoundIsThere

LEMMA StoresKeeps ==
  ASSUME RelayInv, NEW r \in Slots, Stores(r), RelayTypes'
  PROVE  KeptThere'
<1> DEFINE v == req[r].token
           s1 == H!Push(req[r].copy, Message(r))
<1>1. /\ v \in Tokens /\ s1 \in Session /\ Current(req[r].copy, v) /\ Loaded(r, v) /\ req[r].copy \in Session
      /\ kv'[v] = s1 /\ \A t \in Tokens : t # v => kv'[t] = kv[t]
      /\ \A s \in Session, t \in Tokens : Current(s, t)' => \/ t = v /\ s = s1
                                                            \/ Current(s, t) /\ (t = v => v \in raced)
  BY StoredWhere DEF Stores
<1>2. raced' = raced /\ kept' = [kept EXCEPT ![v] = (@ \cup {req[r].n}) \ H!Cut(req[r].copy.msgs)]
  BY DEF Stores, Puts
<1>3. kept'[v] = (kept[v] \cup {req[r].n}) \ H!Cut(req[r].copy.msgs) /\ \A t \in Tokens : t # v => kept'[t] = kept[t]
  BY <1>1, <1>2 DEF RelayInv, RelayTypes
<1>4. ASSUME v \notin raced PROVE kept'[v] \subseteq H!Numbers(s1.msgs) /\ NumbersIncrease(s1.msgs)
  <2>1. PICK p \in Seq(RelayMsg), d \in {0, 1} : Stored(r, p, d)
    BY StoresAs
  <2> DEFINE q == req[r].copy.msgs
             m == Message(r)
             l == Len(p)
  <2>2. kept[v] \subseteq H!Numbers(q) /\ NumbersIncrease(q)
    BY <1>1, <1>4 DEF RelayInv, KeptThere
  <2>3. /\ p = s1.msgs /\ q \in Seq(RelayMsg) /\ Len(q) \in Nat /\ l = Len(q) + 1 - d /\ d <= Len(q) /\ d \in Nat
        /\ DOMAIN p = 1 .. l /\ l \in Nat /\ l >= 1
        /\ d = 0 => H!Cut(q) = {}
        /\ d = 1 => H!Cut(q) = {q[1].n}
    BY <2>1 DEF Stored
  <2>4. p[l] = m /\ \A i \in 1 .. l - 1 : i + d \in DOMAIN q /\ p[i] = q[i + d]
    BY <2>1 DEF Stored
  <2>5. m.n = req[r].n
    BY DEF Message
  <2>6. Later(r)
    BY <1>1 DEF RelayInv, SessionsSound, Loaded, Current
  <2>7. \A i \in DOMAIN q : q[i].n < m.n
    BY <2>5, <2>6 DEF Later
  <2>8. DOMAIN q = 1 .. Len(q)
    BY <2>3
  <2> HIDE DEF q, m, l
  <2>9. NumbersIncrease(p)
    <3> SUFFICES ASSUME NEW i \in DOMAIN p, NEW j \in DOMAIN p, i < j PROVE p[i].n < p[j].n
      BY DEF NumbersIncrease
    <3>1. i \in 1 .. l - 1 /\ (j = l \/ j \in 1 .. l - 1)
      BY <2>3
    <3>2. i + d \in DOMAIN q /\ p[i] = q[i + d]
      BY <2>4, <3>1
    <3>3. CASE j = l
      BY <2>4, <2>7, <3>2, <3>3
    <3>4. CASE j \in 1 .. l - 1
      <4>1. j + d \in DOMAIN q /\ p[j] = q[j + d]
        BY <2>4, <3>4
      <4>2. i + d < j + d
        BY <2>3, <3>1, <3>4
      <4> QED BY <2>2, <3>2, <4>1, <4>2 DEF NumbersIncrease
    <3> QED BY <3>1, <3>3, <3>4
  <2>10. ASSUME NEW n \in kept'[v] PROVE \E i \in DOMAIN p : n = p[i].n
    <3>1. CASE n = req[r].n
      <4>1. l \in DOMAIN p
        BY <2>3
      <4> QED BY <2>4, <2>5, <3>1, <4>1
    <3>2. CASE n \in kept[v]
      <4>1. PICK i \in DOMAIN q : n = q[i].n
        BY <2>2, <3>2 DEF H!Numbers
      <4>2. ~(d = 1 /\ i = 1)
        BY <1>3, <2>3, <2>10, <4>1 DEF q
      <4>3. i - d \in 1 .. l - 1 /\ (i - d) + d = i
        BY <2>3, <2>8, <4>2
      <4>4. p[i - d] = q[i]
        BY <2>4, <4>3
      <4> QED BY <2>3, <4>1, <4>3, <4>4
    <3> QED BY <1>3, <2>10, <3>1, <3>2
  <2> QED BY <2>3, <2>9, <2>10 DEF H!Numbers
<1>5. s1 # Nothing
  BY <1>1, NothingIsNoSession
<1> HIDE DEF s1, v
<1>6. ASSUME NEW t \in Tokens, kv'[t] = Nothing PROVE kept'[t] = {}
  BY <1>1, <1>3, <1>5, <1>6 DEF RelayInv, KeptThere
<1>7. ASSUME NEW t \in Tokens, t \notin raced', NEW s \in Session, Current(s, t)'
      PROVE  kept'[t] \subseteq H!Numbers(s.msgs) /\ NumbersIncrease(s.msgs)
  <2>1. CASE t = v
    BY <1>1, <1>2, <1>4, <1>7, <2>1
  <2>2. CASE t # v
    BY <1>1, <1>2, <1>3, <1>7, <2>2 DEF RelayInv, KeptThere
  <2> QED BY <2>1, <2>2
<1> QED BY <1>6, <1>7 DEF KeptThere, H!Numbers, NumbersIncrease

LEMMA StoresFollow ==
  ASSUME RelayInv, NEW r \in Slots, Stores(r), RelayTypes'
  PROVE  CursorsFollow' /\ GuestsFollow'
<1> DEFINE v == req[r].token
           s1 == H!Push(req[r].copy, Message(r))
           q == req[r].copy.msgs
           m == Message(r)
<1>1. /\ v \in Tokens /\ s1 \in Session /\ Current(req[r].copy, v) /\ Loaded(r, v) /\ req[r].copy \in Session
      /\ \A x \in Slots, t \in Tokens : Loaded(x, t)' => Loaded(x, t) /\ req'[x] = req[x] /\ (t = v => v \in raced)
      /\ \A s \in Session, t \in Tokens : Current(s, t)' => \/ t = v /\ s = s1
                                                            \/ Current(s, t) /\ (t = v => v \in raced)
  BY StoredWhere DEF Stores
<1>2. /\ UNCHANGED <<raced, now, since, last, got, requests>> /\ lapped \subseteq lapped'
      /\ \A c \in Cursors : t1 = v /\ last[c] = m.id => c \in lapped'
      /\ m.n = req[r].n /\ m.ts = now
  BY DEF Stores, Puts, Message
<1>3. PICK p \in Seq(RelayMsg), d \in {0, 1} : Stored(r, p, d)
  BY StoresAs
<1> DEFINE l == Len(p)
<1>4. /\ p = s1.msgs /\ q \in Seq(RelayMsg) /\ Len(q) \in Nat /\ l = Len(q) + 1 - d /\ d <= Len(q) /\ d \in Nat
      /\ DOMAIN p = 1 .. l /\ l \in Nat /\ l >= 1
  BY <1>3 DEF Stored
<1>5. p[l] = m /\ \A i \in 1 .. l - 1 : i + d \in DOMAIN q /\ p[i] = q[i + d]
  BY <1>3 DEF Stored
<1>6. DOMAIN q = 1 .. Len(q)
  BY <1>4
<1>7. \A i \in DOMAIN q : q[i].n \in Nat /\ q[i].ts \in Nat
  <2>1. \A i \in DOMAIN q : q[i] \in RelayMsg
    BY <1>4
  <2> QED BY <2>1 DEF RelayMsg
<1>8. t1 = v /\ v \notin raced => NumbersIncrease(q)
  BY <1>1 DEF RelayInv, KeptThere
<1>9. req[r].n \in Nat /\ now \in Nat \ {0}
  BY RelaysAssumption DEF RelayInv, RelayTypes, RelayRequest
<1>10. ASSUME NEW c \in Cursors, t1 \notin raced', c \notin lapped' PROVE CursorAt(c)'
  <2>1. CursorAt(c) /\ got'[c] = got[c] /\ last'[c] = last[c] /\ got[c] \in Seq(RelayMsg)
    BY <1>2, <1>10 DEF RelayInv, CursorsFollow, RelayTypes, Pollers
  <2>2. ASSUME t1 = v PROVE GivenUpTo(c, s1)
    <3>1. m.id # last[c] /\ \A i \in DOMAIN got[c] : got[c][i].n < m.n
      BY <1>1, <1>2, <1>10, <2>1, <2>2 DEF CursorAt
    <3>2. GivenUpTo(c, req[r].copy)
      BY <1>1, <2>1, <2>2 DEF CursorAt
    <3>3. ASSUME NEW j \in DOMAIN p, p[j].id = last[c]
          PROVE  /\ got[c] # <<>> /\ p[j] = got[c][Len(got[c])]
                 /\ \A i \in 1 .. j : \E k \in DOMAIN got[c] : got[c][k] = p[i]
      <4> HIDE DEF l, m, q
      <4>1. j \in 1 .. l - 1
        <5>1. j # l
          BY <1>5, <3>1, <3>3
        <5> QED BY <1>4, <5>1
      <4>2. j + d \in DOMAIN q /\ q[j + d] = p[j]
        BY <1>5, <4>1
      <4>3. /\ got[c] # <<>> /\ q[j + d] = got[c][Len(got[c])]
            /\ \A i \in 1 .. j + d : \E k \in DOMAIN got[c] : got[c][k] = q[i]
        BY <3>2, <3>3, <4>2 DEF GivenUpTo, q
      <4>4. \A i \in 1 .. j : i + d \in 1 .. j + d /\ p[i] = q[i + d]
        <5>1. \A i \in 1 .. j : i + d \in 1 .. j + d /\ i \in 1 .. l - 1
          BY <1>4, <4>1
        <5> QED BY <1>5, <5>1
      <4> QED BY <4>2, <4>3, <4>4
    <3>4. ASSUME got[c] # <<>>, NEW i \in DOMAIN p, p[i].n <= got[c][Len(got[c])].n
          PROVE  \E j \in DOMAIN p : p[j] = got[c][Len(got[c])]
      <4> DEFINE z == got[c][Len(got[c])]
      <4>1. Len(got[c]) \in DOMAIN got[c] /\ z \in RelayMsg
        BY <2>1, <3>4
      <4>2. z.n < m.n /\ z.n \in Nat /\ m.n \in Nat
        BY <1>2, <1>9, <3>1, <4>1 DEF RelayMsg
      <4> HIDE DEF z, l, q, m
      <4>3. i # l
        BY <1>5, <3>4, <4>2 DEF z
      <4>4. i \in 1 .. l - 1 /\ i + d \in DOMAIN q /\ p[i] = q[i + d]
        BY <1>4, <1>5, <4>3
      <4>5. PICK j \in DOMAIN q : q[j] = z
        BY <3>2, <3>4, <4>4 DEF GivenUpTo, z, q
      <4>6. ~(d = 1 /\ j = 1)
        <5> SUFFICES ASSUME d = 1, j = 1 PROVE FALSE
          OBVIOUS
        <5>1. j < i + d /\ i + d \in DOMAIN q
          BY <1>4, <4>4
        <5>2. NumbersIncrease(q)
          BY <1>2, <1>8, <1>10, <2>2
        <5>3. q[j].n < q[i + d].n
          BY <5>1, <5>2 DEF NumbersIncrease
        <5> QED BY <1>7, <3>4, <4>2, <4>4, <4>5, <5>3 DEF z
      <4>7. j - d \in 1 .. l - 1 /\ (j - d) + d = j
        BY <1>4, <1>6, <4>6
      <4>8. p[j - d] = q[j] /\ j - d \in DOMAIN p
        BY <1>4, <1>5, <4>7
      <4> QED BY <4>5, <4>8 DEF z
    <3> QED BY <1>4, <3>3, <3>4 DEF GivenUpTo
  <2>3. ASSUME NEW s \in Session, Current(s, t1)' PROVE GivenUpTo(c, s)
    <3>1. t1 \in Tokens
      BY RelaysAssumption
    <3> HIDE DEF s1, v, q, m
    <3> QED BY <1>1, <2>1, <2>2, <2>3, <3>1 DEF CursorAt
  <2>4. \A s \in Session : Current(s, t1)' => GivenUpTo(c, s)'
    BY <2>1, <2>3 DEF GivenUpTo
  <2>5. \A i \in DOMAIN got[c], x \in Slots : Loaded(x, t1)' => got[c][i].n < req'[x].n
    BY <1>1, <2>1, RelaysAssumption DEF CursorAt
  <2> QED BY <1>2, <2>1, <2>4, <2>5 DEF CursorAt, NumbersIncrease
<1>11. ASSUME NEW g \in Guests, t1 \notin raced' PROVE GuestAt(g)'
  <2>1. GuestAt(g) /\ got'[g] = got[g] /\ since'[g] = since[g] /\ since[g] \in Nat
    BY <1>2, <1>11 DEF RelayInv, GuestsFollow, RelayTypes
  <2>2. ASSUME t1 = v, NEW i \in DOMAIN p, p[i].ts <= since[g]
        PROVE  \E k \in DOMAIN got[g] : got[g][k].ts = p[i].ts
    <3>1. CASE i = l
      <4>1. since[g] = now
        BY <1>2, <1>5, <1>9, <2>1, <2>2, <3>1 DEF GuestAt
      <4> HIDE DEF l, m
      <4> QED BY <1>2, <1>5, <1>9, <2>1, <3>1, <4>1 DEF GuestAt
    <3>2. CASE i # l
      <4> HIDE DEF l, m, q
      <4>1. i \in 1 .. l - 1
        BY <1>4, <3>2
      <4>2. i + d \in DOMAIN q /\ p[i] = q[i + d]
        BY <1>5, <4>1
      <4> QED BY <1>1, <2>1, <2>2, <4>2 DEF GuestAt, q
    <3> QED BY <3>1, <3>2
  <2>3. ASSUME NEW s \in Session, Current(s, t1)'
        PROVE  \A i \in DOMAIN s.msgs : s.msgs[i].ts <= since[g] => \E k \in DOMAIN got[g] : got[g][k].ts = s.msgs[i].ts
    <3>1. t1 \in Tokens
      BY RelaysAssumption
    <3>2. t1 = v => \A i \in DOMAIN s1.msgs : s1.msgs[i].ts <= since[g] => \E k \in DOMAIN got[g] : got[g][k].ts = s1.msgs[i].ts
      BY <1>4, <2>2
    <3> HIDE DEF s1, v, q, m
    <3> QED BY <1>1, <2>1, <2>3, <3>1, <3>2 DEF GuestAt
  <2> QED BY <1>2, <2>1, <2>3 DEF GuestAt
<1> QED BY <1>10, <1>11 DEF CursorsFollow, GuestsFollow

-----------------------------------------------------------------------------
(* Polls.                                                                   *)

LEMMA PollChangesNothing ==
  ASSUME RelayInv, NEW c \in Pollers, NEW q \in Seq(RelayMsg), PageGiven(c, q)
  PROVE  /\ SessionsSound' /\ FoundIsThere' /\ KeptThere' /\ OneAtATime' /\ IndexHeld'
         /\ \A t \in Tokens : \A s \in Session : Current(s, t)' = Current(s, t)
         /\ \A r \in Slots : Loaded(r, t1)' = Loaded(r, t1)
         /\ UNCHANGED <<req, now, requests, raced, lapped>>
<1>1. UNCHANGED <<kv, rooms, req, now, requests, kept, raced, mixed, lapped>>
  BY DEF PageGiven
<1>2. SessionsSound'
  BY <1>1 DEF RelayInv, SessionsSound, Current, Loaded, Sound, Later
<1>3. FoundIsThere' /\ OneAtATime'
  BY <1>1 DEF RelayInv, FoundIsThere, OneAtATime, Loaded, Busy
<1>4. KeptThere'
  BY <1>1 DEF RelayInv, KeptThere, Current, Loaded, NumbersIncrease, H!Numbers
<1>5. IndexHeld'
  BY <1>1 DEF RelayInv, IndexHeld, AtIndex
<1> QED BY <1>1, <1>2, <1>3, <1>4, <1>5 DEF Current, Loaded

(* The one session of a token.                                              *)
LEMMA OneSession ==
  ASSUME RelayInv, t1 \notin raced, kv[t1] \in Session, NEW s \in Session
  PROVE  Current(s, t1) <=> s = kv[t1]
<1>1. t1 \in Tokens /\ kv[t1] # Nothing
  BY RelaysAssumption, NothingIsNoSession
<1> QED BY <1>1 DEF Current, RelayInv, FoundIsThere

LEMMA CursorStep ==
  ASSUME RelayInv, NEW c \in Cursors, PollsAfter(c)
  PROVE  CursorsFollow' /\ GuestsFollow'
<1> DEFINE s == kv[t1].msgs
<1>1. PICK q \in Seq(RelayMsg), k \in Nat :
        /\ PageGiven(c, q) /\ k + Len(q) <= Len(s)
        /\ \A x \in DOMAIN q : q[x] = s[k + x]
        /\ \/ k = 0 /\ \A j \in DOMAIN s : s[j].id # last[c]
           \/ k > 0 /\ s[k].id = last[c]
        /\ last' = [last EXCEPT ![c] = q[Len(q)].id]
        /\ UNCHANGED since
  BY DEF PollsAfter
<1> DEFINE o == got[c]
           l == Len(q)
           n == Len(o)
<1>2. /\ \A x \in Session : Current(x, t1)' = Current(x, t1)
      /\ \A r \in Slots : Loaded(r, t1)' = Loaded(r, t1)
      /\ UNCHANGED <<req, now, requests, raced, lapped>> /\ c \in Pollers /\ kv[t1] \in Session /\ q # <<>>
  BY <1>1, PollChangesNothing, RelaysAssumption DEF Pollers, PageGiven
<1>3. /\ got'[c] = o \o q /\ last'[c] = q[l].id
      /\ \A d \in Cursors : d # c => got'[d] = got[d] /\ last'[d] = last[d]
      /\ \A g \in Guests : got'[g] = got[g]
      /\ o \in Seq(RelayMsg) /\ s \in Seq(RelayMsg)
  <2>1. got \in [Pollers -> Seq(RelayMsg)] /\ last \in [Cursors -> Ids \cup Nat \cup {Nothing}]
    BY DEF RelayInv, RelayTypes
  <2>2. \A g \in Guests : g # c /\ g \in Pollers
    BY RelaysAssumption DEF Pollers
  <2>3. got' = [got EXCEPT ![c] = @ \o q]
    BY <1>1 DEF PageGiven
  <2>4. \A d \in Cursors : d \in Pollers
    BY DEF Pollers
  <2> QED BY <1>1, <1>2, <2>1, <2>2, <2>3, <2>4 DEF Session
<1>4. /\ l \in Nat /\ l >= 1 /\ DOMAIN q = 1 .. l /\ n \in Nat /\ DOMAIN o = 1 .. n
      /\ DOMAIN s = 1 .. Len(s) /\ Len(s) \in Nat /\ k + l <= Len(s)
  BY <1>1, <1>2, <1>3
<1> DEFINE p == o \o q
<1>5. /\ p \in Seq(RelayMsg) /\ Len(p) = n + l /\ DOMAIN p = 1 .. n + l
      /\ \A i \in 1 .. n : p[i] = o[i]
      /\ \A i \in n + 1 .. n + l : i - n \in 1 .. l /\ p[i] = q[i - n]
      /\ \A x \in 1 .. l : n + x \in DOMAIN p /\ p[n + x] = q[x]
  BY <1>3
<1>6. /\ \A i \in DOMAIN s : s[i].n \in Nat /\ s[i].ts \in Nat
      /\ \A i \in DOMAIN o : o[i].n \in Nat
  <2>1. \A i \in DOMAIN s : s[i] \in RelayMsg
    BY <1>3
  <2>2. \A i \in DOMAIN o : o[i] \in RelayMsg
    BY <1>3
  <2> QED BY <2>1, <2>2 DEF RelayMsg
<1>7. Sound(kv[t1]) /\ (t1 \notin raced => NumbersIncrease(s))
  <2>1. Current(kv[t1], t1) /\ t1 \in Tokens
    BY <1>2, NothingIsNoSession, RelaysAssumption DEF Current
  <2> QED BY <1>2, <2>1 DEF RelayInv, SessionsSound, KeptThere
<1>8. \A x \in 1 .. l : k + x \in DOMAIN s /\ q[x] = s[k + x]
  BY <1>1, <1>4
<1>9. ASSUME t1 \notin raced', c \notin lapped' PROVE CursorAt(c)'
  <2>1. CursorAt(c) /\ t1 \notin raced
    BY <1>2, <1>9 DEF RelayInv, CursorsFollow
  <2>2. GivenUpTo(c, kv[t1]) /\ NumbersIncrease(s)
    BY <1>2, <1>7, <2>1, OneSession DEF CursorAt
  <2>3. NumbersIncrease(o) /\ last[c] = (IF o = <<>> THEN Nothing ELSE o[n].id) /\ \A i \in DOMAIN o : o[i].n <= requests
    BY <2>1 DEF CursorAt
  <2>4. o # <<>> => \A x \in 1 .. l : o[n].n < s[k + x].n
    <3> SUFFICES ASSUME o # <<>>, NEW x \in 1 .. l PROVE o[n].n < s[k + x].n
      OBVIOUS
    <3>1. n \in DOMAIN o
      BY <1>3
    <3>2. CASE k = 0 /\ \A j \in DOMAIN s : s[j].id # last[c]
      <4>1. \A j \in DOMAIN s : s[j] # o[n]
        BY <2>3, <3>2
      <4>2. k + x \in DOMAIN s
        BY <1>8
      <4>3. ~(s[k + x].n <= o[n].n)
        BY <2>2, <4>1, <4>2 DEF GivenUpTo
      <4> HIDE DEF s, o, n
      <4> QED BY <1>6, <3>1, <4>2, <4>3
    <3>3. CASE k > 0 /\ s[k].id = last[c]
      <4> HIDE DEF l, n
      <4>1. k \in DOMAIN s /\ k + x \in DOMAIN s /\ k < k + x
        BY <1>4, <1>8, <3>3
      <4>2. s[k] = o[n]
        BY <2>2, <3>3, <4>1 DEF GivenUpTo, n
      <4> QED BY <2>2, <4>1, <4>2 DEF NumbersIncrease
    <3> QED BY <1>1, <3>2, <3>3
  <2> HIDE DEF s, o, l, n, p
  <2>5. NumbersIncrease(p)
    <3> SUFFICES ASSUME NEW i \in DOMAIN p, NEW j \in DOMAIN p, i < j PROVE p[i].n < p[j].n
      BY DEF NumbersIncrease
    <3>1. CASE j \in 1 .. n
      <4>1. i \in DOMAIN o /\ j \in DOMAIN o
        BY <1>4, <1>5, <3>1
      <4> QED BY <1>4, <1>5, <2>3, <4>1 DEF NumbersIncrease
    <3>2. CASE j \in n + 1 .. n + l /\ i \in 1 .. n
      <4> DEFINE x == j - n
      <4>1. x \in 1 .. l /\ p[j] = s[k + x] /\ k + x \in DOMAIN s
        BY <1>5, <1>8, <3>2
      <4>2. p[i] = o[i] /\ i \in DOMAIN o /\ n \in DOMAIN o /\ o # <<>>
        BY <1>3, <1>4, <1>5, <3>2 DEF n
      <4>3. o[n].n < p[j].n
        BY <2>4, <4>1, <4>2
      <4>4. i = n \/ o[i].n < o[n].n
        <5>1. i = n \/ i < n
          BY <1>4, <3>2
        <5> QED BY <2>3, <4>2, <5>1 DEF NumbersIncrease
      <4> HIDE DEF x
      <4>5. p[j].n \in Nat /\ o[i].n \in Nat /\ o[n].n \in Nat
        BY <1>6, <4>1, <4>2
      <4> QED BY <4>2, <4>3, <4>4, <4>5
    <3>3. CASE j \in n + 1 .. n + l /\ i \in n + 1 .. n + l
      <4>1. /\ p[i] = s[k + (i - n)] /\ k + (i - n) \in DOMAIN s
            /\ p[j] = s[k + (j - n)] /\ k + (j - n) \in DOMAIN s
        BY <1>5, <1>8, <3>3
      <4>2. k + (i - n) < k + (j - n)
        BY <1>4, <3>3
      <4> QED BY <2>2, <4>1, <4>2 DEF NumbersIncrease
    <3>4. \A x \in DOMAIN p : x \in 1 .. n \/ x \in n + 1 .. n + l
      BY <1>4, <1>5
    <3>5. j \in 1 .. n \/ ~(i \in n + 1 .. n + l /\ j \in 1 .. n)
      BY <1>4
    <3> QED BY <3>1, <3>2, <3>3, <3>4, <3>5
  <2>6. ASSUME NEW i \in DOMAIN p
        PROVE  p[i].n <= requests /\ \A r \in Slots : Loaded(r, t1) => p[i].n < req[r].n
    <3>1. CASE i \in 1 .. n
      <4>1. i \in DOMAIN o /\ p[i] = o[i]
        BY <1>4, <1>5, <3>1
      <4> QED BY <2>1, <4>1 DEF CursorAt, o
    <3>2. CASE i \in n + 1 .. n + l
      <4> DEFINE x == k + (i - n)
      <4>1. p[i] = s[x] /\ x \in DOMAIN s
        BY <1>5, <1>8, <3>2
      <4> HIDE DEF x
      <4>2. s[x].n <= requests
        BY <1>7, <4>1 DEF Sound, s
      <4>3. ASSUME NEW r \in Slots, Loaded(r, t1) PROVE s[x].n < req[r].n
        <5>1. req[r].copy = kv[t1]
          <6>1. kv[t1] \in {Nothing, req[r].copy}
            BY <2>1, <4>3, RelaysAssumption DEF RelayInv, FoundIsThere
          <6> QED BY <1>2, <6>1, NothingIsNoSession
        <5>2. Later(r)
          BY <1>2, <4>3, <5>1, NothingIsNoSession DEF RelayInv, SessionsSound, Loaded
        <5> QED BY <4>1, <5>1, <5>2 DEF Later, s
      <4> QED BY <4>1, <4>2, <4>3
    <3> QED BY <1>4, <1>5, <3>1, <3>2
  <2>7. n + l \in DOMAIN p /\ p # <<>> /\ p[n + l] = q[l] /\ q[l] = s[k + l] /\ k + l \in DOMAIN s
    BY <1>4, <1>5, <1>8
  <2>8. ASSUME NEW j \in DOMAIN s, s[j].id = q[l].id
        PROVE  s[j] = p[n + l] /\ \A i \in 1 .. j : \E x \in DOMAIN p : p[x] = s[i]
    <3>1. j = k + l
      BY <1>7, <2>7, <2>8 DEF Sound, s
    <3>2. ASSUME NEW i \in 1 .. j PROVE \E x \in DOMAIN p : p[x] = s[i]
      <4>1. CASE i <= k
        <5>1. s[k].id = last[c] /\ k \in DOMAIN s /\ i \in 1 .. k
          BY <1>1, <1>4, <4>1 DEF s
        <5>2. PICK x \in DOMAIN o : o[x] = s[i]
          BY <2>2, <5>1 DEF GivenUpTo, s, o
        <5>3. x \in DOMAIN p /\ p[x] = o[x]
          BY <1>4, <1>5, <5>2
        <5> QED BY <5>2, <5>3
      <4>2. CASE ~(i <= k)
        <5>1. i - k \in 1 .. l /\ k + (i - k) = i
          BY <1>4, <3>1, <4>2
        <5>2. q[i - k] = s[i]
          BY <1>8, <5>1
        <5> QED BY <1>5, <5>1, <5>2
      <4> QED BY <4>1, <4>2
    <3> QED BY <2>7, <3>1, <3>2
  <2>10. ASSUME NEW x \in Session, Current(x, t1)' PROVE x = kv[t1]
    BY <1>2, <2>1, <2>10, OneSession
  <2>11. kv' = kv
    BY <1>1 DEF PageGiven
  <2>12. got'[c] = p /\ last'[c] = p[n + l].id /\ p # <<>> /\ Len(p) = n + l
    BY <1>3, <1>5, <2>7 DEF p, o, l
  <2>9. s[k + l] = p[n + l] /\ q[l].id = p[n + l].id
    BY <2>7
  <2>13. ASSUME NEW x \in Session, Current(x, t1)' PROVE GivenUpTo(c, x)'
    <3>1. x.msgs = s
      BY <2>10, <2>13 DEF s
    <3> QED BY <2>7, <2>8, <2>9, <2>12, <3>1 DEF GivenUpTo
  <2> QED BY <1>2, <2>5, <2>6, <2>12, <2>13 DEF CursorAt, NumbersIncrease
<1>10. ASSUME NEW d \in Cursors, d # c, t1 \notin raced', d \notin lapped' PROVE CursorAt(d)'
  <2>1. CursorAt(d) /\ got'[d] = got[d] /\ last'[d] = last[d]
    BY <1>2, <1>3, <1>10 DEF RelayInv, CursorsFollow
  <2> QED BY <1>2, <2>1 DEF CursorAt, NumbersIncrease, GivenUpTo
<1>11. ASSUME NEW g \in Guests, t1 \notin raced' PROVE GuestAt(g)'
  <2>1. GuestAt(g) /\ got'[g] = got[g] /\ since' = since
    BY <1>1, <1>2, <1>3, <1>11 DEF RelayInv, GuestsFollow
  <2> QED BY <1>2, <2>1 DEF GuestAt
<1> QED BY <1>9, <1>10, <1>11 DEF CursorsFollow, GuestsFollow

LEMMA GuestStep ==
  ASSUME RelayInv, NEW g \in Guests, PollsSince(g)
  PROVE  CursorsFollow' /\ GuestsFollow'
<1> DEFINE s == kv[t1].msgs
<1>1. PICK q \in Seq(RelayMsg) :
        /\ PageGiven(g, q)
        /\ \A x \in DOMAIN q : \E i \in DOMAIN s : q[x] = s[i]
        /\ \A i \in DOMAIN s : s[i].ts > since[g] /\ s[i].ts < q[Len(q)].ts => \E x \in DOMAIN q : q[x] = s[i]
        /\ since' = [since EXCEPT ![g] = q[Len(q)].ts]
        /\ UNCHANGED last
  BY DEF PollsSince
<1> DEFINE o == got[g]
           l == Len(q)
           n == Len(o)
           p == o \o q
<1>2. /\ \A x \in Session : Current(x, t1)' = Current(x, t1)
      /\ \A r \in Slots : Loaded(r, t1)' = Loaded(r, t1)
      /\ UNCHANGED <<req, now, requests, raced, lapped>> /\ kv[t1] \in Session /\ q # <<>>
  BY <1>1, PollChangesNothing, RelaysAssumption DEF Pollers, PageGiven
<1>3. /\ got'[g] = p /\ since'[g] = q[l].ts
      /\ \A d \in Guests : d # g => got'[d] = got[d] /\ since'[d] = since[d]
      /\ \A c \in Cursors : got'[c] = got[c]
      /\ o \in Seq(RelayMsg) /\ s \in Seq(RelayMsg)
  <2>1. got \in [Pollers -> Seq(RelayMsg)] /\ since \in [Guests -> Nat]
    BY DEF RelayInv, RelayTypes
  <2>2. /\ \A c \in Cursors : c # g /\ c \in Pollers
        /\ \A d \in Guests : d \in Pollers
    BY RelaysAssumption DEF Pollers
  <2>3. got' = [got EXCEPT ![g] = @ \o q]
    BY <1>1 DEF PageGiven
  <2> QED BY <1>1, <1>2, <2>1, <2>2, <2>3 DEF Session
<1>4. l \in DOMAIN q /\ \A x \in DOMAIN q : \E y \in DOMAIN p : p[y] = q[x]
  <2>1. l \in DOMAIN q
    BY <1>2
  <2>2. \A x \in DOMAIN q : n + x \in DOMAIN p /\ p[n + x] = q[x]
    BY <1>3
  <2> QED BY <2>1, <2>2
<1>5. \A x \in DOMAIN o : x \in DOMAIN p /\ p[x] = o[x]
  BY <1>3
<1>6. Sound(kv[t1])
  <2>1. Current(kv[t1], t1) /\ t1 \in Tokens
    BY <1>2, NothingIsNoSession, RelaysAssumption DEF Current
  <2> QED BY <1>2, <2>1 DEF RelayInv, SessionsSound
<1>7. now \in Nat /\ since[g] \in Nat /\ \A i \in DOMAIN s : s[i].ts \in 1 .. now
  BY <1>6, RelaysAssumption DEF RelayInv, RelayTypes, Sound
<1>8. q[l].ts \in 1 .. now
  BY <1>1, <1>4, <1>7
<1> HIDE DEF o, l, n, p
<1>9. ASSUME t1 \notin raced' PROVE GuestAt(g)'
  <2>1. GuestAt(g) /\ t1 \notin raced
    BY <1>2, <1>9 DEF RelayInv, GuestsFollow
  <2>2. PICK y \in DOMAIN p : p[y] = q[l]
    BY <1>4
  <2>3. ASSUME NEW i \in DOMAIN s, s[i].ts <= q[l].ts
        PROVE  \E x \in DOMAIN p : p[x].ts = s[i].ts
    <3>1. CASE s[i].ts <= since[g]
      <4>1. \E x \in DOMAIN o : o[x].ts = s[i].ts
        BY <1>2, <2>1, <3>1, OneSession DEF GuestAt, o
      <4> QED BY <1>5, <4>1
    <3>2. CASE s[i].ts > since[g] /\ s[i].ts < q[l].ts
      <4>1. \E x \in DOMAIN q : q[x] = s[i]
        BY <1>1, <3>2 DEF l
      <4> QED BY <1>4, <4>1
    <3>3. CASE s[i].ts = q[l].ts
      BY <2>2, <3>3
    <3> HIDE DEF s
    <3>4. s[i].ts \in Nat /\ q[l].ts \in Nat
      BY <1>7, <1>8
    <3> QED BY <1>7, <2>3, <3>1, <3>2, <3>3, <3>4
  <2>4. \A x \in Session : Current(x, t1)' => x = kv[t1]
    BY <1>2, <2>1, OneSession
  <2>5. since'[g] <= now' /\ \E x \in DOMAIN p : p[x].ts = since'[g]
    BY <1>2, <1>3, <1>8, <2>2
  <2> QED BY <1>3, <2>3, <2>4, <2>5 DEF GuestAt
<1>10. ASSUME NEW d \in Guests, d # g, t1 \notin raced' PROVE GuestAt(d)'
  <2>1. GuestAt(d) /\ got'[d] = got[d] /\ since'[d] = since[d]
    BY <1>2, <1>3, <1>10 DEF RelayInv, GuestsFollow
  <2> QED BY <1>2, <2>1 DEF GuestAt
<1>11. ASSUME NEW c \in Cursors, t1 \notin raced', c \notin lapped' PROVE CursorAt(c)'
  <2>1. CursorAt(c) /\ got'[c] = got[c] /\ last'[c] = last[c]
    BY <1>1, <1>2, <1>3, <1>11 DEF RelayInv, CursorsFollow
  <2> QED BY <1>2, <2>1 DEF CursorAt, NumbersIncrease, GivenUpTo
<1> QED BY <1>9, <1>10, <1>11 DEF CursorsFollow, GuestsFollow

-----------------------------------------------------------------------------
(* One request at a time, and the index.                                    *)

LEMMA OneStays ==
  ASSUME RelayInv, NEW r \in Slots, NEW e \in RelayRequest, req' = [req EXCEPT ![r] = e], raced \subseteq raced',
         \/ e.at = "idle"
         \/ e.token = req[r].token /\ req[r].at # "idle"
         \/ H!Others(r, e.token) = {} \/ e.token \in raced'
  PROVE  OneAtATime'
<1> SUFFICES ASSUME NEW t \in Tokens, t \notin raced', NEW x \in Slots, NEW y \in Slots, Busy(x, t)', Busy(y, t)'
             PROVE  x = y
  BY DEF OneAtATime
<1>1. RelayTypes /\ t \notin raced
  BY DEF RelayInv
<1>2. req'[r] = e /\ \A z \in Slots : z # r => req'[z] = req[z]
  BY <1>1, OtherSlots
<1>3. \A z \in Slots : z # r /\ Busy(z, t)' => Busy(z, t) /\ (t = e.token => z \in H!Others(r, e.token))
  BY <1>2 DEF Busy, H!Others
<1>4. Busy(r, t)' => e.at # "idle" /\ t = e.token /\ (Busy(r, t) \/ H!Others(r, e.token) = {})
  BY <1>2 DEF Busy
<1>5. \A y1, y2 \in Slots : Busy(y1, t) /\ Busy(y2, t) => y1 = y2
  BY <1>1 DEF RelayInv, OneAtATime
<1> QED BY <1>3, <1>4, <1>5

LEMMA OneStep ==
  ASSUME RelayInv, RelayActs
  PROVE  OneAtATime'
<1>u. ASSUME UNCHANGED <<req, raced>> PROVE OneAtATime'
  BY <1>u DEF RelayInv, OneAtATime, Busy
<1>1. ASSUME NEW r \in Slots, NEW t \in Tokens, Comes(r, t) PROVE OneAtATime'
  <2>1. PICK e \in RelayRequest : req' = [req EXCEPT ![r] = e] /\ e.token = t
    BY <1>1 DEF Comes
  <2>2. raced' = IF H!Others(r, t) # {} THEN raced \cup {t} ELSE raced
    BY <1>1 DEF Comes
  <2> QED BY <2>1, <2>2, OneStays
<1>2. ASSUME NEW r \in Slots, NEW t \in Tokens, Removes(r, t) PROVE OneAtATime'
  <2>1. PICK e \in RelayRequest : req' = [req EXCEPT ![r] = e] /\ e.token = t
    BY <1>2 DEF Removes
  <2>2. raced' = IF H!Others(r, t) # {} THEN raced \cup {t} ELSE raced
    BY <1>2 DEF Removes
  <2> QED BY <2>1, <2>2, OneStays
<1>3. ASSUME NEW r \in Slots, PutsOld(r) \/ Stores(r) PROVE OneAtATime'
  <2>1. PICK e \in RelayRequest : req' = [req EXCEPT ![r] = e] /\ e.token = req[r].token
    BY <1>3 DEF PutsOld, Stores, Puts
  <2>2. req[r].at = "loaded" /\ raced' = raced
    BY <1>3 DEF PutsOld, Stores, Puts
  <2> QED BY <2>1, <2>2, OneStays
<1>4. ASSUME NEW r \in Slots, Drops(r) \/ Touches(r) \/ Unindexes(r) PROVE OneAtATime'
  <2>1. Frees(r) /\ raced' = raced
    BY <1>4 DEF Drops, Touches, Unindexes
  <2> QED BY <2>1, OneStays DEF Frees
<1>5. ASSUME NEW r \in Slots, LoadsIndex(r) PROVE OneAtATime'
  <2>1. PICK e \in RelayRequest : req' = [req EXCEPT ![r] = e] /\ e.token = req[r].token
    BY <1>5 DEF LoadsIndex
  <2>2. req[r].at # "idle" /\ raced' = raced
    BY <1>5 DEF LoadsIndex
  <2> QED BY <2>1, <2>2, OneStays
<1>6. ASSUME NEW t \in Tokens, Expires(t) PROVE OneAtATime'
  BY <1>u, <1>6 DEF Expires
<1>7. ASSUME NEW c \in Cursors, PollsAfter(c) PROVE OneAtATime'
  BY <1>u, <1>7 DEF PollsAfter, PageGiven
<1>8. ASSUME NEW g \in Guests, PollsSince(g) PROVE OneAtATime'
  BY <1>u, <1>8 DEF PollsSince, PageGiven
<1>9. CASE Ticks
  BY <1>u, <1>9 DEF Ticks
<1> QED BY <1>1, <1>2, <1>3, <1>4, <1>5, <1>6, <1>7, <1>8, <1>9 DEF RelayActs

(* The parts of IndexHeld.                                                  *)
OneAtIndex == ~mixed => \A r \in Slots : AtIndex(r) => req[r].index = rooms /\ \A x \in Slots : AtIndex(x) => x = r
RemovedIsGone ==
  \A t \in Tokens \ raced, r \in Slots : req[r].at \in {"remove", "unindex"} /\ req[r].token = t => kv[t] = Nothing
Entered(t) == \E r \in Slots : req[r].at \in {"touch", "index"} /\ req[r].token = t
EntersIndex == \A t \in Tokens \ raced : ~mixed /\ kv[t] # Nothing /\ rooms[t] = 0 => Entered(t)

LEMMA IndexParts == IndexHeld <=> OneAtIndex /\ RemovedIsGone /\ EntersIndex
BY DEF IndexHeld, OneAtIndex, RemovedIsGone, EntersIndex, Entered

(* Another slot is as it was.                                               *)
LEMMA EnteredStays ==
  ASSUME RelayTypes, NEW r \in Slots, NEW e, req' = [req EXCEPT ![r] = e], NEW t \in Tokens, Entered(t),
         \/ req[r].at \notin {"touch", "index"} \/ req[r].token # t
         \/ e.at \in {"touch", "index"} /\ e.token = t
  PROVE  Entered(t)'
<1>1. PICK x \in Slots : req[x].at \in {"touch", "index"} /\ req[x].token = t
  BY DEF Entered
<1>2. req'[r] = e /\ (x # r => req'[x] = req[x])
  BY OtherSlots
<1> QED BY <1>1, <1>2 DEF Entered

LEMMA IndexStep ==
  ASSUME RelayInv, RelayActs
  PROVE  IndexHeld'
<1>t. /\ RelayTypes /\ OneAtIndex /\ RemovedIsGone /\ EntersIndex
      /\ kv \in [Tokens -> Session \cup {Nothing}] /\ rooms \in [Tokens -> Nat]
  BY IndexParts DEF RelayInv, RelayTypes
<1>i. OneAtIndex' /\ RemovedIsGone' /\ EntersIndex' => IndexHeld'
  BY DEF IndexHeld, OneAtIndex, RemovedIsGone, EntersIndex, Entered, AtIndex
<1>e. ASSUME NEW r \in Slots, NEW e \in RelayRequest, req' = [req EXCEPT ![r] = e], ~(mixed /\ ~mixed'),
             raced \subseteq raced', rooms' = rooms, EndsOrStays, e.at \in {"idle", "loaded", "remove"},
             req[r].at \in {"idle", "loaded"}, e.at = "remove" => e.token \in Tokens /\ kv'[e.token] = Nothing
      PROVE  IndexHeld'
  <2>1. req'[r] = e /\ \A x \in Slots : x # r => req'[x] = req[x]
    BY <1>t, <1>e, OtherSlots
  <2>2. \A x \in Slots : AtIndex(x)' => AtIndex(x) /\ req'[x] = req[x]
    BY <1>e, <2>1 DEF AtIndex
  <2>3. OneAtIndex'
    BY <1>t, <1>e, <2>2 DEF OneAtIndex
  <2>4. RemovedIsGone'
    BY <1>t, <1>e, <2>1 DEF RemovedIsGone, EndsOrStays
  <2>5. EntersIndex'
    <3> SUFFICES ASSUME NEW u \in Tokens, u \notin raced', ~mixed', kv'[u] # Nothing, rooms'[u] = 0
                 PROVE  Entered(u)'
      BY DEF EntersIndex
    <3>1. Entered(u)
      BY <1>t, <1>e DEF EntersIndex, EndsOrStays
    <3> QED BY <1>t, <1>e, <3>1, EnteredStays
  <2> QED BY <1>i, <2>3, <2>4, <2>5
<1>1. ASSUME NEW r \in Slots, NEW t \in Tokens, Comes(r, t) PROVE IndexHeld'
  <2>1. PICK e \in RelayRequest : req' = [req EXCEPT ![r] = e] /\ e.at = "loaded"
    BY <1>1 DEF Comes
  <2>2. EndsOrStays
    BY <1>1, QuietGoes
  <2> QED BY <1>1, <1>e, <2>1, <2>2 DEF Comes
<1>2. ASSUME NEW r \in Slots, NEW t \in Tokens, Removes(r, t) PROVE IndexHeld'
  <2>1. PICK e \in RelayRequest : req' = [req EXCEPT ![r] = e] /\ e.at = "remove" /\ e.token = t
    BY <1>2 DEF Removes
  <2>2. EndsOrStays
    BY <1>2, QuietGoes
  <2>3. kv'[t] = Nothing
    BY <1>2, <1>t DEF Removes
  <2> QED BY <1>2, <1>e, <2>1, <2>2, <2>3 DEF Removes
<1>3. ASSUME NEW r \in Slots, Drops(r) PROVE IndexHeld'
  <2>1. PICK e \in RelayRequest : req' = [req EXCEPT ![r] = e] /\ e.at = "idle"
    BY <1>3 DEF Drops, Frees
  <2>2. EndsOrStays
    BY <1>3, QuietGoes
  <2> QED BY <1>3, <1>e, <2>1, <2>2 DEF Drops
<1>4. ASSUME NEW r \in Slots, PutsOld(r) \/ Stores(r) PROVE IndexHeld'
  <2> DEFINE v == req[r].token
  <2>1. PICK e \in RelayRequest : req' = [req EXCEPT ![r] = e] /\ e.at = "touch" /\ e.token = v
    BY <1>4 DEF PutsOld, Stores, Puts
  <2>2. /\ req[r].at = "loaded" /\ UNCHANGED <<raced, mixed, rooms>> /\ Busy(r, v) /\ v \in Tokens
        /\ \A t \in Tokens : t # v => kv'[t] = kv[t]
    BY <1>4, <1>t DEF PutsOld, Stores, Puts, Busy, RelayTypes, RequestOK
  <2>3. req'[r] = e /\ \A x \in Slots : x # r => req'[x] = req[x]
    BY <1>t, <2>1, OtherSlots
  <2> HIDE DEF v
  <2>4. OneAtIndex'
    BY <1>t, <2>1, <2>2, <2>3 DEF OneAtIndex, AtIndex
  <2>5. RemovedIsGone'
    <3> SUFFICES ASSUME NEW u \in Tokens, u \notin raced', NEW x \in Slots, req'[x].at \in {"remove", "unindex"},
                        req'[x].token = u
                 PROVE  kv'[u] = Nothing
      BY DEF RemovedIsGone
    <3>1. x # r /\ req'[x] = req[x] /\ Busy(x, u)
      BY <2>1, <2>3 DEF Busy
    <3>2. u # v
      BY <2>2, <3>1 DEF RelayInv, OneAtATime
    <3> QED BY <1>t, <2>2, <3>1, <3>2 DEF RemovedIsGone
  <2>6. EntersIndex'
    <3> SUFFICES ASSUME NEW u \in Tokens, u \notin raced', ~mixed', kv'[u] # Nothing, rooms'[u] = 0
                 PROVE  Entered(u)'
      BY DEF EntersIndex
    <3>1. CASE u = v
      BY <2>1, <2>3, <3>1 DEF Entered
    <3>2. CASE u # v
      <4>1. Entered(u)
        BY <1>t, <2>2, <3>2 DEF EntersIndex
      <4> QED BY <1>t, <2>1, <2>2, <4>1, EnteredStays
    <3> QED BY <3>1, <3>2
  <2> QED BY <1>i, <2>4, <2>5, <2>6
<1>5. ASSUME NEW r \in Slots, LoadsIndex(r) PROVE IndexHeld'
  <2>1. PICK e \in RelayRequest :
       /\ req' = [req EXCEPT ![r] = e]
       /\ e.at = (IF req[r].at = "touch" THEN "index" ELSE "unindex")
       /\ e.token = req[r].token /\ e.index = rooms
    BY <1>5 DEF LoadsIndex
  <2>2. /\ req[r].at \in {"touch", "remove"} /\ UNCHANGED <<kv, rooms, raced>>
        /\ ~mixed' => ~mixed /\ \A s \in Slots : ~AtIndex(s)
    BY <1>5 DEF LoadsIndex
  <2>3. req'[r] = e /\ \A x \in Slots : x # r => req'[x] = req[x]
    BY <1>t, <2>1, OtherSlots
  <2>4. OneAtIndex'
    BY <2>1, <2>2, <2>3 DEF OneAtIndex, AtIndex
  <2>5. RemovedIsGone'
    BY <1>t, <2>1, <2>2, <2>3 DEF RemovedIsGone
  <2>6. EntersIndex'
    <3> SUFFICES ASSUME NEW u \in Tokens, u \notin raced', ~mixed', kv'[u] # Nothing, rooms'[u] = 0
                 PROVE  Entered(u)'
      BY DEF EntersIndex
    <3>1. Entered(u)
      BY <1>t, <2>2 DEF EntersIndex
    <3> QED BY <1>t, <2>1, <2>2, <3>1, EnteredStays
  <2> QED BY <1>i, <2>4, <2>5, <2>6
<1>f. ASSUME NEW r \in Slots, Frees(r), AtIndex(r), mixed' = mixed, raced' = raced, EndsOrStays,
             NEW v, v = req[r].token,
             ~mixed => \A u \in Tokens : kv'[u] # Nothing /\ u \notin raced /\ rooms'[u] = 0 =>
                         rooms[u] = 0 /\ (req[r].at = "index" => u # v)
      PROVE  IndexHeld'
  <2>1. PICK e \in RelayRequest : req' = [req EXCEPT ![r] = e] /\ e.at = "idle"
    BY <1>f DEF Frees
  <2>2. req'[r] = e /\ \A x \in Slots : x # r => req'[x] = req[x]
    BY <1>t, <2>1, OtherSlots
  <2>3. OneAtIndex'
    <3> SUFFICES ASSUME ~mixed', NEW x \in Slots, AtIndex(x)' PROVE FALSE
      BY DEF OneAtIndex
    <3>1. x # r /\ AtIndex(x)
      BY <2>1, <2>2 DEF AtIndex
    <3> QED BY <1>t, <1>f, <3>1 DEF OneAtIndex
  <2>4. RemovedIsGone'
    BY <1>t, <1>f, <2>1, <2>2 DEF RemovedIsGone, EndsOrStays
  <2>5. EntersIndex'
    <3> SUFFICES ASSUME NEW u \in Tokens, u \notin raced', ~mixed', kv'[u] # Nothing, rooms'[u] = 0
                 PROVE  Entered(u)'
      BY DEF EntersIndex
    <3>1. rooms[u] = 0 /\ (req[r].at = "index" => u # v) /\ kv[u] # Nothing
      BY <1>f DEF EndsOrStays
    <3>2. Entered(u)
      BY <1>t, <1>f, <3>1 DEF EntersIndex
    <3> QED BY <1>t, <1>f, <2>1, <3>1, <3>2, EnteredStays DEF AtIndex
  <2> QED BY <1>i, <2>3, <2>4, <2>5
<1>6. ASSUME NEW r \in Slots, Touches(r) PROVE IndexHeld'
  <2> DEFINE v == req[r].token
  <2>1. EndsOrStays /\ Frees(r) /\ AtIndex(r) /\ mixed' = mixed /\ raced' = raced /\ now # 0 /\ v \in Tokens
    <3>1. EndsOrStays
      BY <1>6, QuietGoes
    <3>2. now # 0
      BY RelaysAssumption DEF RelayInv, RelayTypes
    <3> QED BY <1>t, <1>6, <3>1, <3>2 DEF Touches, AtIndex, RelayTypes, RequestOK
  <2>2. ~mixed => req[r].index = rooms
    BY <1>t, <2>1 DEF OneAtIndex
  <2> HIDE DEF v
  <2>3. ASSUME ~mixed, NEW u \in Tokens, kv'[u] # Nothing, rooms'[u] = 0
        PROVE  rooms[u] = 0 /\ u # v
    <3>1. CASE rooms' = [rooms EXCEPT ![v] = now]
      BY <1>t, <2>1, <2>3, <3>1
    <3>2. ASSUME NEW k \in Tokens \ {v}, rooms' = [[rooms EXCEPT ![v] = now] EXCEPT ![k] = 0], kv' = [kv EXCEPT ![k] = Nothing]
          PROVE  rooms[u] = 0 /\ u # v
      <4>1. u # k
        BY <1>t, <2>3, <3>2
      <4> QED BY <1>t, <2>1, <2>3, <3>2, <4>1
    <3> QED BY <1>6, <2>2, <2>3, <3>1, <3>2 DEF Touches, v
  <2>4. v = req[r].token
    BY DEF v
  <2> QED BY <1>f, <2>1, <2>3, <2>4
<1>7. ASSUME NEW r \in Slots, Unindexes(r) PROVE IndexHeld'
  <2> DEFINE v == req[r].token
  <2>1. /\ EndsOrStays /\ Frees(r) /\ AtIndex(r) /\ mixed' = mixed /\ raced' = raced /\ v \in Tokens /\ kv' = kv
        /\ rooms' = [req[r].index EXCEPT ![v] = 0] /\ req[r].at = "unindex"
    BY <1>t, <1>7, QuietGoes DEF Unindexes, AtIndex, RelayTypes, RequestOK
  <2>2. ~mixed => req[r].index = rooms
    BY <1>t, <2>1 DEF OneAtIndex
  <2>3. v \notin raced => kv[v] = Nothing
    BY <1>t, <2>1 DEF RemovedIsGone
  <2>4. v = req[r].token
    OBVIOUS
  <2> HIDE DEF v
  <2>5. ASSUME ~mixed, NEW u \in Tokens, kv'[u] # Nothing, u \notin raced, rooms'[u] = 0
        PROVE  rooms[u] = 0
    <3>1. u # v
      BY <2>1, <2>3, <2>5
    <3> QED BY <1>t, <2>1, <2>2, <2>5, <3>1
  <2> QED BY <1>f, <2>1, <2>4, <2>5
<1>8. ASSUME NEW t \in Tokens, Expires(t) PROVE IndexHeld'
  <2>1. UNCHANGED <<rooms, req, raced, mixed>> /\ EndsOrStays
    BY <1>8, QuietGoes DEF Expires
  <2>2. OneAtIndex' /\ RemovedIsGone' /\ EntersIndex'
    BY <1>t, <2>1 DEF OneAtIndex, RemovedIsGone, EntersIndex, Entered, AtIndex, EndsOrStays
  <2> QED BY <1>i, <2>2
<1>9. ASSUME NEW c \in Cursors, PollsAfter(c) PROVE IndexHeld'
  BY <1>9, PollChangesNothing DEF PollsAfter, Pollers
<1>10. ASSUME NEW g \in Guests, PollsSince(g) PROVE IndexHeld'
  BY <1>10, PollChangesNothing DEF PollsSince, Pollers
<1>11. CASE Ticks
  BY <1>11 DEF Ticks, RelayInv, IndexHeld, AtIndex
<1> QED BY <1>1, <1>2, <1>3, <1>4, <1>5, <1>6, <1>7, <1>8, <1>9, <1>10, <1>11 DEF RelayActs

-----------------------------------------------------------------------------
(* The HTTP relay as a part of the run.                                     *)

LEMMA RelayStep ==
  ASSUME RelayInv, H!Next
  PROVE  RelayInv'
<1>1. RelayActs
  BY RelaySteps DEF RelayInv
<1>2. RelayTypes'
  BY <1>1, RelayTypesStep DEF RelayInv
<1>3. OneAtATime' /\ IndexHeld'
  BY <1>1, OneStep, IndexStep
<1> DEFINE Rest == SessionsSound' /\ FoundIsThere' /\ KeptThere' /\ CursorsFollow' /\ GuestsFollow'
<1>4. ASSUME \/ \E r \in Slots, t \in Tokens : Comes(r, t) \/ Removes(r, t)
             \/ \E r \in Slots : Drops(r) \/ LoadsIndex(r) \/ Touches(r) \/ Unindexes(r)
             \/ \E t \in Tokens : Expires(t)
             \/ Ticks
      PROVE  Rest
  <2>1. Goes /\ EndsOrStays /\ LoadedSame
    BY <1>4, QuietGoes
  <2>2. raced \subseteq raced'
    BY <2>1 DEF Goes
  <2> QED BY <1>2, <2>1, <2>2, RequestGoesOn, FoundStays
<1>5. ASSUME NEW r \in Slots, PutsOld(r) PROVE Rest
  BY <1>2, <1>5, PutsOldGoes, RequestGoesOn
<1>6. ASSUME NEW r \in Slots, Stores(r) PROVE Rest
  BY <1>2, <1>6, StoresSound, StoresKeeps, StoresFollow
<1>7. ASSUME NEW c \in Cursors, PollsAfter(c) PROVE Rest
  BY <1>7, CursorStep, PollChangesNothing DEF PollsAfter, Pollers
<1>8. ASSUME NEW g \in Guests, PollsSince(g) PROVE Rest
  BY <1>8, GuestStep, PollChangesNothing DEF PollsSince, Pollers
<1> QED BY <1>1, <1>2, <1>3, <1>4, <1>5, <1>6, <1>7, <1>8 DEF RelayActs, RelayInv

LEMMA RelayInit == H!Init => RelayInv
<1> SUFFICES ASSUME H!Init PROVE RelayInv
  OBVIOUS
<1> DEFINE M == {[x \in Guests \cup Cursors |-> t1][c] : c \in H!Readers}
<1>1. /\ kv = [t \in Tokens |-> IF t \in M THEN H!Empty ELSE Nothing]
      /\ rooms = [t \in Tokens |-> IF t \in M THEN 1 ELSE 0]
      /\ req = [r \in Slots |-> H!Idle] /\ now = 1 /\ requests = 0
      /\ since = [g \in Guests |-> 0] /\ last = [c \in Cursors |-> Nothing]
      /\ got = [c \in Pollers |-> <<>>] /\ kept = [t \in Tokens |-> {}] /\ raced = {} /\ mixed = FALSE
  BY DEF H!Init, H!Readers, Pollers
<1> HIDE DEF M
<1>2. H!Idle \in RelayRequest /\ H!Idle.at = "idle" /\ H!Idle.n = 0 /\ H!Empty \in Session /\ H!Empty.msgs = <<>>
  BY IdleRequest, EmptySession
<1>3. \A r \in Slots : req[r] \in RelayRequest /\ req[r].at = "idle" /\ req[r].n = 0
  BY <1>1, <1>2
<1>4. RelayTypes
  <2>1. kv \in [Tokens -> Session \cup {Nothing}] /\ rooms \in [Tokens -> Nat] /\ req \in [Slots -> RelayRequest]
    BY <1>1, <1>2
  <2>2. \A r \in Slots : RequestOK(req[r], requests)
    BY <1>1, <1>3 DEF RequestOK
  <2>3. now \in 1 .. MaxNow /\ requests \in Nat
    BY <1>1, RelaysAssumption
  <2>4. since \in [Guests -> Nat] /\ last \in [Cursors -> Ids \cup Nat \cup {Nothing}]
    BY <1>1
  <2>5. got \in [Pollers -> Seq(RelayMsg)]
    BY <1>1
  <2>6. kept \in [Tokens -> SUBSET Nat] /\ mixed \in BOOLEAN
    BY <1>1
  <2> QED BY <2>1, <2>2, <2>3, <2>4, <2>5, <2>6 DEF RelayTypes
<1>5. \A t \in Tokens, s \in Session : Current(s, t) => s = H!Empty
  BY <1>1, <1>3 DEF Current, Loaded
<1>6. \A r \in Slots, t \in Tokens : ~Loaded(r, t) /\ ~Busy(r, t)
  BY <1>3 DEF Loaded, Busy
<1>7. SessionsSound
  BY <1>3, <1>5, EmptySound DEF SessionsSound
<1>8. OneAtATime /\ FoundIsThere
  BY <1>6 DEF OneAtATime, FoundIsThere
<1>9. KeptThere
  BY <1>1, <1>2, <1>5 DEF KeptThere, NumbersIncrease
<1>10. CursorsFollow
  <2> SUFFICES ASSUME NEW c \in Cursors PROVE CursorAt(c)
    BY DEF CursorsFollow
  <2>1. got[c] = <<>> /\ last[c] = Nothing
    BY <1>1 DEF Pollers
  <2>2. \A s \in Session : Current(s, t1) => GivenUpTo(c, s)
    BY <1>2, <1>5, <2>1, RelaysAssumption DEF GivenUpTo
  <2> QED BY <2>1, <2>2 DEF CursorAt, NumbersIncrease
<1>11. GuestsFollow
  BY <1>1, <1>2, <1>5, RelaysAssumption DEF GuestsFollow, GuestAt
<1>12. IndexHeld
  <2>1. \A t \in Tokens : kv[t] # Nothing => rooms[t] # 0
    BY <1>1
  <2> QED BY <1>3, <2>1 DEF IndexHeld, AtIndex
<1> QED BY <1>4, <1>7, <1>8, <1>9, <1>10, <1>11, <1>12 DEF RelayInv

LEMMA RelayPart ==
  SpecAll => [](part = "relay" => RelayInv)
PROOF
<1>1. InitAll => (part = "relay" => RelayInv)
  BY RelayInit DEF InitAll
<1>2. (part = "relay" => RelayInv)
      /\ [NextAll]_<<part, relayVars, vars, groupsVars, signalVars, federationVars, sdkVars, lanVars>>
      => (part = "relay" => RelayInv)'
  <2> SUFFICES ASSUME part = "relay" => RelayInv, part' = "relay",
                      [NextAll]_<<part, relayVars, vars, groupsVars, signalVars, federationVars, sdkVars, lanVars>>
               PROVE  RelayInv'
    OBVIOUS
  <2>1. CASE Relay
    BY <2>1, RelayStep DEF Relay
  <2>2. CASE UNCHANGED <<part, relayVars>>
    <3>1. UNCHANGED <<kv, rooms, req, now, since, last, got, requests, kept, raced, mixed, lapped>> /\ RelayInv
      BY <2>2 DEF relayVars
    <3>2. RelayTypes' /\ SessionsSound'
      BY <3>1 DEF RelayInv, RelayTypes, SessionsSound, RequestOK, Current, Loaded, Sound, Later
    <3>3. OneAtATime' /\ FoundIsThere' /\ IndexHeld'
      BY <3>1 DEF RelayInv, OneAtATime, FoundIsThere, IndexHeld, Loaded, Busy, AtIndex
    <3>4. KeptThere'
      BY <3>1 DEF RelayInv, KeptThere, Current, Loaded, NumbersIncrease, H!Numbers
    <3>5. CursorsFollow'
      BY <3>1 DEF RelayInv, CursorsFollow, CursorAt, GivenUpTo, Current, Loaded, NumbersIncrease
    <3>6. GuestsFollow'
      BY <3>1 DEF RelayInv, GuestsFollow, GuestAt, Current, Loaded
    <3> QED BY <3>2, <3>3, <3>4, <3>5, <3>6 DEF RelayInv
  <2> QED BY <2>1, <2>2 DEF NextAll, GatewayStep, Groups, Signal, Federation, Sdk, Lan
<1> QED BY <1>1, <1>2, PTL DEF SpecAll

(* What the invariant says of the properties.                               *)
LEMMA RelayInvKeeps ==
  RelayInv => /\ H!SessionsInOrder /\ H!AcceptedIsKept /\ H!RoomsAreIndexed
              /\ H!CursorReadsOnce /\ H!SinceMissesOnlyTies
<1> SUFFICES ASSUME RelayInv
             PROVE  /\ H!SessionsInOrder /\ H!AcceptedIsKept /\ H!RoomsAreIndexed
                    /\ H!CursorReadsOnce /\ H!SinceMissesOnlyTies
  OBVIOUS
<1>1. \A t \in Tokens : kv[t] # Nothing => kv[t] \in Session /\ Current(kv[t], t)
  BY DEF RelayInv, RelayTypes, Current
<1>2. H!SessionsInOrder
  <2> SUFFICES ASSUME NEW t \in Tokens, kv[t] # Nothing PROVE H!InOrder(kv[t])
    BY DEF H!SessionsInOrder
  <2>1. Sound(kv[t])
    BY <1>1 DEF RelayInv, SessionsSound
  <2>2. H!IsInjective([i \in DOMAIN kv[t].msgs |-> kv[t].msgs[i].id])
    BY <2>1 DEF Sound, H!IsInjective
  <2> QED BY <2>1, <2>2 DEF Sound, H!InOrder
<1>3. H!AcceptedIsKept
  BY <1>1 DEF H!AcceptedIsKept, RelayInv, KeptThere
<1>4. H!RoomsAreIndexed
  BY DEF H!RoomsAreIndexed, RelayInv, IndexHeld
<1>r. t1 \in Tokens /\ \A x \in Guests \cup Cursors : [y \in Guests \cup Cursors |-> t1][x] = t1
  BY RelaysAssumption
<1>5. H!CursorReadsOnce
  <2> SUFFICES ASSUME NEW c \in Cursors, t1 \notin raced, c \notin lapped
               PROVE  /\ \A i, j \in DOMAIN got[c] : i < j => got[c][i].n < got[c][j].n
                      /\ kv[t1] # Nothing =>
                           \A i, j \in DOMAIN kv[t1].msgs :
                             i < j /\ kv[t1].msgs[j].id = last[c] => kv[t1].msgs[i] \in H!Range(got[c])
    BY <1>r DEF H!CursorReadsOnce
  <2>1. CursorAt(c)
    BY DEF RelayInv, CursorsFollow
  <2>2. ASSUME kv[t1] # Nothing, NEW i \in DOMAIN kv[t1].msgs, NEW j \in DOMAIN kv[t1].msgs,
               i < j, kv[t1].msgs[j].id = last[c]
        PROVE  kv[t1].msgs[i] \in H!Range(got[c])
    <3>1. GivenUpTo(c, kv[t1]) /\ kv[t1].msgs \in Seq(RelayMsg)
      BY <1>1, <1>r, <2>1, <2>2 DEF CursorAt, Session
    <3>2. i \in 1 .. j
      BY <2>2, <3>1
    <3>3. \E k \in DOMAIN got[c] : got[c][k] = kv[t1].msgs[i]
      BY <2>2, <3>1, <3>2 DEF GivenUpTo
    <3> QED BY <3>3 DEF H!Range
  <2> QED BY <2>1, <2>2 DEF CursorAt, NumbersIncrease
<1>6. H!SinceMissesOnlyTies
  <2> SUFFICES ASSUME NEW g \in Guests, t1 \notin raced, kv[t1] # Nothing, NEW m \in H!Range(kv[t1].msgs), m.ts <= since[g]
               PROVE  \E k \in H!Range(got[g]) : k.ts = m.ts
    BY <1>r DEF H!SinceMissesOnlyTies
  <2>1. PICK i \in DOMAIN kv[t1].msgs : m = kv[t1].msgs[i]
    BY DEF H!Range
  <2>2. \E k \in DOMAIN got[g] : got[g][k].ts = m.ts
    BY <1>1, <1>r, <2>1 DEF RelayInv, GuestsFollow, GuestAt
  <2> QED BY <2>2 DEF H!Range
<1> QED BY <1>2, <1>3, <1>4, <1>5, <1>6

-----------------------------------------------------------------------------
(* Address records.                                                         *)

Fetch == [at : {"new", "read", "done"}, token : SUBSET Names, read : Nat]
(* The fetch f has read a record of t and not deleted it yet.               *)
Reads(f, t) == fetch[f].at = "read" /\ fetch[f].token = {t}
Recorded(r) == \E t \in Names : record[t] = r

SignalTypes ==
  /\ announced \in 0 .. MaxRecords /\ record \in [Names -> 0 .. announced]
  /\ fetch \in [Fetches -> Fetch]
  /\ \A f \in Fetches : fetch[f].at = "read" => fetch[f].read \in 1 .. announced /\ \E t \in Names : Reads(f, t)
  /\ fetched \in [1 .. MaxRecords -> Nat]

(* A number stands for one record, which is gone once it was given out.     *)
RecordsDiffer == \A t, u \in Names : record[t] = record[u] /\ record[t] # 0 => t = u

(* As long as no requests of a token overlap, what a fetch has read is the  *)
(* record of its token, if there is one, and was not given out.             *)
ReadIsFresh ==
  \A f \in Fetches, t \in Names : Reads(f, t) =>
    /\ record[t] \in {0, fetch[f].read} /\ fetched[fetch[f].read] = 0
    /\ \A u \in Names : record[u] = fetch[f].read => u = t
    /\ \A g \in Fetches : fetch[g].at = "read" /\ g # f => fetch[g].read # fetch[f].read /\ fetch[g].token # {t}
GivenOutOnce == \A r \in 1 .. MaxRecords : fetched[r] <= 1 /\ (fetched[r] # 0 => r <= announced /\ ~Recorded(r))
NoneLost == \A r \in 1 .. announced : r \in ended \/ Recorded(r)

SignalInv == SignalTypes /\ RecordsDiffer /\ (crossed = {} => ReadIsFresh /\ GivenOutOnce /\ NoneLost)

LEMMA SignalInit == N!Init => SignalInv
<1> SUFFICES ASSUME N!Init PROVE SignalInv
  OBVIOUS
<1>1. /\ record = [t \in Names |-> 0] /\ announced = 0 /\ fetched = [r \in 1 .. MaxRecords |-> 0]
      /\ fetch = [f \in Fetches |-> N!Fresh]
  BY DEF N!Init, N!Records
<1>2. N!Fresh \in Fetch /\ N!Fresh.at = "new"
  BY DEF N!Fresh, Fetch
<1>3. SignalTypes
  <2>1. \A f \in Fetches : fetch[f].at # "read"
    BY <1>1, <1>2
  <2> QED BY <1>1, <1>2, <2>1, RelaysAssumption DEF SignalTypes
<1>4. \A f \in Fetches, t \in Names : ~Reads(f, t)
  BY <1>1, <1>2 DEF Reads
<1> QED BY <1>1, <1>3, <1>4 DEF SignalInv, RecordsDiffer, ReadIsFresh, GivenOutOnce, NoneLost

LEMMA AnnounceStep ==
  ASSUME SignalInv, NEW t \in Names, N!Announce(t)
  PROVE  SignalInv'
<1> DEFINE n == announced + 1
<1>1. /\ announced \in Nat /\ announced < MaxRecords /\ MaxRecords \in Nat /\ announced' = n /\ n \in 1 .. MaxRecords
      /\ record \in [Names -> 0 .. announced] /\ fetch \in [Fetches -> Fetch] /\ UNCHANGED <<fetch, fetched>>
      /\ fetched \in [1 .. MaxRecords -> Nat]
      /\ \A f \in Fetches : fetch[f].at = "read" => fetch[f].read \in 1 .. announced
  BY RelaysAssumption DEF SignalInv, SignalTypes, N!Announce
<1>2. /\ record'[t] = n /\ \A u \in Names : u # t => record'[u] = record[u]
      /\ \A u \in Names : record[u] \in 0 .. announced
  BY <1>1 DEF N!Announce
<1>3. SignalTypes'
  <2>1. record' \in [Names -> 0 .. n]
    BY <1>1 DEF N!Announce
  <2>2. \A f \in Fetches : fetch[f].at = "read" => \E u \in Names : Reads(f, u)
    BY DEF SignalInv, SignalTypes
  <2>3. \A f \in Fetches : fetch[f].at = "read" => fetch[f].read \in 1 .. n
    BY <1>1
  <2>4. \A f \in Fetches : fetch'[f].at = "read" => fetch'[f].read \in 1 .. n /\ \E u \in Names : Reads(f, u)'
    BY <1>1, <2>2, <2>3 DEF Reads
  <2> HIDE DEF n
  <2> QED BY <1>1, <2>1, <2>4 DEF SignalTypes
<1>4. RecordsDiffer'
  BY <1>1, <1>2 DEF SignalInv, RecordsDiffer
<1>5. ASSUME crossed' = {} PROVE ReadIsFresh' /\ GivenOutOnce' /\ NoneLost'
  <2>1. crossed = {} /\ N!Reading(t) = {}
    BY <1>5 DEF N!Announce
  <2>2. ReadIsFresh /\ GivenOutOnce /\ NoneLost
    BY <2>1 DEF SignalInv
  <2>3. \A f \in Fetches : ~Reads(f, t)
    BY <2>1 DEF N!Reading, Reads
  <2>r. \A f \in Fetches : fetch[f].at = "read" => fetch[f].read # n
    BY <1>1
  <2> HIDE DEF n
  <2>f. ASSUME NEW f \in Fetches, NEW u \in Names, Reads(f, u)
        PROVE  /\ record'[u] \in {0, fetch[f].read} /\ fetched[fetch[f].read] = 0
               /\ \A x \in Names : record'[x] = fetch[f].read => x = u
               /\ \A g \in Fetches : fetch[g].at = "read" /\ g # f => fetch[g].read # fetch[f].read /\ fetch[g].token # {u}
    <3>1. u # t /\ fetch[f].at = "read"
      BY <2>3, <2>f DEF Reads
    <3>2. record'[u] = record[u] /\ record'[t] # fetch[f].read
      BY <1>2, <2>r, <3>1
    <3> QED BY <1>2, <2>2, <2>f, <3>1, <3>2 DEF ReadIsFresh
  <2>u. \A f \in Fetches, u \in Names : Reads(f, u)' => Reads(f, u)
    BY <1>1 DEF Reads
  <2>4. ReadIsFresh'
    BY <1>1, <2>f, <2>u DEF ReadIsFresh
  <2>5. \A r \in 1 .. announced : Recorded(r)' => Recorded(r)
    BY <1>1, <1>2 DEF Recorded, n
  <2>6. GivenOutOnce'
    <3>1. \A r \in 1 .. MaxRecords : fetched[r] # 0 => r \in 1 .. announced /\ r <= n
      BY <1>1, <2>2 DEF GivenOutOnce, n
    <3> QED BY <1>1, <2>2, <2>5, <3>1 DEF GivenOutOnce
  <2>7. ASSUME NEW r \in 1 .. n PROVE r \in ended' \/ Recorded(r)'
    <3>1. CASE r = n
      BY <1>2, <3>1 DEF Recorded
    <3>2. CASE r # n /\ r \in ended
      BY <3>2 DEF N!Announce
    <3>3. CASE r # n /\ Recorded(r)
      <4>1. PICK u \in Names : record[u] = r
        BY <3>3 DEF Recorded
      <4>2. CASE u = t
        BY <4>1, <4>2 DEF N!Announce
      <4>3. CASE u # t
        BY <1>2, <4>1, <4>3 DEF Recorded
      <4> QED BY <4>2, <4>3
    <3>4. r # n => r \in 1 .. announced
      BY <1>1 DEF n
    <3> QED BY <2>2, <3>1, <3>2, <3>3, <3>4 DEF NoneLost
  <2> QED BY <1>1, <2>4, <2>6, <2>7 DEF NoneLost
<1> QED BY <1>3, <1>4, <1>5 DEF SignalInv

LEMMA RecordExpires ==
  ASSUME SignalInv, NEW t \in Names, N!Expire(t)
  PROVE  SignalInv'
<1>1. /\ record' = [record EXCEPT ![t] = 0] /\ ended' = ended \cup {record[t]}
      /\ UNCHANGED <<fetch, announced, fetched, crossed>> /\ announced \in Nat
      /\ record \in [Names -> 0 .. announced]
  BY RelaysAssumption DEF SignalInv, SignalTypes, N!Expire
<1>2. record' \in [Names -> 0 .. announced] /\ record'[t] = 0 /\ \A u \in Names : u # t => record'[u] = record[u]
  BY <1>1
<1>3. SignalTypes' /\ RecordsDiffer'
  BY <1>1, <1>2 DEF SignalInv, SignalTypes, RecordsDiffer, Reads
<1>4. ASSUME crossed' = {} PROVE ReadIsFresh' /\ GivenOutOnce' /\ NoneLost'
  <2>1. ReadIsFresh /\ GivenOutOnce /\ NoneLost
    BY <1>1, <1>4 DEF SignalInv
  <2>2. \A f \in Fetches : fetch[f].at = "read" => fetch[f].read # 0
    BY DEF SignalInv, SignalTypes
  <2>3. ReadIsFresh'
    BY <1>1, <1>2, <2>1, <2>2 DEF ReadIsFresh, Reads
  <2>4. \A r \in 1 .. MaxRecords : Recorded(r)' => Recorded(r)
    BY <1>2 DEF Recorded
  <2>5. GivenOutOnce'
    BY <1>1, <2>1, <2>4 DEF GivenOutOnce
  <2>6. \A r \in 1 .. announced : Recorded(r) => Recorded(r)' \/ r = record[t]
    BY <1>2 DEF Recorded
  <2>7. NoneLost'
    BY <1>1, <2>1, <2>6 DEF NoneLost
  <2> QED BY <2>3, <2>5, <2>7
<1> QED BY <1>3, <1>4 DEF SignalInv

LEMMA ReadStep ==
  ASSUME SignalInv, NEW f \in Fetches, NEW t \in Names, N!ReadRecord(f, t)
  PROVE  SignalInv'
<1> DEFINE e == [at |-> IF record[t] = 0 THEN "done" ELSE "read", token |-> {t}, read |-> record[t]]
<1>1. /\ record \in [Names -> 0 .. announced] /\ announced \in Nat /\ fetch \in [Fetches -> Fetch]
      /\ UNCHANGED <<record, announced, fetched, ended>>
  BY RelaysAssumption DEF SignalInv, SignalTypes, N!ReadRecord
<1>2. /\ e \in Fetch /\ e.token = {t} /\ e.read = record[t] /\ (e.at = "read" <=> record[t] # 0)
      /\ (record[t] # 0 => e.read \in 1 .. announced)
  BY <1>1 DEF Fetch
<1>3. fetch' = [fetch EXCEPT ![f] = e]
  BY DEF N!ReadRecord
<1> HIDE DEF e
<1>4. /\ fetch' \in [Fetches -> Fetch] /\ fetch'[f] = e /\ \A g \in Fetches : g # f => fetch'[g] = fetch[g]
  BY <1>1, <1>2, <1>3
<1>5. SignalTypes'
  <2>1. ASSUME NEW g \in Fetches, fetch'[g].at = "read"
        PROVE  fetch'[g].read \in 1 .. announced /\ \E u \in Names : Reads(g, u)'
    <3>1. CASE g = f
      BY <1>2, <1>4, <2>1, <3>1 DEF Reads
    <3>2. CASE g # f
      BY <1>4, <2>1, <3>2 DEF SignalInv, SignalTypes, Reads
    <3> QED BY <3>1, <3>2
  <2> QED BY <1>1, <1>4, <2>1 DEF SignalInv, SignalTypes
<1>6. ASSUME crossed' = {} PROVE ReadIsFresh' /\ GivenOutOnce' /\ NoneLost'
  <2>1. crossed = {} /\ \A g \in Fetches : ~Reads(g, t)
    BY <1>6 DEF N!ReadRecord, N!Reading, Reads
  <2>2. ReadIsFresh /\ GivenOutOnce /\ NoneLost /\ RecordsDiffer
    BY <2>1 DEF SignalInv
  <2>3. GivenOutOnce' /\ NoneLost'
    BY <1>1, <2>2 DEF GivenOutOnce, NoneLost, Recorded
  <2>r. record[t] # 0 => record[t] \in 1 .. MaxRecords
    <3>1. announced <= MaxRecords /\ MaxRecords \in Nat /\ record[t] \in 0 .. announced
      BY <1>1, RelaysAssumption DEF SignalInv, SignalTypes
    <3> QED BY <1>1, <3>1
  <2>4. record[t] # 0 => fetched[record[t]] = 0
    BY <2>r, <2>2 DEF GivenOutOnce, Recorded
  <2>5. ASSUME NEW g \in Fetches, g # f, fetch[g].at = "read"
        PROVE  fetch[g].token # {t} /\ fetch[g].read # record[t]
    <3>1. PICK u \in Names : Reads(g, u)
      BY <2>5 DEF SignalInv, SignalTypes
    <3>2. u # t
      BY <2>1, <3>1
    <3> QED BY <2>2, <3>1, <3>2 DEF ReadIsFresh, Reads
  <2>6. ASSUME NEW g \in Fetches, NEW u \in Names, Reads(g, u)'
        PROVE  /\ record[u] \in {0, fetch'[g].read} /\ fetched[fetch'[g].read] = 0
               /\ \A x \in Names : record[x] = fetch'[g].read => x = u
               /\ \A h \in Fetches : fetch'[h].at = "read" /\ h # g =>
                    fetch'[h].read # fetch'[g].read /\ fetch'[h].token # {u}
    <3>1. CASE g = f
      <4>1. u = t /\ record[t] # 0 /\ fetch'[g].read = record[t]
        BY <1>2, <1>4, <2>6, <3>1 DEF Reads
      <4> QED BY <1>4, <2>2, <2>4, <2>5, <3>1, <4>1 DEF RecordsDiffer
    <3>2. CASE g # f
      <4>1. Reads(g, u) /\ fetch'[g] = fetch[g] /\ u # t
        BY <1>4, <2>1, <2>6, <3>2 DEF Reads
      <4> QED BY <1>2, <1>4, <2>2, <2>5, <3>2, <4>1 DEF ReadIsFresh, Reads
    <3> QED BY <3>1, <3>2
  <2>7. ReadIsFresh'
    BY <1>1, <2>6 DEF ReadIsFresh
  <2> QED BY <2>3, <2>7
<1>7. RecordsDiffer'
  BY <1>1 DEF SignalInv, RecordsDiffer
<1> QED BY <1>5, <1>6, <1>7 DEF SignalInv

LEMMA DeleteStep ==
  ASSUME SignalInv, NEW f \in Fetches, N!DeleteRecord(f)
  PROVE  SignalInv'
<1> DEFINE e == [fetch[f] EXCEPT !.at = "done"]
<1>0. PICK r \in 1 .. announced : r = fetch[f].read
  BY DEF SignalInv, SignalTypes, N!DeleteRecord
<1>1. /\ record \in [Names -> 0 .. announced] /\ announced \in 0 .. MaxRecords /\ fetch \in [Fetches -> Fetch]
      /\ fetched \in [1 .. MaxRecords -> Nat] /\ MaxRecords \in Nat /\ announced \in Nat
      /\ UNCHANGED <<announced, crossed>> /\ fetch[f].at = "read" /\ r \in 1 .. MaxRecords
  BY RelaysAssumption DEF SignalInv, SignalTypes, N!DeleteRecord
<1>2. PICK t \in Names : Reads(f, t)
  BY <1>1 DEF SignalInv, SignalTypes
<1>3. /\ record' = [u \in Names |-> IF u \in fetch[f].token THEN 0 ELSE record[u]]
      /\ fetch' = [fetch EXCEPT ![f] = e] /\ fetched' = [fetched EXCEPT ![r] = @ + 1] /\ ended' = ended \cup {r}
  BY <1>0 DEF N!DeleteRecord
<1>4. record'[t] = 0 /\ \A u \in Names : u # t => record'[u] = record[u]
  BY <1>2, <1>3 DEF Reads
<1>5. e \in Fetch /\ e.at = "done"
  BY <1>1 DEF Fetch
<1> HIDE DEF e
<1>6. /\ fetch' \in [Fetches -> Fetch] /\ fetch'[f].at = "done" /\ \A g \in Fetches : g # f => fetch'[g] = fetch[g]
  BY <1>1, <1>3, <1>5
<1>7. /\ fetched' \in [1 .. MaxRecords -> Nat] /\ fetched'[r] = fetched[r] + 1
      /\ \A x \in 1 .. MaxRecords : x # r => fetched'[x] = fetched[x]
  BY <1>1, <1>3
<1>8. SignalTypes'
  <2>1. record' \in [Names -> 0 .. announced]
    BY <1>1, <1>3
  <2>2. ASSUME NEW g \in Fetches, fetch'[g].at = "read"
        PROVE  fetch'[g].read \in 1 .. announced /\ \E u \in Names : Reads(g, u)'
    <3>1. g # f /\ fetch'[g] = fetch[g]
      BY <1>6, <2>2
    <3> QED BY <2>2, <3>1 DEF SignalInv, SignalTypes, Reads
  <2> QED BY <1>1, <1>6, <1>7, <2>1, <2>2 DEF SignalTypes
<1>9. RecordsDiffer'
  BY <1>4 DEF SignalInv, RecordsDiffer
<1>10. ASSUME crossed' = {} PROVE ReadIsFresh' /\ GivenOutOnce' /\ NoneLost'
  <2>1. ReadIsFresh /\ GivenOutOnce /\ NoneLost
    BY <1>1, <1>10 DEF SignalInv
  <2>2. /\ record[t] \in {0, r} /\ fetched[r] = 0 /\ \A u \in Names : record[u] = r => u = t
        /\ \A g \in Fetches : fetch[g].at = "read" /\ g # f => fetch[g].read # r /\ fetch[g].token # {t}
    BY <1>0, <1>2, <2>1 DEF ReadIsFresh
  <2>3. ~Recorded(r)'
    BY <1>1, <1>4, <2>2 DEF Recorded
  <2>4. \A x \in 1 .. MaxRecords : Recorded(x)' => Recorded(x)
    BY <1>4 DEF Recorded
  <2>5. \A x \in 1 .. announced : Recorded(x) => x = r \/ Recorded(x)'
    BY <1>4, <2>2 DEF Recorded
  <2>6. GivenOutOnce'
    <3> SUFFICES ASSUME NEW x \in 1 .. MaxRecords
                 PROVE  fetched'[x] <= 1 /\ (fetched'[x] # 0 => x <= announced' /\ ~Recorded(x)')
      BY DEF GivenOutOnce
    <3>1. CASE x = r
      BY <1>1, <1>7, <2>2, <2>3, <3>1
    <3>2. CASE x # r
      BY <1>1, <1>7, <2>1, <2>4, <3>2 DEF GivenOutOnce
    <3> QED BY <3>1, <3>2
  <2>7. NoneLost'
    BY <1>1, <1>3, <2>1, <2>5 DEF NoneLost
  <2>8. ReadIsFresh'
    <3> SUFFICES ASSUME NEW g \in Fetches, NEW u \in Names, Reads(g, u)'
                 PROVE  /\ record'[u] \in {0, fetch'[g].read} /\ fetched'[fetch'[g].read] = 0
                        /\ \A x \in Names : record'[x] = fetch'[g].read => x = u
                        /\ \A h \in Fetches : fetch'[h].at = "read" /\ h # g =>
                             fetch'[h].read # fetch'[g].read /\ fetch'[h].token # {u}
      BY DEF ReadIsFresh
    <3>1. g # f /\ fetch'[g] = fetch[g] /\ Reads(g, u)
      BY <1>6 DEF Reads
    <3>2. fetch[g].read # r /\ u # t
      BY <2>2, <3>1 DEF Reads
    <3>3. fetch[g].read \in 1 .. announced
      BY <3>1 DEF Reads, SignalInv, SignalTypes
    <3>4. fetch[g].read \in 1 .. MaxRecords /\ fetch[g].read # 0
      BY <1>1, <3>3
    <3>5. fetched'[fetch[g].read] = fetched[fetch[g].read]
      BY <1>7, <3>2, <3>4
    <3> QED BY <1>4, <1>6, <2>1, <3>1, <3>2, <3>4, <3>5 DEF ReadIsFresh
  <2> QED BY <2>6, <2>7, <2>8
<1> QED BY <1>8, <1>9, <1>10 DEF SignalInv

LEMMA SignalPart ==
  SpecAll => [](part = "signal" => SignalInv)
PROOF
<1>1. InitAll => (part = "signal" => SignalInv)
  BY SignalInit DEF InitAll
<1>2. (part = "signal" => SignalInv)
      /\ [NextAll]_<<part, relayVars, vars, groupsVars, signalVars, federationVars, sdkVars, lanVars>>
      => (part = "signal" => SignalInv)'
  <2> SUFFICES ASSUME part = "signal" => SignalInv, part' = "signal",
                      [NextAll]_<<part, relayVars, vars, groupsVars, signalVars, federationVars, sdkVars, lanVars>>
               PROVE  SignalInv'
    OBVIOUS
  <2>1. CASE Signal
    BY <2>1, AnnounceStep, RecordExpires, ReadStep, DeleteStep DEF Signal, N!Next
  <2>2. CASE UNCHANGED <<part, signalVars>>
    BY <2>2 DEF signalVars, SignalInv, SignalTypes, RecordsDiffer, ReadIsFresh, GivenOutOnce, NoneLost, Recorded, Reads
  <2> QED BY <2>1, <2>2 DEF NextAll, GatewayStep, Groups, Relay, Federation, Sdk, Lan
<1> QED BY <1>1, <1>2, PTL DEF SpecAll

LEMMA SignalInvKeeps == SignalInv => N!FetchedOnce /\ N!GoneForAReason
BY DEF SignalInv, N!FetchedOnce, N!GoneForAReason, GivenOutOnce, NoneLost, Recorded, N!Records

(* Whatever requests, polls, puts, evictions and expirations interleave, a  *)
(* session of the worker holds its messages in order and no id twice; what  *)
(* the sender was told is accepted is kept; rooms are in the index; pollers *)
(* by id read once and in order, pollers by time miss at most ties; and an  *)
(* address record is given out once and never lost unread.                  *)
THEOREM RelayHolds ==
  SpecAll => []RelayKeeps
PROOF
<1>1. (part = "relay" => RelayInv) /\ (part = "signal" => SignalInv) => RelayKeeps
  BY RelayInvKeeps, SignalInvKeeps DEF RelayKeeps
<1> QED BY <1>1, RelayPart, SignalPart, PTL

-----------------------------------------------------------------------------
(* Groups.                                                                  *)

Group == [in : BOOLEAN, members : SUBSET Members, gen : Nat]
Operation == [kind : {"invite", "notify", "leave", "send"}, targets : SUBSET Members, members : SUBSET Members,
              peer : Members, gen : Nat, ok : BOOLEAN]
NoOp(a) == op[a] = P!Idle

GroupTypes ==
  /\ groups \in [Members -> Group] /\ op \in [Members -> Operation \cup {P!Idle}]
  /\ wire \subseteq P!Posts /\ links \subseteq SUBSET Members /\ faulty \in BOOLEAN

(* Nobody posts to itself; whom an operation tells of a list is on it, and  *)
(* an invitation that was answered has made its peer a member.              *)
Telling(a) ==
  /\ op[a].targets \subseteq Members \ {a}
  /\ op[a].kind = "notify" => op[a].targets \subseteq op[a].members
  /\ op[a].kind = "invite" => op[a].targets \subseteq {op[a].peer} /\ (op[a].ok => op[a].peer \in joined)
TellsListed ==
  /\ \A a \in Members : ~NoOp(a) => Telling(a)
  /\ \A m \in wire : m.body.type = "joined" => m.to \in m.body.members

(* How far the lists agree in the middle of an operation of a.              *)
Joined == {b \in Members : groups[b].in}
Inviting(a) ==
  /\ op[a].members = Joined /\ op[a].targets = {op[a].peer} /\ op[a].peer \notin Joined
  /\ ~op[a].ok /\ groups[a].gen = op[a].gen /\ \A b \in Joined : groups[b].members = Joined
Invited(a) ==
  /\ op[a].ok /\ groups[a].gen = op[a].gen /\ op[a].peer \in Joined \ {a}
  /\ op[a].members = Joined \ {op[a].peer} /\ groups[op[a].peer].members = Joined
  /\ \A b \in Joined \ {op[a].peer} : groups[b].members = op[a].members
Notifying(a) ==
  /\ op[a].members = Joined
  /\ \A b \in Joined \ op[a].targets : groups[b].members = Joined
Leaving(a) ==
  /\ op[a].targets \subseteq Joined \ {a}
  /\ \A b \in op[a].targets : groups[b].members = Joined
  /\ \A b \in Joined \ ({a} \cup op[a].targets) : groups[b].members = Joined \ {a}
Sending(a) == op[a].targets \subseteq Joined /\ \A b \in Joined : groups[b].members = Joined
Midway(a) ==
  /\ groups[a].in /\ \A b \in Members \ {a} : NoOp(b)
  /\ op[a].kind = "invite" => IF op[a].targets # {} THEN Inviting(a) ELSE Invited(a)
  /\ op[a].kind = "notify" => Notifying(a)
  /\ op[a].kind = "leave" => Leaving(a)
  /\ op[a].kind = "send" => Sending(a)
Agreeing ==
  /\ up = Members /\ wire = {}
  /\ (\A a \in Members : NoOp(a)) => \A b \in Joined : groups[b].members = Joined
  /\ \A a \in Members : ~NoOp(a) => Midway(a)

GroupInv ==
  /\ GroupTypes /\ TellsListed /\ P!MembersListThemselves /\ P!InvitedHaveJoined
  /\ ~faulty => Agreeing

-----------------------------------------------------------------------------
(* Records of operations and groups.                                        *)

Told(q, t) == [q EXCEPT !.targets = @ \ {t}]
Answered(q, t) == [q EXCEPT !.targets = @ \ {t}, !.ok = TRUE]

LEMMA ToldIs ==
  ASSUME NEW q \in Operation, NEW t
  PROVE  /\ LET e == Told(q, t)
            IN e \in Operation /\ e.targets = q.targets \ {t} /\ e.kind = q.kind /\ e.members = q.members
               /\ e.peer = q.peer /\ e.gen = q.gen /\ e.ok = q.ok
         /\ LET e == Answered(q, t)
            IN e \in Operation /\ e.targets = q.targets \ {t} /\ e.kind = q.kind /\ e.members = q.members
               /\ e.peer = q.peer /\ e.gen = q.gen /\ e.ok
BY DEF Operation, Told, Answered

Op(k, s, m, p, g) == [kind |-> k, targets |-> s, members |-> m, peer |-> p, gen |-> g, ok |-> FALSE]

LEMMA OpIs ==
  ASSUME NEW k \in {"invite", "notify", "leave", "send"}, NEW s \in SUBSET Members, NEW m \in SUBSET Members,
         NEW p \in Members, NEW g \in Nat
  PROVE  LET e == Op(k, s, m, p, g)
         IN e \in Operation /\ e.kind = k /\ e.targets = s /\ e.members = m /\ e.peer = p /\ e.gen = g /\ ~e.ok
BY DEF Operation, Op

LEMMA IdleIsNone == P!Idle \notin Operation /\ P!Idle.kind = "none"
<1>1. P!Idle.kind = "none"
  BY DEF P!Idle
<1> QED BY <1>1 DEF Operation

LEMMA OpTyped ==
  ASSUME GroupTypes, NEW a \in Members
  PROVE  /\ ~NoOp(a) => op[a] \in Operation
         /\ op[a].kind \in {"invite", "notify", "leave", "send"} => ~NoOp(a)
BY IdleIsNone DEF GroupTypes, NoOp

(* Another member's operation is as it was.                                 *)
LEMMA OpOnly ==
  ASSUME GroupTypes, NEW a \in Members, NEW e \in Operation \cup {P!Idle}, op' = [op EXCEPT ![a] = e]
  PROVE  /\ op' \in [Members -> Operation \cup {P!Idle}]
         /\ op'[a] = e /\ \A b \in Members : b # a => op'[b] = op[b]
BY DEF GroupTypes

LEMMA GroupOnly ==
  ASSUME GroupTypes, NEW a \in Members, NEW g \in Group, groups' = [groups EXCEPT ![a] = g]
  PROVE  /\ groups' \in [Members -> Group]
         /\ groups'[a] = g /\ \A b \in Members : b # a => groups'[b] = groups[b]
BY DEF GroupTypes

(* What a post does to the group of t.                                      *)
LEMMA HandledAs ==
  ASSUME GroupTypes, NEW t \in Members, NEW a \in Members, NEW b \in P!Bodies
  PROVE  LET g == groups[t]
             h == P!Handled(t, a, b)
         IN /\ h \in Group
            /\ b.type = "invite" => h.in /\ h.members = b.members \cup {t}
            /\ b.type = "joined" => h.in = g.in /\ h.gen = g.gen /\ h.members = IF g.in THEN b.members ELSE g.members
            /\ b.type = "left" => h.in = g.in /\ h.gen = g.gen /\ h.members = IF g.in THEN g.members \ {a} ELSE g.members
            /\ b.type = "message" => h.in /\ (g.in => h = g) /\ (~g.in => h.members = {t, a})
            /\ b.type \in {"invite", "joined", "left", "message"}
            /\ b.type \in {"invite", "joined"} => b.members \in SUBSET Members
<1>1. groups[t] \in Group
  BY DEF GroupTypes
<1>2. \/ b.type \in {"invite", "joined"} /\ b.members \in SUBSET Members
      \/ b.type \in {"left", "message"}
  BY DEF P!Bodies
<1>3. CASE b.type = "invite"
  <2>1. P!Handled(t, a, b) = P!OnInvite(t, groups[t], b.members) /\ b.members \in SUBSET Members
    BY <1>2, <1>3 DEF P!Handled
  <2> QED BY <1>1, <1>3, <2>1 DEF P!OnInvite, Group
<1>4. CASE b.type = "joined"
  <2>1. P!Handled(t, a, b) = P!OnJoined(groups[t], b.members) /\ b.members \in SUBSET Members
    BY <1>2, <1>4 DEF P!Handled
  <2> QED BY <1>1, <1>4, <2>1 DEF P!OnJoined, Group
<1>5. CASE b.type = "left"
  <2>1. P!Handled(t, a, b) = P!OnLeft(groups[t], a)
    BY <1>5 DEF P!Handled
  <2> QED BY <1>1, <1>5, <2>1 DEF P!OnLeft, Group
<1>6. CASE b.type = "message"
  <2>1. P!Handled(t, a, b) = P!OnMessage(t, groups[t], a)
    BY <1>6 DEF P!Handled
  <2> QED BY <1>1, <1>6, <2>1 DEF P!OnMessage, Group
<1> QED BY <1>2, <1>3, <1>4, <1>5, <1>6

(* The post of an operation.                                                *)
LEMMA BodyIs ==
  ASSUME NEW a \in Members, op[a] \in Operation
  PROVE  LET b == P!Body(a)
         IN /\ b \in P!Bodies
            /\ op[a].kind = "invite" => b.type = "invite" /\ b.members = op[a].members
            /\ op[a].kind = "notify" => b.type = "joined" /\ b.members = op[a].members
            /\ op[a].kind = "leave" => b.type = "left"
            /\ op[a].kind = "send" => b.type = "message"
<1>1. op[a].kind \in {"invite", "notify", "leave", "send"} /\ op[a].members \in SUBSET Members
  BY DEF Operation
<1>2. CASE op[a].kind = "invite"
  <2>1. P!Body(a) = [type |-> "invite", members |-> op[a].members]
    BY <1>2 DEF P!Body
  <2> QED BY <1>1, <1>2, <2>1 DEF P!Bodies
<1>3. CASE op[a].kind = "notify"
  <2>1. P!Body(a) = [type |-> "joined", members |-> op[a].members]
    BY <1>3 DEF P!Body
  <2> QED BY <1>1, <1>3, <2>1 DEF P!Bodies
<1>4. CASE op[a].kind = "leave"
  <2>1. P!Body(a) = [type |-> "left"]
    BY <1>4 DEF P!Body
  <2> QED BY <1>1, <1>4, <2>1 DEF P!Bodies
<1>5. CASE op[a].kind = "send"
  <2>1. P!Body(a) = [type |-> "message"]
    BY <1>5 DEF P!Body
  <2> QED BY <1>1, <1>5, <2>1 DEF P!Bodies
<1> QED BY <1>1, <1>2, <1>3, <1>4, <1>5

-----------------------------------------------------------------------------
(* A post is handled.                                                       *)

LEMMA Receives ==
  ASSUME GroupInv, NEW t \in Members, NEW a \in Members, NEW b \in P!Bodies, P!Receive(t, a, b), t # a,
         b.type = "joined" => t \in b.members
  PROVE  /\ groups' \in [Members -> Group] /\ groups'[t] = P!Handled(t, a, b)
         /\ \A x \in Members : x # t => groups'[x] = groups[x]
         /\ joined \subseteq joined' /\ (groups'[t].in => t \in joined')
         /\ P!MembersListThemselves'
<1>1. GroupTypes /\ groups \in [Members -> Group]
  BY DEF GroupInv, GroupTypes
<1> DEFINE h == P!Handled(t, a, b)
<1>2. h \in Group /\ groups' = [groups EXCEPT ![t] = h]
  BY <1>1, HandledAs DEF P!Receive
<1>h. b.type = "invite" => h.in /\ h.members = b.members \cup {t}
  BY <1>1, HandledAs
<1>j. b.type = "joined" => h.in = groups[t].in /\ h.members = IF groups[t].in THEN b.members ELSE groups[t].members
  BY <1>1, HandledAs
<1>l. b.type = "left" => h.in = groups[t].in /\ h.members = IF groups[t].in THEN groups[t].members \ {a} ELSE groups[t].members
  BY <1>1, HandledAs
<1>o. ASSUME b.type = "message" PROVE h.in /\ (groups[t].in => h = groups[t]) /\ (~groups[t].in => h.members = {t, a})
  <2>1. h = P!OnMessage(t, groups[t], a)
    BY <1>o DEF P!Handled
  <2> HIDE DEF h
  <2> QED BY <2>1 DEF P!OnMessage
<1>k. b.type \in {"invite", "joined", "left", "message"}
  BY <1>1, HandledAs
<1> HIDE DEF h
<1>m. groups[t].in => t \in groups[t].members
  BY DEF GroupInv, P!MembersListThemselves
<1>3. h.in => t \in h.members
  <2>1. CASE b.type = "invite"
    BY <1>h, <2>1
  <2>2. CASE b.type = "joined"
    BY <1>j, <1>m, <2>2
  <2>3. CASE b.type = "left"
    BY <1>l, <1>m, <2>3
  <2>4. CASE b.type = "message"
    BY <1>o, <1>m, <2>4
  <2> QED BY <1>k, <2>1, <2>2, <2>3, <2>4
<1>4. groups' \in [Members -> Group] /\ groups'[t] = h /\ \A x \in Members : x # t => groups'[x] = groups[x]
  BY <1>1, <1>2, GroupOnly
<1>5. joined \subseteq joined' /\ (groups'[t].in => t \in joined')
  BY DEF P!Receive
<1>6. P!MembersListThemselves'
  BY <1>3, <1>4 DEF GroupInv, P!MembersListThemselves
<1> QED BY <1>4, <1>5, <1>6 DEF h

LEMMA AnsweredStep ==
  ASSUME GroupInv, NEW a \in Members, NEW t \in Members, P!PostAnswered(a, t)
  PROVE  GroupInv'
<1> DEFINE b == P!Body(a)
           e == Answered(op[a], t)
<1>1. /\ GroupTypes /\ TellsListed /\ ~NoOp(a) /\ t \in op[a].targets
      /\ UNCHANGED <<links, wire, up, invited, faulty>> /\ op' = [op EXCEPT ![a] = e]
  BY DEF GroupInv, P!PostAnswered, P!Waits, NoOp, Answered
<1>2. op[a] \in Operation /\ Telling(a)
  BY <1>1, OpTyped DEF TellsListed
<1>3. /\ e \in Operation /\ e.targets = op[a].targets \ {t} /\ e.kind = op[a].kind /\ e.members = op[a].members
      /\ e.peer = op[a].peer /\ e.gen = op[a].gen /\ e.ok
  BY <1>2, ToldIs
<1>4. /\ b \in P!Bodies
      /\ op[a].kind = "invite" => b.type = "invite" /\ b.members = op[a].members
      /\ op[a].kind = "notify" => b.type = "joined" /\ b.members = op[a].members
      /\ op[a].kind = "leave" => b.type = "left"
      /\ op[a].kind = "send" => b.type = "message"
  BY <1>2, BodyIs
<1> HIDE DEF b, e
<1>5. /\ op' \in [Members -> Operation \cup {P!Idle}] /\ op'[a] = e
      /\ \A x \in Members : x # a => op'[x] = op[x]
  BY <1>1, <1>3, OpOnly
<1>6. t # a /\ op[a].kind \in {"invite", "notify", "leave", "send"} /\ op[a].members \in SUBSET Members
      /\ (b.type = "joined" => t \in b.members)
  BY <1>1, <1>2, <1>4 DEF Telling, Operation
<1>7. P!Receive(t, a, b)
  BY DEF P!PostAnswered, b
<1>8. /\ groups' \in [Members -> Group] /\ groups'[t] = P!Handled(t, a, b)
      /\ \A x \in Members : x # t => groups'[x] = groups[x]
      /\ joined \subseteq joined' /\ (groups'[t].in => t \in joined')
      /\ P!MembersListThemselves'
  BY <1>4, <1>6, <1>7, Receives
<1>9. /\ b.type = "invite" => groups'[t].in /\ groups'[t].members = b.members \cup {t}
      /\ b.type = "joined" => groups'[t].in = groups[t].in
                              /\ groups'[t].members = IF groups[t].in THEN b.members ELSE groups[t].members
      /\ b.type = "left" => groups'[t].in = groups[t].in
                            /\ groups'[t].members = IF groups[t].in THEN groups[t].members \ {a} ELSE groups[t].members
      /\ b.type = "message" => groups'[t].in /\ (groups[t].in => groups'[t] = groups[t])
  <2> DEFINE h == P!Handled(t, a, b)
  <2>i. b.type = "invite" => h.in /\ h.members = b.members \cup {t}
    BY <1>1, <1>4, HandledAs
  <2>g. groups[t] \in Group
    BY <1>1 DEF GroupTypes
  <2>j. ASSUME b.type = "joined"
        PROVE  h.in = groups[t].in /\ h.members = IF groups[t].in THEN b.members ELSE groups[t].members
    <3>1. h = P!OnJoined(groups[t], b.members)
      BY <2>j DEF P!Handled
    <3> HIDE DEF h
    <3> QED BY <2>g, <3>1 DEF P!OnJoined, Group
  <2>l. ASSUME b.type = "left"
        PROVE  h.in = groups[t].in /\ h.members = IF groups[t].in THEN groups[t].members \ {a} ELSE groups[t].members
    <3>1. h = P!OnLeft(groups[t], a)
      BY <2>l DEF P!Handled
    <3> HIDE DEF h
    <3> QED BY <2>g, <3>1 DEF P!OnLeft, Group
  <2>m. ASSUME b.type = "message" PROVE h.in /\ (groups[t].in => h = groups[t])
    <3>1. h = P!OnMessage(t, groups[t], a)
      BY <2>m DEF P!Handled
    <3> HIDE DEF h
    <3> QED BY <3>1 DEF P!OnMessage
  <2> HIDE DEF h
  <2>1. /\ b.type = "invite" => h.in /\ h.members = b.members \cup {t}
        /\ b.type = "joined" => h.in = groups[t].in /\ h.members = IF groups[t].in THEN b.members ELSE groups[t].members
        /\ b.type = "left" => h.in = groups[t].in /\ h.members = IF groups[t].in THEN groups[t].members \ {a} ELSE groups[t].members
        /\ b.type = "message" => h.in /\ (groups[t].in => h = groups[t])
    BY <2>i, <2>j, <2>l, <2>m
  <2>2. groups'[t] = h
    BY <1>8 DEF h
  <2> QED BY <2>1, <2>2
<1>10. GroupTypes'
  BY <1>1, <1>5, <1>8 DEF GroupTypes
<1>11. TellsListed'
  <2>1. Telling(a)'
    BY <1>1, <1>2, <1>3, <1>4, <1>5, <1>8, <1>9 DEF Telling
  <2>2. ASSUME NEW x \in Members, x # a, ~NoOp(x)' PROVE Telling(x)'
    <3>1. Telling(x) /\ op'[x] = op[x]
      BY <1>1, <1>5, <2>2 DEF TellsListed, NoOp
    <3> QED BY <1>8, <3>1 DEF Telling
  <2> QED BY <1>1, <2>1, <2>2 DEF TellsListed
<1>12. P!InvitedHaveJoined'
  BY <1>1, <1>8 DEF GroupInv, P!InvitedHaveJoined
<1>13. ASSUME ~faulty' PROVE Agreeing'
  <2>1. Agreeing /\ Midway(a)
    BY <1>1, <1>13 DEF GroupInv, Agreeing
  <2>2. /\ groups[a].in /\ groups'[a] = groups[a] /\ \A x \in Members \ {a} : NoOp(x)'
        /\ ~NoOp(a)' /\ up' = Members /\ wire' = {}
    BY <1>1, <1>3, <1>5, <1>6, <1>8, <2>1, IdleIsNone DEF Midway, NoOp, Agreeing
  <2>j. a \in Joined /\ Joined \subseteq Members
    BY <2>2 DEF Joined
  <2>3. CASE op[a].kind = "invite"
    <3>1. Inviting(a) /\ t = op[a].peer
      BY <1>1, <2>1, <2>3 DEF Midway, Inviting
    <3>2. Joined' = Joined \cup {t} /\ t \notin Joined
      BY <1>4, <1>8, <1>9, <2>3, <3>1 DEF Joined, Inviting
    <3>3. groups'[t].members = Joined'
      BY <1>4, <1>9, <2>3, <3>1, <3>2 DEF Inviting
    <3>4. \A x \in Joined : groups'[x].members = op[a].members
      BY <1>8, <2>j, <3>1, <3>2 DEF Inviting
    <3>5. Invited(a)'
      BY <1>3, <1>5, <1>6, <2>2, <2>j, <3>1, <3>2, <3>3, <3>4 DEF Invited, Inviting
    <3>6. op'[a].targets = {} /\ op'[a].kind = "invite"
      BY <1>3, <1>5, <2>3, <3>1 DEF Inviting
    <3> QED BY <2>2, <3>5, <3>6 DEF Agreeing, Midway
  <2>4. CASE op[a].kind = "notify"
    <3>1. Notifying(a) /\ t \in Joined
      BY <1>1, <1>2, <2>1, <2>4 DEF Midway, Notifying, Telling
    <3>2. Joined' = Joined /\ groups'[t].members = Joined
      BY <1>4, <1>8, <1>9, <2>4, <3>1 DEF Joined, Notifying
    <3>3. Notifying(a)'
      BY <1>3, <1>5, <1>8, <2>j, <3>1, <3>2 DEF Notifying
    <3> QED BY <1>3, <1>5, <2>2, <2>4, <3>3 DEF Agreeing, Midway
  <2>5. CASE op[a].kind = "leave"
    <3>1. Leaving(a) /\ t \in Joined
      BY <1>1, <2>1, <2>5 DEF Midway, Leaving
    <3>2. Joined' = Joined /\ groups'[t].members = Joined \ {a}
      BY <1>1, <1>4, <1>8, <1>9, <2>5, <3>1 DEF Joined, Leaving
    <3>3. Leaving(a)'
      BY <1>3, <1>5, <1>8, <2>j, <3>1, <3>2 DEF Leaving
    <3> QED BY <1>3, <1>5, <2>2, <2>5, <3>3 DEF Agreeing, Midway
  <2>6. CASE op[a].kind = "send"
    <3>1. Sending(a) /\ t \in Joined
      BY <1>1, <2>1, <2>6 DEF Midway, Sending
    <3>2. Joined' = Joined /\ groups'[t] = groups[t]
      BY <1>4, <1>8, <1>9, <2>6, <3>1 DEF Joined
    <3>3. Sending(a)'
      BY <1>3, <1>5, <1>8, <2>j, <3>1, <3>2 DEF Sending
    <3> QED BY <1>3, <1>5, <2>2, <2>6, <3>3 DEF Agreeing, Midway
  <2> QED BY <1>6, <2>3, <2>4, <2>5, <2>6
<1> QED BY <1>8, <1>10, <1>11, <1>12, <1>13 DEF GroupInv

LEMMA UnansweredStep ==
  ASSUME GroupInv, NEW a \in Members, NEW t \in Members, P!PostRefused(a, t) \/ P!PostLate(a, t)
  PROVE  GroupInv'
<1> DEFINE e == Told(op[a], t)
           m == [from |-> a, to |-> t, body |-> P!Body(a)]
<1>1. /\ GroupTypes /\ TellsListed /\ ~NoOp(a) /\ t \in op[a].targets
      /\ UNCHANGED <<groups, links, up, joined, invited>> /\ op' = [op EXCEPT ![a] = e]
      /\ wire' = wire \/ wire' = wire \cup {m}
      /\ faulty' \in BOOLEAN /\ (~faulty' => ~faulty /\ t \notin up)
  BY DEF GroupInv, GroupTypes, P!PostRefused, P!PostLate, P!Step, P!Waits, NoOp, Told, P!history
<1>2. op[a] \in Operation /\ Telling(a)
  BY <1>1, OpTyped DEF TellsListed
<1>3. /\ e \in Operation /\ e.targets = op[a].targets \ {t} /\ e.kind = op[a].kind /\ e.members = op[a].members
      /\ e.peer = op[a].peer /\ e.gen = op[a].gen /\ e.ok = op[a].ok
  BY <1>2, ToldIs
<1>4. /\ P!Body(a) \in P!Bodies
      /\ op[a].kind = "invite" => P!Body(a).type = "invite"
      /\ op[a].kind = "notify" => P!Body(a).type = "joined" /\ P!Body(a).members = op[a].members
      /\ op[a].kind = "leave" => P!Body(a).type = "left"
      /\ op[a].kind = "send" => P!Body(a).type = "message"
      /\ op[a].kind \in {"invite", "notify", "leave", "send"}
  BY <1>2, BodyIs DEF Operation
<1>5. m \in P!Posts /\ (m.body.type = "joined" => m.to \in m.body.members)
  BY <1>1, <1>2, <1>4 DEF P!Posts, Telling
<1> HIDE DEF e, m
<1>6. /\ op' \in [Members -> Operation \cup {P!Idle}] /\ op'[a] = e
      /\ \A x \in Members : x # a => op'[x] = op[x]
  BY <1>1, <1>3, OpOnly
<1>7. GroupTypes'
  BY <1>1, <1>5, <1>6 DEF GroupTypes
<1>8. TellsListed'
  <2>1. \A x \in Members : ~NoOp(x)' => Telling(x)'
    BY <1>1, <1>2, <1>3, <1>6 DEF TellsListed, Telling, NoOp
  <2>2. \A p \in wire' : p.body.type = "joined" => p.to \in p.body.members
    BY <1>1, <1>5 DEF TellsListed
  <2> QED BY <2>1, <2>2 DEF TellsListed
<1>9. faulty'
  BY <1>1, <1>2 DEF GroupInv, Agreeing, Telling
<1> QED BY <1>1, <1>7, <1>8, <1>9 DEF GroupInv, P!MembersListThemselves, P!InvitedHaveJoined

LEMMA ArriveStep ==
  ASSUME GroupInv, NEW m \in wire, P!ArriveLate(m)
  PROVE  GroupInv'
<1>1. /\ m \in P!Posts /\ m.from \in Members /\ m.to \in Members /\ m.body \in P!Bodies /\ m.from # m.to
      /\ m.body.type = "joined" => m.to \in m.body.members
  BY DEF GroupInv, GroupTypes, P!Posts, TellsListed
<1>2. P!Receive(m.to, m.from, m.body) /\ wire' = wire \ {m} /\ UNCHANGED <<op, links, up, invited, faulty>>
  BY DEF P!ArriveLate
<1>3. groups' \in [Members -> Group] /\ joined \subseteq joined' /\ P!MembersListThemselves'
  BY <1>1, <1>2, Receives
<1>4. GroupTypes'
  BY <1>2, <1>3 DEF GroupInv, GroupTypes
<1>5. TellsListed'
  BY <1>2, <1>3 DEF GroupInv, TellsListed, Telling, NoOp
<1>6. P!InvitedHaveJoined'
  BY <1>2, <1>3 DEF GroupInv, P!InvitedHaveJoined
<1>7. faulty'
  BY <1>2 DEF GroupInv, Agreeing
<1> QED BY <1>3, <1>4, <1>5, <1>6, <1>7 DEF GroupInv

-----------------------------------------------------------------------------
(* Operations begin.                                                        *)

(* a goes from Idle to e; overlapping operations are marked.                *)
Begins(a, e) ==
  /\ NoOp(a) /\ e \in Operation /\ op' = [op EXCEPT ![a] = e]
  /\ e.targets \subseteq Members \ {a} /\ (e.kind = "notify" => e.targets \subseteq e.members)
  /\ (e.kind = "invite" => e.targets \subseteq {e.peer} /\ ~e.ok)
  /\ faulty' \in BOOLEAN /\ (~faulty' => ~faulty /\ \A b \in Members \ {a} : NoOp(b))
  /\ UNCHANGED <<links, wire, up, invited>> /\ joined \subseteq joined'

LEMMA BeginsWell ==
  ASSUME GroupInv, NEW a \in Members, NEW e, Begins(a, e), groups' \in [Members -> Group]
  PROVE  /\ GroupTypes' /\ TellsListed' /\ P!InvitedHaveJoined' /\ op'[a] = e
         /\ ~faulty' => /\ ~faulty /\ \A b \in Joined : groups[b].members = Joined
                        /\ \A b \in Members \ {a} : NoOp(b)'
                        /\ ~NoOp(a)' /\ up' = Members /\ wire' = {}
<1>1. /\ GroupTypes /\ TellsListed /\ op' = [op EXCEPT ![a] = e] /\ e \in Operation
  BY DEF GroupInv, Begins
<1>2. op' \in [Members -> Operation \cup {P!Idle}] /\ op'[a] = e /\ \A x \in Members : x # a => op'[x] = op[x]
  BY <1>1, OpOnly
<1>3. GroupTypes'
  BY <1>1, <1>2 DEF GroupTypes, Begins
<1>4. TellsListed'
  BY <1>1, <1>2 DEF TellsListed, Telling, NoOp, Begins
<1>5. P!InvitedHaveJoined'
  BY DEF GroupInv, P!InvitedHaveJoined, Begins
<1>6. ASSUME ~faulty'
      PROVE  /\ ~faulty /\ \A b \in Joined : groups[b].members = Joined
             /\ \A b \in Members \ {a} : NoOp(b)'
             /\ ~NoOp(a)' /\ up' = Members /\ wire' = {}
  <2>1. Agreeing /\ ~faulty /\ \A b \in Members : NoOp(b)
    BY <1>6 DEF Begins, GroupInv
  <2> QED BY <1>1, <1>2, <2>1, IdleIsNone DEF Agreeing, NoOp, Begins
<1> QED BY <1>2, <1>3, <1>4, <1>5, <1>6

LEMMA GroupFields ==
  ASSUME GroupTypes, NEW a \in Members
  PROVE  groups[a].in \in BOOLEAN /\ groups[a].members \in SUBSET Members /\ groups[a].gen \in Nat
BY DEF GroupTypes, Group

LEMMA InviteStep ==
  ASSUME GroupInv, NEW a \in Members, NEW p \in Members, P!Invite(a, p)
  PROVE  GroupInv'
<1> DEFINE e == Op("invite", {p}, groups[a].members, p, groups[a].gen)
<1>1. groups[a].members \in SUBSET Members /\ groups[a].gen \in Nat /\ GroupTypes
  BY GroupFields DEF GroupInv
<1>2. /\ e \in Operation /\ e.kind = "invite" /\ e.targets = {p} /\ e.members = groups[a].members /\ e.peer = p
      /\ e.gen = groups[a].gen /\ ~e.ok
  BY <1>1, OpIs
<1>3. /\ op' = [op EXCEPT ![a] = e] /\ NoOp(a) /\ groups[a].in /\ p # a
      /\ faulty' = (faulty \/ P!Overlaps(a) \/ groups[p].in) /\ UNCHANGED <<groups, links, wire, up, joined, invited>>
  BY DEF P!Invite, P!Run, P!Begin, NoOp, Op
<1> HIDE DEF e
<1>5. Begins(a, e)
  BY <1>1, <1>2, <1>3, GroupFields DEF Begins, P!Overlaps, NoOp, GroupTypes
<1>6. /\ GroupTypes' /\ TellsListed' /\ P!InvitedHaveJoined' /\ op'[a] = e
      /\ ~faulty' => /\ ~faulty /\ \A b \in Joined : groups[b].members = Joined
                     /\ \A b \in Members \ {a} : NoOp(b)'
                     /\ ~NoOp(a)' /\ up' = Members /\ wire' = {}
  BY <1>1, <1>3, <1>5, BeginsWell DEF GroupTypes
<1>7. ASSUME ~faulty' PROVE Agreeing'
  <2>1. ~groups[p].in /\ groups' = groups /\ a \in Joined /\ p \notin Joined
    BY <1>3, <1>7 DEF Joined
  <2>2. Inviting(a)'
    BY <1>2, <1>6, <1>7, <2>1 DEF Inviting, Joined
  <2> QED BY <1>2, <1>3, <1>6, <1>7, <2>2 DEF Agreeing, Midway
<1> QED BY <1>3, <1>6, <1>7 DEF GroupInv, P!MembersListThemselves

(* leave_group and group_send post to all the others.                       *)
LEMMA LeaveOrSendStep ==
  ASSUME GroupInv, NEW a \in Members, P!LeaveGroup(a) \/ P!GroupSend(a)
  PROVE  GroupInv'
<1>0. PICK k \in {"leave", "send"} :
        /\ P!Begin(a) /\ groups[a].in /\ P!Run(a, k, groups[a].members \ {a}, {}, a)
        /\ faulty' = (faulty \/ P!Overlaps(a)) /\ UNCHANGED <<groups, links, wire, up, joined, invited>>
  BY DEF P!LeaveGroup, P!GroupSend
<1> DEFINE e == Op(k, groups[a].members \ {a}, {}, a, groups[a].gen)
<1>1. groups[a].members \in SUBSET Members /\ groups[a].gen \in Nat /\ GroupTypes
  BY GroupFields DEF GroupInv
<1>2. /\ e \in Operation /\ e.kind = k /\ e.targets = groups[a].members \ {a}
  BY <1>1, OpIs
<1>3. op' = [op EXCEPT ![a] = e] /\ NoOp(a)
  BY <1>0 DEF P!Run, P!Begin, NoOp, Op
<1> HIDE DEF e
<1>5. Begins(a, e)
  BY <1>0, <1>1, <1>2, <1>3 DEF Begins, P!Overlaps, NoOp, GroupTypes
<1>6. /\ GroupTypes' /\ TellsListed' /\ P!InvitedHaveJoined' /\ op'[a] = e
      /\ ~faulty' => /\ ~faulty /\ \A b \in Joined : groups[b].members = Joined
                     /\ \A b \in Members \ {a} : NoOp(b)'
                     /\ ~NoOp(a)' /\ up' = Members /\ wire' = {}
  BY <1>0, <1>1, <1>5, BeginsWell DEF GroupTypes
<1>7. ASSUME ~faulty' PROVE Agreeing'
  <2>1. groups[a].members = Joined /\ a \in Joined /\ op'[a].targets = Joined \ {a} /\ Joined' = Joined
    BY <1>0, <1>2, <1>6, <1>7 DEF Joined
  <2>2. Leaving(a)' /\ Sending(a)'
    BY <1>0, <1>6, <1>7, <2>1 DEF Leaving, Sending
  <2> QED BY <1>0, <1>2, <1>6, <1>7, <2>2 DEF Agreeing, Midway
<1> QED BY <1>0, <1>6, <1>7 DEF GroupInv, P!MembersListThemselves

LEMMA MakeLinkStep ==
  ASSUME GroupInv, NEW a \in Members, P!MakeLink(a)
  PROVE  GroupInv'
<1>1. GroupTypes /\ groups[a].members \in SUBSET Members
  BY GroupFields DEF GroupInv
<1>2. links' = links \cup {groups[a].members} /\ UNCHANGED <<groups, op, wire, up, joined, invited, faulty>>
  BY DEF P!MakeLink, P!history
<1>3. GroupTypes'
  BY <1>1, <1>2 DEF GroupTypes
<1> QED BY <1>2, <1>3 DEF GroupInv, TellsListed, Telling, NoOp, P!MembersListThemselves, P!InvitedHaveJoined,
           Agreeing, Midway, Joined, Inviting, Invited, Notifying, Leaving, Sending

LEMMA JoinStep ==
  ASSUME GroupInv, NEW a \in Members, NEW link \in links, P!JoinGroup(a, link)
  PROVE  GroupInv'
<1> DEFINE m == link \cup {a}
           g == [in |-> TRUE, members |-> m, gen |-> groups[a].gen + 1]
           e == Op("notify", m \ {a}, m, a, groups[a].gen + 1)
<1>1. link \in SUBSET Members /\ groups[a].gen + 1 \in Nat /\ GroupTypes /\ m \in SUBSET Members
  BY GroupFields DEF GroupInv, GroupTypes
<1>2. /\ e \in Operation /\ e.kind = "notify" /\ e.targets = m \ {a} /\ e.members = m
  <2> HIDE DEF m
  <2> QED BY <1>1, OpIs
<1>3. g \in Group /\ g.in /\ g.members = m
  <2> HIDE DEF m
  <2> QED BY <1>1 DEF Group
<1>4. /\ op' = [op EXCEPT ![a] = e] /\ groups' = [groups EXCEPT ![a] = g] /\ NoOp(a)
      /\ joined \subseteq joined' /\ UNCHANGED <<links, wire, up, invited>>
      /\ faulty' = (faulty \/ P!Overlaps(a) \/ groups[a].in \/ link # Joined)
  BY <1>1 DEF P!JoinGroup, P!Begin, NoOp, Op, GroupTypes, Joined
<1> HIDE DEF e, g
<1>5. groups' \in [Members -> Group] /\ groups'[a] = g /\ \A x \in Members : x # a => groups'[x] = groups[x]
  BY <1>1, <1>3, <1>4, GroupOnly
<1>6. Begins(a, e)
  <2>1. faulty' \in BOOLEAN
    BY <1>1, <1>4, GroupFields DEF P!Overlaps, NoOp, GroupTypes
  <2>2. ~faulty' => ~faulty /\ \A x \in Members \ {a} : NoOp(x)
    BY <1>4 DEF P!Overlaps, NoOp
  <2>3. e.targets \subseteq Members \ {a} /\ e.targets \subseteq e.members
    BY <1>1, <1>2
  <2> QED BY <1>2, <1>4, <2>1, <2>2, <2>3 DEF Begins
<1>7. /\ GroupTypes' /\ TellsListed' /\ P!InvitedHaveJoined' /\ op'[a] = e
      /\ ~faulty' => /\ ~faulty /\ \A x \in Joined : groups[x].members = Joined
                     /\ \A x \in Members \ {a} : NoOp(x)'
                     /\ ~NoOp(a)' /\ up' = Members /\ wire' = {}
  BY <1>5, <1>6, BeginsWell
<1>8. ASSUME ~faulty' PROVE Agreeing'
  <2>1. Joined' = Joined \cup {a} /\ m = Joined \cup {a} /\ a \notin Joined
    BY <1>3, <1>4, <1>5, <1>7, <1>8 DEF Joined
  <2>2. Notifying(a)'
    BY <1>2, <1>3, <1>5, <1>7, <2>1 DEF Notifying
  <2> QED BY <1>2, <1>3, <1>5, <1>7, <1>8, <2>2 DEF Agreeing, Midway
<1>9. P!MembersListThemselves'
  BY <1>3, <1>5 DEF GroupInv, P!MembersListThemselves
<1> QED BY <1>7, <1>8, <1>9 DEF GroupInv

-----------------------------------------------------------------------------
(* Operations end.                                                          *)

(* a is idle then, and the groups are what they are.                        *)
LEMMA EndsWell ==
  ASSUME GroupInv, NEW a \in Members, op' = [op EXCEPT ![a] = P!Idle], groups' \in [Members -> Group],
         UNCHANGED <<links, wire, up, invited, joined, faulty>>, ~NoOp(a)
  PROVE  /\ GroupTypes' /\ TellsListed' /\ P!InvitedHaveJoined'
         /\ ~faulty' => /\ Midway(a)
                        /\ (\A b \in Joined' : groups'[b].members = Joined') => Agreeing'
<1>1. GroupTypes /\ TellsListed
  BY DEF GroupInv
<1>2. op' \in [Members -> Operation \cup {P!Idle}] /\ op'[a] = P!Idle /\ \A x \in Members : x # a => op'[x] = op[x]
  BY <1>1, OpOnly
<1>3. GroupTypes' /\ TellsListed' /\ P!InvitedHaveJoined'
  BY <1>1, <1>2 DEF GroupTypes, TellsListed, Telling, NoOp, GroupInv, P!InvitedHaveJoined
<1>4. ASSUME ~faulty' PROVE Midway(a) /\ ((\A b \in Joined' : groups'[b].members = Joined') => Agreeing')
  <2>1. Agreeing /\ Midway(a)
    BY <1>4 DEF GroupInv, Agreeing
  <2>2. \A x \in Members : NoOp(x)'
    BY <1>2, <2>1 DEF Midway, NoOp
  <2> QED BY <2>1, <2>2 DEF Agreeing
<1> QED BY <1>3, <1>4

LEMMA DoneStep ==
  ASSUME GroupInv, NEW a \in Members, P!Done(a)
  PROVE  GroupInv'
<1>1. /\ op[a].kind \in {"notify", "send"} /\ op[a].targets = {} /\ op' = [op EXCEPT ![a] = P!Idle]
      /\ UNCHANGED <<groups, links, wire, up, joined, invited, faulty>> /\ groups \in [Members -> Group]
  BY DEF P!Done, P!history, GroupInv, GroupTypes
<1>2. ~NoOp(a)
  BY <1>1, OpTyped DEF GroupInv
<1>3. /\ GroupTypes' /\ TellsListed' /\ P!InvitedHaveJoined'
      /\ ~faulty' => /\ Midway(a)
                     /\ (\A b \in Joined' : groups'[b].members = Joined') => Agreeing'
  BY <1>1, <1>2, EndsWell
<1>4. ASSUME ~faulty' PROVE \A b \in Joined' : groups'[b].members = Joined'
  BY <1>1, <1>3, <1>4 DEF Midway, Notifying, Sending, Joined
<1> QED BY <1>1, <1>3, <1>4 DEF GroupInv, P!MembersListThemselves

LEMMA LeaveDoneStep ==
  ASSUME GroupInv, NEW a \in Members, P!LeaveDone(a)
  PROVE  GroupInv'
<1> DEFINE g == P!NoGroup(groups[a].gen)
<1>1. /\ op[a].kind = "leave" /\ op[a].targets = {} /\ op' = [op EXCEPT ![a] = P!Idle]
      /\ UNCHANGED <<links, wire, up, joined, invited, faulty>> /\ GroupTypes
      /\ groups' = [groups EXCEPT ![a] = g]
  BY DEF P!LeaveDone, P!history, GroupInv, GroupTypes
<1>2. ~NoOp(a) /\ groups[a].gen \in Nat
  BY <1>1, OpTyped, GroupFields DEF GroupInv
<1>3. g \in Group /\ ~g.in
  BY <1>2 DEF P!NoGroup, Group
<1> HIDE DEF g
<1>4. groups' \in [Members -> Group] /\ groups'[a] = g /\ \A x \in Members : x # a => groups'[x] = groups[x]
  BY <1>1, <1>3, GroupOnly
<1>5. /\ GroupTypes' /\ TellsListed' /\ P!InvitedHaveJoined'
      /\ ~faulty' => /\ Midway(a)
                     /\ (\A b \in Joined' : groups'[b].members = Joined') => Agreeing'
  BY <1>1, <1>2, <1>4, EndsWell
<1>6. Joined' = Joined \ {a}
  BY <1>3, <1>4 DEF Joined
<1>7. ASSUME ~faulty' PROVE \A b \in Joined' : groups'[b].members = Joined'
  <2>1. Leaving(a)
    BY <1>1, <1>5, <1>7 DEF Midway
  <2> QED BY <1>1, <1>4, <1>6, <2>1 DEF Leaving, Joined
<1>8. P!MembersListThemselves'
  BY <1>3, <1>4 DEF GroupInv, P!MembersListThemselves
<1> QED BY <1>5, <1>7, <1>8 DEF GroupInv

LEMMA NotInvitedStep ==
  ASSUME GroupInv, NEW a \in Members, P!InviteDone(a), ~op[a].ok
  PROVE  GroupInv'
<1>1. /\ op[a].kind = "invite" /\ op[a].targets = {} /\ op' = [op EXCEPT ![a] = P!Idle]
      /\ UNCHANGED <<groups, links, wire, up, joined, invited, faulty>> /\ groups \in [Members -> Group]
  BY DEF P!InviteDone, GroupInv, GroupTypes
<1>2. ~NoOp(a)
  BY <1>1, OpTyped DEF GroupInv
<1>3. /\ GroupTypes' /\ TellsListed' /\ P!InvitedHaveJoined'
      /\ ~faulty' => Midway(a)
  BY <1>1, <1>2, EndsWell
<1>4. faulty'
  BY <1>1, <1>3 DEF Midway, Invited
<1> QED BY <1>1, <1>3, <1>4 DEF GroupInv, P!MembersListThemselves

LEMMA InvitedStep ==
  ASSUME GroupInv, NEW a \in Members, P!InviteDone(a), op[a].ok
  PROVE  GroupInv'
<1>t. GroupTypes /\ TellsListed /\ op[a].kind = "invite" /\ op[a].targets = {} /\ ~NoOp(a)
  BY OpTyped DEF GroupInv, P!InviteDone
<1>o. op[a] \in Operation /\ Telling(a)
  BY <1>t, OpTyped DEF TellsListed
<1> DEFINE p == op[a].peer
           m == (IF P!Own(a) THEN groups[a].members ELSE op[a].members) \cup {p}
           e == Op("notify", m \ {a, p}, m, p, groups[a].gen)
           g == [groups[a] EXCEPT !.members = m]
<1>1. p \in Members /\ m \in SUBSET Members /\ groups[a].gen \in Nat /\ groups[a] \in Group /\ p \in joined
  BY <1>t, <1>o, GroupFields DEF Operation, GroupTypes, Telling
<1>2. /\ op' = [op EXCEPT ![a] = e] /\ invited' = invited \cup {<<a, p>>}
      /\ groups' = IF P!Own(a) THEN [groups EXCEPT ![a] = g] ELSE groups
      /\ UNCHANGED <<links, wire, up, joined, faulty>>
  BY DEF P!InviteDone, P!Run, Op
<1> HIDE DEF p, m
<1>3. e \in Operation /\ e.kind = "notify" /\ e.targets = m \ {a, p} /\ e.members = m
  BY <1>1, OpIs
<1>4. g \in Group /\ g.members = m /\ g.in = groups[a].in
  BY <1>1 DEF Group
<1> HIDE DEF e, g
<1>5. /\ op' \in [Members -> Operation \cup {P!Idle}] /\ op'[a] = e
      /\ \A x \in Members : x # a => op'[x] = op[x]
  BY <1>t, <1>2, <1>3, OpOnly
<1>6. /\ groups' \in [Members -> Group] /\ \A x \in Members : x # a => groups'[x] = groups[x]
      /\ groups'[a] = IF P!Own(a) THEN g ELSE groups[a]
  BY <1>t, <1>2, <1>4, GroupOnly DEF GroupTypes
<1>7. GroupTypes'
  BY <1>t, <1>2, <1>5, <1>6 DEF GroupTypes
<1>8. TellsListed'
  <2>1. Telling(a)'
    BY <1>1, <1>3, <1>5 DEF Telling
  <2>2. ASSUME NEW x \in Members, x # a, ~NoOp(x)' PROVE Telling(x)'
    <3>1. Telling(x) /\ op'[x] = op[x]
      BY <1>t, <1>5, <2>2 DEF TellsListed, NoOp
    <3> QED BY <1>2, <3>1 DEF Telling
  <2> QED BY <1>t, <1>2, <2>1, <2>2 DEF TellsListed
<1>9. P!InvitedHaveJoined'
  BY <1>1, <1>2 DEF GroupInv, P!InvitedHaveJoined
<1>10. P!MembersListThemselves'
  BY <1>4, <1>6 DEF GroupInv, P!MembersListThemselves, P!Own, m
<1>11. ASSUME ~faulty' PROVE Agreeing'
  <2>1. Agreeing /\ Midway(a)
    BY <1>t, <1>2, <1>11 DEF GroupInv, Agreeing
  <2>2. Invited(a) /\ groups[a].in /\ P!Own(a)
    BY <1>t, <2>1 DEF Midway, Invited, P!Own
  <2>3. Joined' = Joined /\ a \in Joined /\ p \in Joined /\ p # a
    BY <1>4, <1>6, <2>2 DEF Joined, Invited, p
  <2>4. m = Joined
    BY <2>2, <2>3 DEF Invited, p, m
  <2>n. groups'[a].members = Joined' /\ groups'[p].members = Joined' /\ op'[a].members = Joined'
        /\ op'[a].targets = Joined' \ {a, p}
    <3>1. groups[p].members = Joined /\ groups'[p] = groups[p]
      BY <1>1, <1>6, <2>2, <2>3 DEF Invited, p
    <3> QED BY <1>3, <1>4, <1>5, <1>6, <2>2, <2>3, <2>4, <3>1
  <2>5. Notifying(a)'
    <3>1. \A b \in Joined' \ op'[a].targets : b = a \/ b = op[a].peer
      BY <2>n DEF p
    <3> QED BY <2>n, <3>1 DEF Notifying, p
  <2>6. groups'[a].in /\ op'[a].kind = "notify" /\ \A x \in Members \ {a} : NoOp(x)'
    BY <1>3, <1>4, <1>5, <1>6, <2>1, <2>2 DEF Midway, NoOp
  <2>7. ~NoOp(a)'
    BY <1>3, <1>5, IdleIsNone DEF NoOp
  <2> QED BY <1>2, <2>1, <2>5, <2>6, <2>7 DEF Agreeing, Midway
<1> QED BY <1>7, <1>8, <1>9, <1>10, <1>11 DEF GroupInv

-----------------------------------------------------------------------------
(* The groups as a part of the run.                                         *)

LEMMA GroupInit == P!Init => GroupInv
<1> SUFFICES ASSUME P!Init PROVE GroupInv
  OBVIOUS
<1> DEFINE G(a) == IF a = Founder THEN [in |-> TRUE, members |-> {a}, gen |-> 0] ELSE P!NoGroup(0)
<1>1. /\ groups = [a \in Members |-> G(a)] /\ op = [a \in Members |-> P!Idle]
      /\ links = {} /\ wire = {} /\ up = Members /\ invited = {} /\ faulty = FALSE
  BY DEF P!Init
<1>2. \A a \in Members : G(a) \in Group /\ (G(a).in <=> a = Founder) /\ (a = Founder => G(a).members = {Founder})
  BY DEF P!NoGroup, Group
<1> HIDE DEF G
<1>3. GroupTypes
  BY <1>1, <1>2 DEF GroupTypes
<1>4. \A a \in Members : NoOp(a) /\ groups[a] = G(a)
  BY <1>1 DEF NoOp
<1>5. Joined = {Founder}
  BY <1>2, <1>4, RelaysAssumption DEF Joined
<1>6. Agreeing
  BY <1>1, <1>2, <1>4, <1>5, RelaysAssumption DEF Agreeing
<1>7. P!MembersListThemselves /\ P!InvitedHaveJoined
  BY <1>1, <1>2, <1>4 DEF P!MembersListThemselves, P!InvitedHaveJoined
<1> QED BY <1>1, <1>3, <1>4, <1>6, <1>7 DEF GroupInv, TellsListed

LEMMA GroupStep ==
  ASSUME GroupInv, P!Next
  PROVE  GroupInv'
<1>1. ASSUME NEW a \in Members, P!Stop(a) PROVE GroupInv'
  <2>1. UNCHANGED <<groups, op, links, wire, joined, invited>> /\ faulty'
    BY <1>1 DEF P!Stop
  <2> QED BY <2>1 DEF GroupInv, GroupTypes, TellsListed, Telling, NoOp, P!MembersListThemselves, P!InvitedHaveJoined
<1>2. ASSUME NEW a \in Members, P!InviteDone(a) PROVE GroupInv'
  BY <1>2, NotInvitedStep, InvitedStep
<1>3. ASSUME NEW a \in Members, NEW t \in Members, \/ P!PostAnswered(a, t) \/ P!PostRefused(a, t) \/ P!PostLate(a, t)
                                                   \/ P!Invite(a, t)
      PROVE  GroupInv'
  BY <1>3, AnsweredStep, UnansweredStep, InviteStep
<1>4. ASSUME NEW a \in Members, P!LeaveGroup(a) \/ P!LeaveDone(a) \/ P!GroupSend(a) \/ P!Done(a) PROVE GroupInv'
  BY <1>4, LeaveOrSendStep, LeaveDoneStep, DoneStep
<1>5. ASSUME NEW m \in wire, P!ArriveLate(m) PROVE GroupInv'
  BY <1>5, ArriveStep
<1>6. ASSUME NEW a \in Members, NEW link \in links, P!JoinGroup(a, link) PROVE GroupInv'
  BY <1>6, JoinStep
<1>7. ASSUME NEW a \in Members, P!MakeLink(a) PROVE GroupInv'
  BY <1>7, MakeLinkStep
<1> QED BY <1>1, <1>2, <1>3, <1>4, <1>5, <1>6, <1>7 DEF P!Next

(* However many members invite, join, leave and send: an agent in the group *)
(* is on its own list and whom invite answered True has joined, whatever    *)
(* comes late or never; and when operations do not overlap, no post is lost *)
(* and nobody joins by a link older than the list, the lists agree whenever *)
(* nothing is under way.                                                    *)
THEOREM GroupsHold ==
  SpecAll => []GroupsAgree
PROOF
<1> DEFINE Inv == part = "groups" => GroupInv
<1>1. InitAll => Inv
  BY GroupInit DEF InitAll
<1>2. Inv /\ [NextAll]_<<part, relayVars, vars, groupsVars, signalVars, federationVars, sdkVars, lanVars>> => Inv'
  <2> SUFFICES ASSUME part = "groups" => GroupInv, part' = "groups",
                      [NextAll]_<<part, relayVars, vars, groupsVars, signalVars, federationVars, sdkVars, lanVars>>
               PROVE  GroupInv'
    OBVIOUS
  <2>1. CASE Groups
    BY <2>1, GroupStep DEF Groups
  <2>2. CASE UNCHANGED <<part, groupsVars>>
    BY <2>2 DEF groupsVars, GroupInv, GroupTypes, TellsListed, Telling, NoOp, P!MembersListThemselves,
                P!InvitedHaveJoined, Agreeing, Midway, Joined, Inviting, Invited, Notifying, Leaving, Sending
  <2> QED BY <2>1, <2>2 DEF NextAll, GatewayStep, Signal, Relay, Federation, Sdk, Lan
<1>3. GroupInv => P!MembersListThemselves /\ P!InvitedHaveJoined /\ P!ListsAgree
  BY DEF GroupInv, Agreeing, Joined, NoOp, P!ListsAgree
<1>4. Inv => GroupsAgree
  BY <1>3 DEF GroupsAgree
<1> QED BY <1>1, <1>2, <1>4, PTL DEF SpecAll
=============================================================================
