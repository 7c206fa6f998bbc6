----------------------------- MODULE Attribution -----------------------------
(***************************************************************************)
(* Whose frame is it?  _on_message of acp_relay.py is given a frame and    *)
(* not the connection it came over: cards, counters, typing states and     *)
(* acknowledgements are given to the peer whose name is in the frame, or   *)
(* to a guess.  The registry (on_guest, guest_mode, _register_peer,        *)
(* _unregister_peer) and the receipts of POST /message:send are modelled   *)
(* as far as that takes.                                                   *)
(*                                                                         *)
(* A link is one connection of an agent: a guest that comes again has      *)
(* another link and another entry, a dialled peer keeps its entry.  Frames *)
(* are read by the event loop, one at a time; HTTP threads interleave.     *)
(***************************************************************************)
EXTENDS Naturals, Sequences, FiniteSets, FiniteSetsExt

CONSTANTS
  Links,      \* connections
  Agents,     \* names of agents
  AgentOf,    \* the agent at the other end of each
  Dialled,    \* those this relay dials
  Threads,    \* of POST /message:send
  None,
  MaxFrames,  \* bound: frames of the others, cards apart
  MaxBreaks,  \* bound: links that break, or are taken for broken
  MaxSends    \* bound: calls of POST /message:send

VARIABLES
  order,      \* the links of the entries of _peers, in its order
  entry,      \* the entry of each link: up, agent_name, name, agent_card, ...
  alive,      \* links whose reader runs
  clock,      \* for connected_at
  wire,       \* frames of each link not read yet
  total,      \* _status["messages_delivered"]
  lastRecv,   \* _status["last_received_message_id"]: the message, or None
  acks,       \* acp.delivered and acp.ack: for a message of a link, sent on which
  sender,     \* POST /message:send at its read receipt
  receipts,   \* acp.read sent: messages, in order
  \* history
  got,        \* business messages of each agent read
  typed,      \* each agent's last acp.typing read
  overlap,    \* a guest connected while another had not given its name
  cut,        \* an entry was taken for dead while its reader ran
  doubtful,   \* two sent a read receipt at once, or one went out too late
  frames, breaks, sends

registry == <<order, entry, alive, clock>>
threads == <<sender, receipts, doubtful, sends>>
counted == <<got, typed>>
vars == <<registry, wire, total, lastRecv, acks, threads, counted, overlap, cut, frames, breaks>>

Kinds == {"card", "msg", "delivered", "typing", "still"}
(* A message is the link it came over and the count of its agent.           *)
Message == Links \X (1 .. MaxFrames)
Fresh == [up |-> FALSE, agent |-> None, card |-> None, at |-> 0,
          received |-> 0, delivered |-> 0, typing |-> FALSE]

Init ==
  /\ order = <<>> /\ entry = [l \in Links |-> Fresh] /\ alive = {} /\ clock = 0
  /\ wire = [l \in Links |-> <<>>]
  /\ total = 0 /\ lastRecv = None /\ acks = {}
  /\ sender = [h \in Threads |-> [at |-> "off", msg |-> None]] /\ receipts = <<>>
  /\ got = [a \in Agents |-> 0] /\ typed = [a \in Agents |-> FALSE]
  /\ overlap = FALSE /\ cut = FALSE /\ doubtful = FALSE
  /\ frames = 0 /\ breaks = 0 /\ sends = 0

Known == {order[i] : i \in DOMAIN order}
Place(l) == CHOOSE i \in DOMAIN order : order[i] = l
FirstOf(ls) == CHOOSE l \in ls : \A k \in ls : Place(l) <= Place(k)
Up == {l \in Known : entry[l].up}

-----------------------------------------------------------------------------
(* Connections.                                                             *)

(* A guest, or a link dialled for the first time, gets an entry of its own; *)
(* the other side introduces itself.  No two connect in one millisecond.     *)
Nameless == {l \in Up : entry[l].agent = None}

Connect(l) ==
  /\ l \notin Known
  /\ order' = Append(order, l) /\ alive' = alive \cup {l}
  /\ clock' = clock + 1
  /\ entry' = [entry EXCEPT ![l].up = TRUE, ![l].at = clock']
  /\ wire' = [wire EXCEPT ![l] = <<"card">>]
  /\ overlap' = (overlap \/ Nameless # {})
  /\ UNCHANGED <<total, lastRecv, acks, threads, counted, cut, frames, breaks>>

(* guest_mode dials again: the entry is found by its link and keeps what it *)
(* has.                                                                     *)
Redial(l) ==
  /\ l \in Dialled \cap Known /\ l \notin alive
  /\ alive' = alive \cup {l} /\ clock' = clock + 1
  /\ entry' = [entry EXCEPT ![l].up = TRUE, ![l].at = clock']
  /\ wire' = [wire EXCEPT ![l] = <<"card">>]
  /\ overlap' = (overlap \/ (entry[l].agent = None /\ Nameless # {}))
  /\ UNCHANGED <<order, total, lastRecv, acks, threads, counted, cut, frames, breaks>>

(* The reader ends: the entry stays, without its socket.                    *)
Leave(l) ==
  /\ l \in alive /\ breaks < MaxBreaks /\ breaks' = breaks + 1
  /\ alive' = alive \ {l} /\ wire' = [wire EXCEPT ![l] = <<>>]
  /\ entry' = [entry EXCEPT ![l].up = FALSE]
  /\ UNCHANGED <<order, clock, total, lastRecv, acks, threads, counted, overlap, cut, frames>>

(* An HTTP thread whose send fails unregisters the peer; its reader goes on *)
(* with what has arrived.                                                   *)
SendFails(l) ==
  /\ l \in Up /\ breaks < MaxBreaks /\ breaks' = breaks + 1
  /\ entry' = [entry EXCEPT ![l].up = FALSE]
  /\ cut' = (cut \/ l \in alive)
  /\ UNCHANGED <<order, alive, clock, wire, total, lastRecv, acks, threads, counted, overlap, frames>>

-----------------------------------------------------------------------------
(* _on_message.  Who is meant: the first entry that has the name.           *)
Having(a) == {l \in Known : entry[l].agent = a}

(* The newest of some entries.                                              *)
Newest(ls) == CHOOSE l \in ls : \A k \in ls : entry[l].at >= entry[k].at

(* Those a new name may belong to.                                          *)
Unnamed_First == IF Up = {} THEN {} ELSE {FirstOf(Up)}
Unnamed == Nameless

Next1(l) == wire' = [wire EXCEPT ![l] = Tail(@)]

(* acp.agent_card: kept with the entry of that name; a new name goes to the *)
(* newest connected entry that has none.                                    *)
Card(l) ==
  LET a == AgentOf[l] IN
    entry' = IF Having(a) # {} THEN [entry EXCEPT ![FirstOf(Having(a))].card = l]
             ELSE IF Unnamed # {}
                  THEN [entry EXCEPT ![Newest(Unnamed)].agent = a, ![Newest(Unnamed)].card = l]
                  ELSE entry

(* Where the tally of a frame goes: the name's entry, or the only connected *)
(* one, or nowhere.                                                         *)
Credited_UpOnly(a) == IF Having(a) \cap Up # {} THEN {FirstOf(Having(a) \cap Up)} ELSE {}
Credited(a) ==
  IF Having(a) # {} THEN {FirstOf(Having(a))} ELSE IF Cardinality(Up) = 1 THEN Up ELSE {}

(* A business message also names an unnamed entry, and is acknowledged on   *)
(* the socket of the first connected entry that has the name; the fallback  *)
(* for a name nobody has is never set (324, 6842).                          *)
Told_AnyUp(e, a) == Up
Told(e, a) == {l \in Up : e[l].agent = a}

Msg(l) ==
  LET a == AgentOf[l]
      names == Having(a) = {} /\ Unnamed # {}
      to == IF names THEN {Newest(Unnamed)} ELSE Credited(a)
      e == [k \in Links |-> IF k \notin to THEN entry[k]
              ELSE [entry[k] EXCEPT !.received = @ + 1, !.agent = IF names THEN a ELSE @]]
      m == <<l, got[a] + 1>>
  IN /\ entry' = e
     /\ lastRecv' = m /\ got' = [got EXCEPT ![a] = @ + 1]
     /\ acks' = acks \cup {[msg |-> m, on |-> IF Told(e, a) = {} THEN None ELSE FirstOf(Told(e, a))]}

(* acp.delivered and acp.read, which is counted in the same way.            *)
Delivered(l) ==
  /\ total' = total + 1
  /\ entry' = [k \in Links |-> IF k \in Credited(AgentOf[l])
                                 THEN [entry[k] EXCEPT !.delivered = @ + 1] ELSE entry[k]]

(* acp.typing, of the start or the end of it.                               *)
Typing(l, on) ==
  /\ entry' = [k \in Links |-> IF k \in Credited(AgentOf[l])
                                 THEN [entry[k] EXCEPT !.typing = on] ELSE entry[k]]
  /\ typed' = [typed EXCEPT ![AgentOf[l]] = on]

Read(l) ==
  /\ l \in alive /\ wire[l] # <<>> /\ Next1(l)
  /\ LET f == Head(wire[l]) IN
       \/ f = "card" /\ Card(l) /\ UNCHANGED <<total, lastRecv, acks, counted>>
       \/ f = "msg" /\ Msg(l) /\ UNCHANGED <<total, typed>>
       \/ f = "delivered" /\ Delivered(l) /\ UNCHANGED <<lastRecv, acks, counted>>
       \/ f = "typing" /\ Typing(l, TRUE) /\ UNCHANGED <<total, lastRecv, acks, got>>
       \/ f = "still" /\ Typing(l, FALSE) /\ UNCHANGED <<total, lastRecv, acks, got>>
  /\ UNCHANGED <<order, alive, clock, threads, overlap, cut, frames, breaks>>

(* The agent at the other end sends something, after its card.              *)
Send(l) ==
  /\ l \in alive /\ frames < MaxFrames /\ frames' = frames + 1
  /\ \E f \in Kinds \ {"card"} : wire' = [wire EXCEPT ![l] = Append(@, f)]
  /\ UNCHANGED <<registry, total, lastRecv, acks, threads, counted, overlap, cut, breaks>>

-----------------------------------------------------------------------------
(* POST /message:send: after its own message the thread sends an acp.read   *)
(* for the message received last, and clears that.                          *)
Look(h) ==
  /\ sender[h].at = "off" /\ sends < MaxSends /\ sends' = sends + 1
  /\ lastRecv # None /\ Up # {}
  /\ sender' = [sender EXCEPT ![h] = [at |-> "receipt", msg |-> lastRecv]]
  /\ doubtful' = (doubtful \/ \E k \in Threads : sender[k].at # "off")
  /\ UNCHANGED <<registry, wire, total, lastRecv, acks, receipts, counted, overlap, cut, frames, breaks>>

(* The frame is on its way, or the three seconds are over.                  *)
Receipt(h) ==
  /\ sender[h].at = "receipt"
  /\ \/ /\ sender' = [sender EXCEPT ![h].at = "clear"]
        /\ receipts' = Append(receipts, sender[h].msg)
        /\ UNCHANGED doubtful
     \/ /\ sender' = [sender EXCEPT ![h] = [at |-> "off", msg |-> None]]
        /\ \/ UNCHANGED <<receipts, doubtful>>
           \/ receipts' = Append(receipts, sender[h].msg) /\ doubtful' = TRUE
  /\ UNCHANGED <<registry, wire, total, lastRecv, acks, sends, counted, overlap, cut, frames, breaks>>

Cleared_Never(h) == lastRecv
Cleared(h) == None

Clear(h) ==
  /\ sender[h].at = "clear"
  /\ lastRecv' = Cleared(h)
  /\ sender' = [sender EXCEPT ![h] = [at |-> "off", msg |-> None]]
  /\ UNCHANGED <<registry, wire, total, acks, receipts, doubtful, sends, counted, overlap, cut, frames, breaks>>

Next ==
  \/ \E l \in Links : Connect(l) \/ Redial(l) \/ Leave(l) \/ SendFails(l) \/ Read(l) \/ Send(l)
  \/ \E h \in Threads : Look(h) \/ Receipt(h) \/ Clear(h)

Spec == Init /\ [][Next]_vars

TypeOK ==
  /\ order \in Seq(Links) /\ alive \subseteq Known
  /\ \A l \in Links :
       /\ entry[l].agent \in Agents \cup {None} /\ entry[l].card \in Links \cup {None}
       /\ entry[l].up => l \in Known
       /\ wire[l] \in Seq(Kinds)
  /\ lastRecv \in Message \cup {None} /\ receipts \in Seq(Message)
  /\ \A x \in acks : x.msg \in Message /\ x.on \in Links \cup {None}
  /\ \A h \in Threads : sender[h].at \in {"off", "receipt", "clear"}

Certain == ~overlap /\ ~cut

(* While every guest has introduced itself before the next connects, and no *)
(* reader outlives its entry, a name and a card are with an entry of the    *)
(* agent whose they are, though the handler is not told the connection      *)
(* (5866-5891, 6141-6148).                                                  *)
NamesAreTheirs ==
  Certain => \A l \in Links :
    /\ entry[l].agent \in {None, AgentOf[l]}
    /\ entry[l].card # None => AgentOf[entry[l].card] = AgentOf[l]

(* Then the messages of an agent are all counted, once, with its entries,   *)
(* it is shown as typing when it is, and every receipt is counted with some *)
(* entry (6005-6063, 6131-6155).                                            *)
FramesAreCredited ==
  Certain =>
    /\ MapThenSumSet(LAMBDA l : entry[l].delivered, Links) = total
    /\ \A a \in Agents :
         LET E == {l \in Links : AgentOf[l] = a} IN
           /\ MapThenSumSet(LAMBDA l : entry[l].received, E) = got[a]
           /\ typed[a] = \E l \in E : entry[l].typing

(* Then a message is acknowledged on the connection it came over, unless    *)
(* its agent has been connected before and is looked for in its old entry   *)
(* (6174-6184, 6203-6211).                                                  *)
AcksGoBack ==
  Certain => \A x \in acks :
    \/ x.on = x.msg[1]
    \/ \E k \in Known \ {x.msg[1]} : AgentOf[k] = AgentOf[x.msg[1]]

(* A message is receipted as read at most once, unless two threads were at  *)
(* it at once or one gave up a send that went out (12262-12284).            *)
ReceiptOnce ==
  ~doubtful => \A i, j \in DOMAIN receipts : receipts[i] = receipts[j] => i = j
=============================================================================
