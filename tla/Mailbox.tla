-------------------------------- MODULE Mailbox --------------------------------
(* What two relays promise the clients that send through them: mailboxes    *)
(* that get messages in the order they were handed over, may lose some of   *)
(* them, and get none twice unless its id was forgotten.  SendPath          *)
(* implements it (SendPathProofs); MailboxProofs proves what follows.       *)
EXTENDS Naturals, Sequences

CONSTANTS
  Boxes,   \* the relays that receive
  Ids      \* message ids

VARIABLES
  transit,   \* messages under way to each box: sent or queued, not received
  box,       \* ids stored, in order
  forgot,    \* ids a relay's table has lost before their time
  told       \* ids whose sender knows that they were received

mailVars == <<transit, box, forgot, told>>

Init ==
  /\ transit = [b \in Boxes |-> <<>>]
  /\ box = [b \in Boxes |-> <<>>]
  /\ forgot = [b \in Boxes |-> {}]
  /\ told = {}

TypeOK ==
  /\ transit \in [Boxes -> Seq(Ids)]
  /\ box \in [Boxes -> Seq(Ids)]
  /\ forgot \in [Boxes -> SUBSET Ids]
  /\ told \subseteq Ids

Holds(b, id) == \E i \in 1..Len(box[b]) : box[b][i] = id

(* Ids are forgotten.                                                       *)
Grows(b) == \E more \in SUBSET Ids : forgot' = [forgot EXCEPT ![b] = @ \cup more]

(* A client hands over a message, for the first time or again.              *)
Hand(b, id) ==
  /\ transit' = [transit EXCEPT ![b] = Append(@, id)]
  /\ UNCHANGED <<box, forgot, told>>

(* The oldest message arrives and is stored; ids may be forgotten by it.    *)
Store(b) ==
  /\ transit[b] # <<>>
  /\ ~Holds(b, Head(transit[b])) \/ Head(transit[b]) \in forgot[b]
  /\ transit' = [transit EXCEPT ![b] = Tail(@)]
  /\ box' = [box EXCEPT ![b] = Append(@, Head(transit[b]))]
  /\ Grows(b)
  /\ UNCHANGED told

(* The oldest message arrives and is dropped: the box has it.               *)
Drop(b) ==
  /\ transit[b] # <<>> /\ Holds(b, Head(transit[b]))
  /\ transit' = [transit EXCEPT ![b] = Tail(@)]
  /\ UNCHANGED <<box, forgot, told>>

(* A connection breaks: the oldest messages to some boxes are gone.         *)
Lose ==
  /\ transit' = [b \in Boxes |-> transit'[b]]
  /\ \A b \in Boxes : \E n \in 0..Len(transit[b]) :
       transit'[b] = SubSeq(transit[b], n + 1, Len(transit[b]))
  /\ UNCHANGED <<box, forgot, told>>

Forget(b) == Grows(b) /\ UNCHANGED <<transit, box, told>>

(* A sender hears that its message was received.                            *)
Tell(id) ==
  /\ \E b \in Boxes : Holds(b, id)
  /\ told' = told \cup {id}
  /\ UNCHANGED <<transit, box, forgot>>

Next ==
  \/ \E b \in Boxes : Store(b) \/ Drop(b) \/ Forget(b) \/ \E id \in Ids : Hand(b, id)
  \/ Lose
  \/ \E id \in Ids : Tell(id)

Spec == Init /\ [][Next]_mailVars

(* A box has a message twice only if its id was forgotten.                  *)
AtMostOnce ==
  \A b \in Boxes : \A i, j \in 1..Len(box[b]) :
    i # j /\ box[b][i] = box[b][j] => box[b][i] \in forgot[b]

(* What a sender was told is true for good.                                 *)
ToldIsStored == \A id \in told : \E b \in Boxes : Holds(b, id)
================================================================================
