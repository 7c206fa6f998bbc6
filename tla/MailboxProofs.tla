----------------------------- MODULE MailboxProofs -----------------------------
(* What follows from Mailbox, and so holds of every system that implements  *)
(* it: for any boxes and any ids.                                           *)
EXTENDS Mailbox, TLAPS

(* What a box holds is among the ids, and the parts have their types.       *)
THEOREM TypeCorrect == Spec => []TypeOK
<1>1. Init => TypeOK
  BY DEF Init, TypeOK
<1>2. TypeOK /\ [Next]_mailVars => TypeOK'
  <2> SUFFICES ASSUME TypeOK, [Next]_mailVars PROVE TypeOK'
    OBVIOUS
  <2>1. ASSUME NEW b \in Boxes, Store(b) PROVE TypeOK'
    BY <2>1 DEF TypeOK, Store, Grows
  <2>2. ASSUME NEW b \in Boxes, Drop(b) PROVE TypeOK'
    BY <2>2 DEF TypeOK, Drop
  <2>3. ASSUME NEW b \in Boxes, Forget(b) PROVE TypeOK'
    BY <2>3 DEF TypeOK, Forget, Grows
  <2>4. ASSUME NEW b \in Boxes, NEW id \in Ids, Hand(b, id) PROVE TypeOK'
    BY <2>4 DEF TypeOK, Hand
  <2>5. ASSUME Lose PROVE TypeOK'
    <3>1. ASSUME NEW b \in Boxes PROVE transit'[b] \in Seq(Ids)
      <4>1. transit[b] \in Seq(Ids)
        BY DEF TypeOK
      <4>2. PICK n \in 0..Len(transit[b]) : transit'[b] = SubSeq(transit[b], n + 1, Len(transit[b]))
        BY <2>5 DEF Lose
      <4>3. \A i \in n + 1..Len(transit[b]) : transit[b][i] \in Ids
        BY <4>1
      <4> QED BY <4>1, <4>2, <4>3
    <3> QED BY <2>5, <3>1 DEF TypeOK, Lose
  <2>6. ASSUME NEW id \in Ids, Tell(id) PROVE TypeOK'
    BY <2>6 DEF TypeOK, Tell
  <2>7. CASE UNCHANGED mailVars
    BY <2>7 DEF TypeOK, mailVars
  <2> QED BY <2>1, <2>2, <2>3, <2>4, <2>5, <2>6, <2>7 DEF Next
<1> QED BY <1>1, <1>2, PTL DEF Spec

(* An id comes into a box that does not hold it, or has forgotten it.       *)
Adds(b, id) ==
  /\ box'[b] = Append(box[b], id)
  /\ ~Holds(b, id) \/ id \in forgot[b]

(* A box only grows: a step leaves it as it is, or appends an id that it    *)
(* does not hold or has forgotten.                                          *)
LEMMA BoxGrows ==
  ASSUME TypeOK, [Next]_mailVars, NEW b \in Boxes
  PROVE  /\ box[b] \in Seq(Ids)
         /\ forgot[b] \subseteq forgot'[b]
         /\ \/ box'[b] = box[b]
            \/ \E id \in Ids : Adds(b, id)
<1>1. ASSUME NEW c \in Boxes, Store(c)
      PROVE  /\ forgot[b] \subseteq forgot'[b]
             /\ \/ box'[b] = box[b]
                \/ \E id \in Ids : Adds(b, id)
  <2>1. Head(transit[c]) \in Ids
    BY <1>1 DEF TypeOK, Store
  <2>2. forgot[b] \subseteq forgot'[b]
    BY <1>1 DEF TypeOK, Store, Grows
  <2>3. CASE b = c
    BY <1>1, <2>1, <2>2, <2>3 DEF TypeOK, Store, Adds
  <2>4. CASE b # c
    BY <1>1, <2>2, <2>4 DEF TypeOK, Store
  <2> QED BY <2>3, <2>4
<1>2. ASSUME NEW c \in Boxes, Drop(c) PROVE box' = box /\ forgot' = forgot
  BY <1>2 DEF Drop
<1>3. ASSUME NEW c \in Boxes, Forget(c) PROVE box' = box /\ forgot[b] \subseteq forgot'[b]
  BY <1>3 DEF TypeOK, Forget, Grows
<1>4. ASSUME NEW c \in Boxes, NEW id \in Ids, Hand(c, id) PROVE box' = box /\ forgot' = forgot
  BY <1>4 DEF Hand
<1>5. ASSUME Lose PROVE box' = box /\ forgot' = forgot
  BY <1>5 DEF Lose
<1>6. ASSUME NEW id \in Ids, Tell(id) PROVE box' = box /\ forgot' = forgot
  BY <1>6 DEF Tell
<1>7. CASE UNCHANGED mailVars
  BY <1>7 DEF mailVars, TypeOK
<1>8. box[b] \in Seq(Ids)
  BY DEF TypeOK
<1> QED BY <1>1, <1>2, <1>3, <1>4, <1>5, <1>6, <1>7, <1>8 DEF Next

(* Whatever is handed over again, reordered with what is lost, or dropped,  *)
(* a box has an id at two places only when it had forgotten it.             *)
THEOREM StoredOnceUnlessForgotten == Spec => []AtMostOnce
<1>1. Init => AtMostOnce
  BY DEF Init, AtMostOnce
<1>2. TypeOK /\ AtMostOnce /\ [Next]_mailVars => AtMostOnce'
  <2> SUFFICES ASSUME TypeOK, AtMostOnce, [Next]_mailVars,
                      NEW b \in Boxes,
                      NEW i \in 1..Len(box'[b]), NEW j \in 1..Len(box'[b]),
                      i # j, box'[b][i] = box'[b][j]
               PROVE  box'[b][i] \in forgot'[b]
    BY DEF AtMostOnce
  <2>1. box[b] \in Seq(Ids) /\ forgot[b] \subseteq forgot'[b]
    BY BoxGrows
  <2>2. CASE box'[b] = box[b]
    BY <2>1, <2>2 DEF AtMostOnce
  <2>3. ASSUME NEW id \in Ids, Adds(b, id)
        PROVE  box'[b][i] \in forgot'[b]
    <3>0. box'[b] = Append(box[b], id) /\ (~Holds(b, id) \/ id \in forgot[b])
      BY <2>3 DEF Adds
    <3>1. CASE i <= Len(box[b]) /\ j <= Len(box[b])
      BY <2>1, <3>0, <3>1 DEF AtMostOnce
    <3>2. CASE i = Len(box[b]) + 1
      <4>1. j \in 1..Len(box[b]) /\ box[b][j] = id /\ box'[b][i] = id
        BY <2>1, <3>0, <3>2
      <4> QED BY <2>1, <3>0, <4>1 DEF Holds
    <3>3. CASE j = Len(box[b]) + 1
      <4>1. i \in 1..Len(box[b]) /\ box[b][i] = id /\ box'[b][i] = id
        BY <2>1, <3>0, <3>3
      <4> QED BY <2>1, <3>0, <4>1 DEF Holds
    <3> QED BY <2>1, <3>0, <3>1, <3>2, <3>3
  <2>4. box'[b] = box[b] \/ \E id \in Ids : Adds(b, id)
    BY BoxGrows
  <2> QED BY <2>2, <2>3, <2>4
<1> QED BY <1>1, <1>2, TypeCorrect, PTL DEF Spec

(* What a sender was told of a message stays true: the message is in a box  *)
(* for good.                                                                *)
THEOREM ToldForGood == Spec => []ToldIsStored
<1>1. Init => ToldIsStored
  BY DEF Init, ToldIsStored
<1>2. TypeOK /\ ToldIsStored /\ [Next]_mailVars => ToldIsStored'
  <2> SUFFICES ASSUME TypeOK, ToldIsStored, [Next]_mailVars, NEW id \in told'
               PROVE  \E b \in Boxes : Holds(b, id)'
    BY DEF ToldIsStored
  <2>1. PICK b \in Boxes : Holds(b, id)
    <3>1. CASE id \in told
      BY <3>1 DEF ToldIsStored
    <3>2. CASE id \notin told
      BY <3>2 DEF Next, Store, Drop, Forget, Hand, Lose, Tell, mailVars
    <3> QED BY <3>1, <3>2
  <2>2. box[b] \in Seq(Ids)
    BY BoxGrows
  <2>3. PICK i \in 1..Len(box[b]) : box[b][i] = id
    BY <2>1 DEF Holds
  <2>4. i \in 1..Len(box'[b]) /\ box'[b][i] = id
    <3>1. CASE box'[b] = box[b]
      BY <2>3, <3>1
    <3>2. ASSUME NEW x \in Ids, Adds(b, x)
          PROVE  i \in 1..Len(box'[b]) /\ box'[b][i] = id
      BY <2>2, <2>3, <3>2 DEF Adds
    <3>3. box'[b] = box[b] \/ \E x \in Ids : Adds(b, x)
      BY BoxGrows
    <3> QED BY <3>1, <3>2, <3>3
  <2> QED BY <2>4 DEF Holds
<1> QED BY <1>1, <1>2, TypeCorrect, PTL DEF Spec
================================================================================
