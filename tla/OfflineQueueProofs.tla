------------------------- MODULE OfflineQueueProofs -------------------------
(***************************************************************************)
(* For any number of agents, buckets and messages, any capacity, any       *)
(* pattern of breaks and crashes, for the host and for the guest: what a   *)
(* flush hands out it hands out once per life of the process and in the    *)
(* order it was queued.  For one link under --persist-queue: what a sender *)
(* was told is queued is not lost but by the limits and by a flush that    *)
(* breaks off.                                                             *)
(***************************************************************************)
EXTENDS OfflineQueue, PickingProofs

Increasing(s) == \A i, j \in DOMAIN s : i < j => s[i] < s[j]

(* A coroutine that is about to send has something left to send.            *)
SendsSomething == \A a \in Agents : pc[a] = "send" => flush[a].left # <<>>

TypeInv == TypeOK /\ SendsSomething

-----------------------------------------------------------------------------
(* The order of things, part by part.                                       *)

(* Every sequence of messages is in the order of their numbers.             *)
AllIncrease ==
  /\ \A b \in Buckets : Increasing(mem[b])
  /\ \A a \in Agents : Increasing(flush[a].left)
  /\ \A i, j \in DOMAIN rows : i < j => rows[i].msg < rows[j].msg

(* No message is anywhere before it was handled; the row that waits to be   *)
(* inserted is of the last one.                                             *)
Numbered ==
  /\ \A b \in Buckets : \A m \in ToSet(mem[b]) : m <= handled
  /\ \A a \in Agents : \A m \in ToSet(flush[a].left) : m <= handled
  /\ \A a \in Agents : \A x \in ToSet(sent[a]) : x.msg <= handled
  /\ \A x \in ToSet(rows) : x.msg <= handled /\ (adding # <<>> => x.msg < handled)
  /\ adding # <<>> => adding[1].msg = handled

(* A message is in one bucket, or in the hands of one flush, or sent.       *)
Apart ==
  /\ \A b, c \in Buckets : b # c => ToSet(mem[b]) \cap ToSet(mem[c]) = {}
  /\ \A b \in Buckets, a \in Agents : ToSet(mem[b]) \cap ToSet(flush[a].left) = {}
  /\ \A a, c \in Agents : a # c => ToSet(flush[a].left) \cap ToSet(flush[c].left) = {}
  /\ \A a \in Agents : \A x \in ToSet(sent[a]) :
       /\ \A b \in Buckets : x.msg \notin ToSet(mem[b])
       /\ \A c \in Agents : x.msg \notin ToSet(flush[c].left)

(* Of one bucket: what is sent is older than what its flush has left, and   *)
(* that is older than what waits.                                           *)
OlderFirst ==
  /\ \A a \in Agents : \A m \in ToSet(flush[a].left), n \in ToSet(mem[flush[a].bucket]) : m < n
  /\ \A a \in Agents : \A x \in ToSet(sent[a]) : \A n \in ToSet(mem[x.bucket]) : x.msg < n
  /\ \A a \in Agents : \A x \in ToSet(sent[a]) :
       x.bucket = flush[a].bucket => \A n \in ToSet(flush[a].left) : x.msg < n

(* A process that is down has no coroutine and has sent nothing.            *)
DownIsEmpty == ~up => \A a \in Agents : sent[a] = <<>> /\ flush[a].left = <<>>

OrderInv == AllIncrease /\ Numbered /\ Apart /\ OlderFirst /\ DownIsEmpty /\ FlushedInOrder

-----------------------------------------------------------------------------
(* Sequences: what is picked of one, and the last elements of one, keep any *)
(* relation R that every element has to the later ones.                     *)

LEMMA PickKeepsOrder ==
  ASSUME NEW S, NEW s \in Seq(S), NEW T, NEW R,
         \A i, j \in DOMAIN s : i < j => <<s[i], s[j]>> \in R
  PROVE  /\ \A k, l \in DOMAIN Pick(s, T) : k < l => <<Pick(s, T)[k], Pick(s, T)[l]>> \in R
         /\ Len(Pick(s, T)) <= Len(s)
<1> DEFINE t == Pick(s, T)
<1>1. t \in Seq(S \cap T)
  BY PickType
<1>2. PICK g \in [1 .. Len(t) -> 1 .. Len(s)] :
        /\ \A k \in DOMAIN g : t[k] = s[g[k]] /\ s[g[k]] \in T
        /\ \A k, l \in DOMAIN g : k < l => g[k] < g[l]
  BY PickPlaces
<1> HIDE DEF t
<1>3. DOMAIN t = 1 .. Len(t) /\ DOMAIN g = 1 .. Len(t) /\ Len(t) \in Nat
      /\ DOMAIN s = 1 .. Len(s) /\ Len(s) \in Nat
  BY <1>1
<1>4. ASSUME NEW k \in DOMAIN t, NEW l \in DOMAIN t, k < l PROVE <<t[k], t[l]>> \in R
  <2>1. g[k] \in DOMAIN s /\ g[l] \in DOMAIN s /\ g[k] < g[l] /\ t[k] = s[g[k]] /\ t[l] = s[g[l]]
    BY <1>2, <1>3, <1>4
  <2> QED BY <2>1
<1>5. Len(t) <= Len(s)
  <2> DEFINE Good == {n \in Nat : n + 1 <= Len(t) => g[n + 1] >= n + 1}
  <2>1. 0 \in Good
    <3> SUFFICES ASSUME 1 <= Len(t) PROVE g[0 + 1] >= 0 + 1
      OBVIOUS
    <3> 1 \in DOMAIN g
      BY <1>3
    <3> QED BY <1>3
  <2>2. ASSUME NEW n \in Nat, n \in Good PROVE n + 1 \in Good
    <3> SUFFICES ASSUME (n + 1) + 1 <= Len(t) PROVE g[(n + 1) + 1] >= (n + 1) + 1
      OBVIOUS
    <3>1. n + 1 \in DOMAIN g /\ (n + 1) + 1 \in DOMAIN g /\ n + 1 < (n + 1) + 1 /\ n + 1 <= Len(t)
      BY <1>3
    <3>2. g[n + 1] < g[(n + 1) + 1] /\ g[n + 1] >= n + 1
      BY <3>1, <1>2, <2>2
    <3>3. g[n + 1] \in Int /\ g[(n + 1) + 1] \in Int
      BY <3>1, <1>2, <1>3
    <3> QED BY <3>2, <3>3
  <2>3. \A n \in Nat : n \in Good
    <3> HIDE DEF Good
    <3> QED BY <2>1, <2>2, AllNumbers
  <2>4. CASE Len(t) = 0
    BY <2>4, <1>3
  <2>5. CASE Len(t) > 0
    <3>1. Len(t) - 1 \in Nat /\ (Len(t) - 1) + 1 = Len(t) /\ Len(t) \in DOMAIN g
      BY <2>5, <1>3
    <3>2. g[Len(t)] >= Len(t)
      BY <3>1, <2>3, <1>3
    <3>3. g[Len(t)] \in 1 .. Len(s)
      BY <3>1, <1>2
    <3> QED BY <3>2, <3>3, <1>3
  <2> QED BY <2>4, <2>5, <1>3
<1> QED BY <1>4, <1>5 DEF t

LEMMA LastOfKeepsOrder ==
  ASSUME NEW S, NEW s \in Seq(S), NEW R,
         \A i, j \in DOMAIN s : i < j => <<s[i], s[j]>> \in R
  PROVE  /\ LastOf(s) \in Seq(S) /\ Len(LastOf(s)) <= MaxLen
         /\ ToSet(LastOf(s)) \subseteq ToSet(s)
         /\ \A i, j \in DOMAIN LastOf(s) : i < j => <<LastOf(s)[i], LastOf(s)[j]>> \in R
<1> DEFINE d == Len(s) - MaxLen
<1>0. MaxLen \in Nat /\ Len(s) \in Nat /\ DOMAIN s = 1 .. Len(s)
  BY QueueAssumption
<1>1. CASE Len(s) <= MaxLen
  BY <1>1 DEF LastOf
<1>2. CASE Len(s) > MaxLen
  <2> DEFINE t == SubSeq(s, d + 1, Len(s))
  <2>1. LastOf(s) = t
    BY <1>0, <1>2 DEF LastOf
  <2>2. t \in Seq(S) /\ Len(t) = MaxLen /\ DOMAIN t = 1 .. MaxLen
        /\ \A i \in 1 .. MaxLen : t[i] = s[d + i]
    BY <1>0, <1>2
  <2> HIDE DEF t
  <2>3. \A i \in 1 .. MaxLen : d + i \in DOMAIN s
    BY <1>0, <1>2
  <2>4. \A x \in ToSet(t) : x \in ToSet(s)
    BY <2>2, <2>3 DEF ToSet
  <2>5. ASSUME NEW i \in DOMAIN t, NEW j \in DOMAIN t, i < j PROVE <<t[i], t[j]>> \in R
    <3>1. d + i \in DOMAIN s /\ d + j \in DOMAIN s /\ d + i < d + j
      BY <1>0, <1>2, <2>2, <2>3, <2>5
    <3> QED BY <3>1, <2>2
  <2> QED BY <2>1, <2>2, <2>4, <2>5, <1>0
<1> QED BY <1>0, <1>1, <1>2

(* The same for the sequences of messages and of rows at hand.              *)
Before == {p \in Msgs \X Msgs : p[1] < p[2]}
RowBefore == {p \in Row \X Row : p[1].msg < p[2].msg}

LEMMA IncreasingIs ==
  ASSUME NEW s \in Seq(Msgs)
  PROVE  Increasing(s) <=> \A i, j \in DOMAIN s : i < j => <<s[i], s[j]>> \in Before
<1>1. \A i \in DOMAIN s : s[i] \in Msgs
  OBVIOUS
<1> QED BY <1>1 DEF Increasing, Before

LEMMA RowsIncreaseIs ==
  ASSUME NEW r \in Seq(Row)
  PROVE  (\A i, j \in DOMAIN r : i < j => r[i].msg < r[j].msg)
         <=> \A i, j \in DOMAIN r : i < j => <<r[i], r[j]>> \in RowBefore
<1>1. \A i \in DOMAIN r : r[i] \in Row
  OBVIOUS
<1> QED BY <1>1 DEF RowBefore

LEMMA PickedMessages ==
  ASSUME NEW s \in Seq(Msgs), NEW T
  PROVE  /\ Pick(s, T) \in Seq(Msgs) /\ Len(Pick(s, T)) <= Len(s)
         /\ ToSet(Pick(s, T)) = ToSet(s) \cap T
         /\ Increasing(s) => Increasing(Pick(s, T))
<1>1. Pick(s, T) \in Seq(Msgs) /\ ToSet(Pick(s, T)) = ToSet(s) \cap T
  BY ElementsOfPick
<1>2. Len(Pick(s, T)) <= Len(s)
  <2> DEFINE R == {<<s[i], s[j]>> : i, j \in DOMAIN s}
  <2>1. \A i, j \in DOMAIN s : i < j => <<s[i], s[j]>> \in R
    OBVIOUS
  <2> HIDE DEF R
  <2> QED BY <2>1, PickKeepsOrder
<1>3. ASSUME Increasing(s) PROVE Increasing(Pick(s, T))
  <2>1. \A i, j \in DOMAIN s : i < j => <<s[i], s[j]>> \in Before
    BY <1>3, IncreasingIs
  <2>2. \A i, j \in DOMAIN Pick(s, T) : i < j => <<Pick(s, T)[i], Pick(s, T)[j]>> \in Before
    BY <2>1, PickKeepsOrder
  <2> QED BY <1>1, <2>2, IncreasingIs
<1> QED BY <1>1, <1>2, <1>3

LEMMA PickedRows ==
  ASSUME NEW r \in Seq(Row), NEW T
  PROVE  /\ Pick(r, T) \in Seq(Row) /\ ToSet(Pick(r, T)) = ToSet(r) \cap T
         /\ (\A i, j \in DOMAIN r : i < j => r[i].msg < r[j].msg) =>
              \A i, j \in DOMAIN Pick(r, T) : i < j => Pick(r, T)[i].msg < Pick(r, T)[j].msg
<1>1. Pick(r, T) \in Seq(Row) /\ ToSet(Pick(r, T)) = ToSet(r) \cap T
  BY ElementsOfPick
<1>2. ASSUME \A i, j \in DOMAIN r : i < j => r[i].msg < r[j].msg
      PROVE  \A i, j \in DOMAIN Pick(r, T) : i < j => Pick(r, T)[i].msg < Pick(r, T)[j].msg
  <2>1. \A i, j \in DOMAIN r : i < j => <<r[i], r[j]>> \in RowBefore
    BY <1>2, RowsIncreaseIs
  <2>2. \A i, j \in DOMAIN Pick(r, T) : i < j => <<Pick(r, T)[i], Pick(r, T)[j]>> \in RowBefore
    BY <2>1, PickKeepsOrder
  <2> QED BY <1>1, <2>2, RowsIncreaseIs
<1> QED BY <1>1, <1>2

LEMMA LastMessages ==
  ASSUME NEW s \in Seq(Msgs)
  PROVE  /\ LastOf(s) \in Seq(Msgs) /\ Len(LastOf(s)) <= MaxLen
         /\ ToSet(LastOf(s)) \subseteq ToSet(s)
         /\ Increasing(s) => Increasing(LastOf(s))
<1>1. /\ LastOf(s) \in Seq(Msgs) /\ Len(LastOf(s)) <= MaxLen
      /\ ToSet(LastOf(s)) \subseteq ToSet(s)
  <2> DEFINE R == {<<s[i], s[j]>> : i, j \in DOMAIN s}
  <2>1. \A i, j \in DOMAIN s : i < j => <<s[i], s[j]>> \in R
    OBVIOUS
  <2> HIDE DEF R
  <2> QED BY <2>1, LastOfKeepsOrder
<1>2. ASSUME Increasing(s) PROVE Increasing(LastOf(s))
  <2>1. \A i, j \in DOMAIN s : i < j => <<s[i], s[j]>> \in Before
    BY <1>2, IncreasingIs
  <2>2. \A i, j \in DOMAIN LastOf(s) : i < j => <<LastOf(s)[i], LastOf(s)[j]>> \in Before
    BY <2>1, LastOfKeepsOrder
  <2> QED BY <1>1, <2>2, IncreasingIs
<1> QED BY <1>1, <1>2

(* The rows of a bucket, loaded as messages.                                *)
LEMMA LoadedRows ==
  ASSUME rows \in Seq(Row), NEW b \in Buckets
  PROVE  /\ RowsOf(b) \in Seq(Msgs)
         /\ \A m \in ToSet(RowsOf(b)) : [bucket |-> b, msg |-> m] \in ToSet(rows)
         /\ (\A i, j \in DOMAIN rows : i < j => rows[i].msg < rows[j].msg) => Increasing(RowsOf(b))
<1> DEFINE T == {x \in Row : x.bucket = b}
           r == Pick(rows, T)
           q == [i \in DOMAIN r |-> r[i].msg]
<1>1. r \in Seq(Row) /\ ToSet(r) = ToSet(rows) \cap T
      /\ ((\A i, j \in DOMAIN rows : i < j => rows[i].msg < rows[j].msg)
          => \A i, j \in DOMAIN r : i < j => r[i].msg < r[j].msg)
  <2> HIDE DEF T
  <2> QED BY PickedRows
<1>2. RowsOf(b) = q
  BY DEF RowsOf
<1> HIDE DEF r
<1>3. DOMAIN r = 1 .. Len(r) /\ Len(r) \in Nat /\ \A i \in 1 .. Len(r) : r[i] \in Row
  BY <1>1
<1>4. q \in [1 .. Len(r) -> Msgs] /\ DOMAIN q = DOMAIN r
  BY <1>3 DEF Row
<1>5. q \in Seq(Msgs)
  <2> HIDE DEF q
  <2> QED BY <1>3, <1>4, FunctionIsSeq
<1>6. ASSUME NEW m \in ToSet(q) PROVE [bucket |-> b, msg |-> m] \in ToSet(rows)
  <2>1. PICK i \in DOMAIN r : m = r[i].msg
    BY <1>6, <1>4 DEF ToSet
  <2>2. r[i] \in ToSet(rows) /\ r[i] \in T
    BY <1>1, <2>1 DEF ToSet
  <2>3. r[i] = [bucket |-> b, msg |-> m]
    BY <2>1, <2>2 DEF Row
  <2> QED BY <2>2, <2>3
<1>7. (\A i, j \in DOMAIN r : i < j => r[i].msg < r[j].msg) => Increasing(q)
  BY <1>4 DEF Increasing
<1> QED BY <1>1, <1>2, <1>5, <1>6, <1>7

LEMMA AppendIncreases ==
  ASSUME NEW s \in Seq(Msgs), NEW m \in Msgs, Increasing(s), \A n \in ToSet(s) : n < m
  PROVE  Increasing(Append(s, m))
<1> DEFINE t == Append(s, m)
<1>1. DOMAIN t = 1 .. Len(s) + 1 /\ DOMAIN s = 1 .. Len(s) /\ Len(s) \in Nat
  OBVIOUS
<1>2. t[Len(s) + 1] = m /\ \A i \in 1 .. Len(s) : t[i] = s[i] /\ t[i] < m
  BY <1>1 DEF ToSet
<1> HIDE DEF t
<1>3. ASSUME NEW i \in DOMAIN t, NEW j \in DOMAIN t, i < j PROVE t[i] < t[j]
  <2>1. i \in 1 .. Len(s)
    BY <1>1, <1>3
  <2>2. CASE j = Len(s) + 1
    BY <2>1, <2>2, <1>2
  <2>3. CASE j # Len(s) + 1
    BY <2>1, <2>3, <1>1, <1>2, <1>3 DEF Increasing
  <2> QED BY <2>2, <2>3
<1> QED BY <1>3 DEF Increasing, t

LEMMA TailIncreases ==
  ASSUME NEW s \in Seq(Msgs), s # <<>>, Increasing(s)
  PROVE  /\ Head(s) \in Msgs /\ Tail(s) \in Seq(Msgs) /\ Increasing(Tail(s))
         /\ \A n \in ToSet(Tail(s)) : Head(s) < n
<1> DEFINE t == Tail(s)
<1>1. DOMAIN t = 1 .. Len(s) - 1 /\ DOMAIN s = 1 .. Len(s) /\ Len(s) \in Nat \ {0} /\ t \in Seq(Msgs)
  OBVIOUS
<1>2. Head(s) = s[1] /\ \A i \in 1 .. Len(s) - 1 : t[i] = s[i + 1]
  BY <1>1
<1> HIDE DEF t
<1>3. \A i \in DOMAIN t : s[1] < t[i]
  BY <1>1, <1>2 DEF Increasing
<1>4. Increasing(t)
  <2>1. ASSUME NEW i \in DOMAIN t, NEW j \in DOMAIN t, i < j PROVE t[i] < t[j]
    <3>1. i + 1 \in DOMAIN s /\ j + 1 \in DOMAIN s /\ i + 1 < j + 1
      BY <1>1, <2>1
    <3>2. s[i + 1] < s[j + 1]
      BY <3>1 DEF Increasing
    <3> QED BY <3>2, <1>1, <1>2
  <2> QED BY <2>1 DEF Increasing
<1> QED BY <1>1, <1>2, <1>3, <1>4 DEF ToSet, t

-----------------------------------------------------------------------------
(* Types.                                                                   *)

LEMMA Sets ==
  ASSUME MaxMsgs \in Nat
  PROVE  /\ Buckets = 0 .. MaxPeers \/ MaxPeers \notin Nat
         /\ Default \in Buckets
         /\ NoFlush \in [own : Buckets, bucket : Buckets, left : Seq(Msgs), count : Nat]
         /\ NoFlush.left = <<>>
         /\ \A p \in Peers : p \in Buckets
BY DEF Buckets, Peers, Default, NoFlush

(* What _offline_enqueue does to the buckets and the rows.                  *)
LEMMA EnqueueDoes ==
  ASSUME TypeOK, NEW b \in Buckets, NEW a \in Agents \cup {Nobody}, handled < MaxMsgs, Enqueue(b, a)
  PROVE  /\ mem' \in [Buckets -> Seq(Msgs)] /\ \A x \in Buckets : Len(mem'[x]) <= MaxLen
         /\ \A x \in Buckets : x # b => ToSet(mem'[x]) \subseteq ToSet(mem[x])
         /\ ToSet(mem'[b]) \subseteq ToSet(mem[b]) \cup {handled + 1}
         /\ (\A x \in Buckets : Increasing(mem[x])) /\ (\A n \in ToSet(mem[b]) : n <= handled)
              => \A x \in Buckets : Increasing(mem'[x])
         /\ rows' \in Seq(Row) /\ ToSet(rows') \subseteq ToSet(rows)
         /\ (\A i, j \in DOMAIN rows : i < j => rows[i].msg < rows[j].msg)
              => \A i, j \in DOMAIN rows' : i < j => rows'[i].msg < rows'[j].msg
         /\ adding' = <<[bucket |-> b, msg |-> handled + 1]>> /\ adding' \in Seq(Row) /\ Len(adding') <= 1
         /\ handled' = handled + 1 /\ handled' \in 0 .. MaxMsgs /\ handled + 1 \in Msgs
         /\ to' \in [Msgs -> Agents \cup {Nobody}] /\ dropped' \subseteq Msgs
<1> DEFINE m == handled + 1
           swept(c) == [x \in Buckets |-> Unexpired(mem[x], c)]
           q(c) == Append(swept(c)[b], m)
<1> m \in Msgs /\ m \in Nat /\ handled \in Nat
  <2>1. handled \in 0 .. MaxMsgs /\ MaxMsgs \in Nat
    BY QueueAssumption DEF TypeOK
  <2> QED BY <2>1 DEF Msgs
<1>0. PICK c \in Cutoffs : \E d \in RowCutoffs(c) :
        /\ mem' = [swept(c) EXCEPT ![b] = LastOf(q(c))]
        /\ rows' = UnexpiredRows(rows, d)
        /\ dropped' = dropped \cup Expired(c) \cup ExpiredRows(d) \cup (ToSet(q(c)) \ ToSet(LastOf(q(c))))
  BY DEF Enqueue
<1>1. PICK d \in RowCutoffs(c) :
        /\ mem' = [swept(c) EXCEPT ![b] = LastOf(q(c))]
        /\ rows' = UnexpiredRows(rows, d)
        /\ dropped' = dropped \cup Expired(c) \cup ExpiredRows(d) \cup (ToSet(q(c)) \ ToSet(LastOf(q(c))))
  BY <1>0
<1>2. /\ adding' = <<[bucket |-> b, msg |-> m]>>
      /\ to' = [to EXCEPT ![m] = a]
      /\ handled' = m
  BY DEF Enqueue
<1>3. ASSUME NEW x \in Buckets
      PROVE  /\ swept(c)[x] \in Seq(Msgs) /\ Len(swept(c)[x]) <= MaxLen
             /\ ToSet(swept(c)[x]) \subseteq ToSet(mem[x])
             /\ Increasing(mem[x]) => Increasing(swept(c)[x])
  <2>1. mem[x] \in Seq(Msgs) /\ Len(mem[x]) <= MaxLen /\ MaxLen \in Nat
    BY QueueAssumption DEF TypeOK
  <2>2. swept(c)[x] = Pick(mem[x], {n \in Msgs : n > c})
    BY DEF Unexpired
  <2> DEFINE T == {n \in Msgs : n > c}
  <2>3. /\ Pick(mem[x], T) \in Seq(Msgs) /\ Len(Pick(mem[x], T)) <= Len(mem[x])
        /\ ToSet(Pick(mem[x], T)) = ToSet(mem[x]) \cap T
        /\ Increasing(mem[x]) => Increasing(Pick(mem[x], T))
    <3> HIDE DEF T
    <3> QED BY <2>1, PickedMessages
  <2> DEFINE p == Pick(mem[x], T)
  <2>4. Len(p) \in Nat /\ Len(mem[x]) \in Nat
    BY <2>1, <2>3
  <2> QED BY <2>1, <2>2, <2>3, <2>4
<1> DEFINE w == swept(c)
<1>4. w \in [Buckets -> Seq(Msgs)]
  BY <1>3
<1> HIDE DEF w
<1>5. q(c) = Append(w[b], m) /\ mem' = [w EXCEPT ![b] = LastOf(q(c))]
  BY <1>1 DEF w
<1>6. /\ w[b] \in Seq(Msgs) /\ ToSet(w[b]) \subseteq ToSet(mem[b])
      /\ Increasing(mem[b]) => Increasing(w[b])
  BY <1>3 DEF w
<1>7. q(c) \in Seq(Msgs) /\ ToSet(q(c)) = ToSet(w[b]) \cup {m}
  <2>1. Append(w[b], m) \in Seq(Msgs) /\ ToSet(Append(w[b], m)) = ToSet(w[b]) \cup {m}
    BY <1>6, ElementsOfAppend
  <2> HIDE DEF q
  <2> QED BY <2>1, <1>5
<1> DEFINE l == LastOf(q(c))
<1>8. /\ l \in Seq(Msgs) /\ Len(l) <= MaxLen /\ ToSet(l) \subseteq ToSet(q(c))
      /\ Increasing(q(c)) => Increasing(l)
  <2> HIDE DEF q
  <2> QED BY <1>7, LastMessages
<1>9. mem' = [w EXCEPT ![b] = l] /\ ToSet(l) \subseteq ToSet(mem[b]) \cup {m}
  BY <1>5, <1>6, <1>7, <1>8
<1>10. ASSUME \A x \in Buckets : Increasing(mem[x]), \A n \in ToSet(mem[b]) : n <= handled
       PROVE  Increasing(l)
  <2>1. Increasing(w[b])
    BY <1>6, <1>10
  <2>2. \A n \in ToSet(w[b]) : n \in Nat /\ n < m
    <3>1. ToSet(w[b]) \subseteq Msgs
      BY <1>6, ElementsOf
    <3>2. \A n \in ToSet(w[b]) : n <= handled
      BY <1>6, <1>10
    <3> QED BY <3>1, <3>2 DEF Msgs
  <2>3. Increasing(Append(w[b], m))
    BY <1>6, <2>1, <2>2, AppendIncreases
  <2> QED BY <2>3, <1>5, <1>8
<1>11. /\ mem' \in [Buckets -> Seq(Msgs)]
       /\ \A x \in Buckets : mem'[x] = IF x = b THEN l ELSE w[x]
  <2> HIDE DEF l
  <2> QED BY <1>4, <1>8, <1>9
<1>12. /\ rows' \in Seq(Row) /\ ToSet(rows') \subseteq ToSet(rows)
       /\ (\A i, j \in DOMAIN rows : i < j => rows[i].msg < rows[j].msg)
            => \A i, j \in DOMAIN rows' : i < j => rows'[i].msg < rows'[j].msg
  <2> DEFINE T == {x \in Row : x.msg > d}
  <2>1. rows' = Pick(rows, T) /\ rows \in Seq(Row)
    BY <1>1 DEF UnexpiredRows, TypeOK
  <2> HIDE DEF T
  <2> QED BY <2>1, PickedRows
<1>13. dropped' \subseteq Msgs
  <2>1. Expired(c) \subseteq Msgs
    <3> SUFFICES ASSUME NEW n \in Expired(c) PROVE n \in Msgs
      OBVIOUS
    <3>1. PICK x \in Buckets : n \in ToSet(mem[x])
      BY DEF Expired
    <3>2. mem[x] \in Seq(Msgs)
      BY DEF TypeOK
    <3> QED BY <3>1, <3>2, ElementsOf
  <2>2. ExpiredRows(d) \subseteq Msgs
    <3> SUFFICES ASSUME NEW n \in ExpiredRows(d) PROVE n \in Msgs
      OBVIOUS
    <3>1. PICK i \in DOMAIN rows : rows[i].msg = n
      BY DEF ExpiredRows
    <3>2. rows[i] \in Row
      BY DEF TypeOK
    <3> QED BY <3>1, <3>2 DEF Row
  <2>3. dropped \subseteq Msgs
    BY DEF TypeOK
  <2>4. ToSet(q(c)) \subseteq Msgs
    <3> HIDE DEF q
    <3> QED BY <1>7, ElementsOf
  <2> HIDE DEF q
  <2> QED BY <1>1, <2>1, <2>2, <2>3, <2>4
<1>14. adding' \in Seq(Row) /\ Len(adding') <= 1
  BY <1>2 DEF Row
<1>15. to' \in [Msgs -> Agents \cup {Nobody}]
  BY <1>2 DEF TypeOK
<1>16. \A x \in Buckets : /\ x # b => mem'[x] = w[x]
                          /\ Len(w[x]) <= MaxLen /\ ToSet(w[x]) \subseteq ToSet(mem[x])
                          /\ Increasing(mem[x]) => Increasing(w[x])
  BY <1>3, <1>11 DEF w
<1>17. m \in 0 .. MaxMsgs
  BY QueueAssumption DEF TypeOK
<1> HIDE DEF l
<1>18. /\ \A x \in Buckets : Len(mem'[x]) <= MaxLen
       /\ \A x \in Buckets : x # b => ToSet(mem'[x]) \subseteq ToSet(mem[x])
       /\ ToSet(mem'[b]) \subseteq ToSet(mem[b]) \cup {m}
  BY <1>8, <1>9, <1>11, <1>16 DEF l
<1>19. (\A x \in Buckets : Increasing(mem[x])) /\ (\A n \in ToSet(mem[b]) : n <= handled)
              => \A x \in Buckets : Increasing(mem'[x])
  BY <1>10, <1>11, <1>16
<1> QED BY <1>2, <1>11, <1>12, <1>13, <1>14, <1>15, <1>17, <1>18, <1>19

LEMMA TypesInit == Init => TypeInv
<1> SUFFICES ASSUME Init PROVE TypeInv
  OBVIOUS
<1>0. {MaxLen, MaxMsgs, MaxPeers, MaxBreaks, MaxCrashes} \subseteq Nat
  BY QueueAssumption
<1>1. mem \in [Buckets -> Seq(Msgs)] /\ \A b \in Buckets : Len(mem[b]) <= MaxLen
  BY <1>0 DEF Init
<1>2. rows \in Seq(Row) /\ adding \in Seq(Row) /\ Len(adding) <= 1 /\ sweeping \subseteq Msgs
  BY DEF Init
<1>3. /\ peerOf \in [Peers -> Agents \cup {Nobody}] /\ live \subseteq Peers
      /\ legacy \in Agents \cup {Nobody} /\ sock \in [Agents -> {"none", "open", "broken"}]
      /\ pc \in [Agents -> Places] /\ up \in BOOLEAN
  BY DEF Init, Places
<1>4. flush \in [Agents -> [own : Buckets, bucket : Buckets, left : Seq(Msgs), count : Nat]]
  BY <1>0, Sets DEF Init
<1>5. handled \in 0 .. MaxMsgs /\ broke \in 0 .. MaxBreaks /\ crashes \in 0 .. MaxCrashes
  BY <1>0 DEF Init
<1>6. to \in [Msgs -> Agents \cup {Nobody}]
  BY DEF Init
<1>7. {promised, everSent, dropped, cutOff} \subseteq SUBSET Msgs /\ sent \in [Agents -> Seq(Row)]
  BY DEF Init
<1>8. SendsSomething
  BY DEF Init, SendsSomething
<1> QED BY <1>1, <1>2, <1>3, <1>4, <1>5, <1>6, <1>7, <1>8 DEF TypeOK, TypeInv

(* One send that is not buffered.                                           *)
LEMMA SendOnKeepsTypes ==
  ASSUME TypeInv, NEW a \in Agents, handled < MaxMsgs, SendOn(a)
  PROVE  TypeInv'
<1>1. handled + 1 \in Msgs /\ handled' \in 0 .. MaxMsgs
  <2>1. handled \in 0 .. MaxMsgs /\ MaxMsgs \in Nat
    BY QueueAssumption DEF TypeInv, TypeOK
  <2> QED BY <2>1 DEF Msgs, SendOn
<1>2. to' \in [Msgs -> Agents \cup {Nobody}]
  BY DEF SendOn, TypeInv, TypeOK
<1>3. everSent' \subseteq Msgs
  BY <1>1 DEF SendOn, TypeInv, TypeOK
<1>4. UNCHANGED <<up, queue, links, promised, sent, dropped, cutOff, broke, crashes>>
  BY DEF SendOn
<1>5. SendsSomething'
  BY <1>4 DEF TypeInv, SendsSomething, links
<1>6. TypeOK'
  BY <1>1, <1>2, <1>3, <1>4 DEF TypeInv, TypeOK, queue, links
<1> QED BY <1>5, <1>6 DEF TypeInv

LEMMA EnqueueKeepsTypes ==
  ASSUME TypeInv, NEW b \in Buckets, NEW a \in Agents \cup {Nobody}, handled < MaxMsgs, Enqueue(b, a)
  PROVE  TypeInv'
<1>1. /\ mem' \in [Buckets -> Seq(Msgs)] /\ \A x \in Buckets : Len(mem'[x]) <= MaxLen
      /\ rows' \in Seq(Row) /\ adding' \in Seq(Row) /\ Len(adding') <= 1
      /\ handled' \in 0 .. MaxMsgs /\ to' \in [Msgs -> Agents \cup {Nobody}] /\ dropped' \subseteq Msgs
  BY EnqueueDoes DEF TypeInv
<1>2. UNCHANGED <<up, sweeping, links, promised, sent, everSent, cutOff, broke, crashes>>
  BY DEF Enqueue
<1>3. SendsSomething'
  BY <1>2 DEF TypeInv, SendsSomething, links
<1>4. TypeOK'
  BY <1>1, <1>2 DEF TypeInv, TypeOK, links
<1> QED BY <1>3, <1>4 DEF TypeInv

(* The coroutine of a goes on after a flush.                                *)
LEMMA ReturnedKeepsTypes ==
  ASSUME TypeInv, NEW a \in Agents, Returned(a, flush[a])
  PROVE  /\ pc' \in [Agents -> Places] /\ SendsSomething'
         /\ flush' \in [Agents -> [own : Buckets, bucket : Buckets, left : Seq(Msgs), count : Nat]]
         /\ flush'[a].left = <<>> /\ \A c \in Agents : c # a => flush'[c] = flush[c]
<1> DEFINE F == [own : Buckets, bucket : Buckets, left : Seq(Msgs), count : Nat]
           f == flush[a]
           b == IF f.count = 0 /\ f.bucket # Default THEN Default ELSE f.bucket
           g == [own |-> f.own, bucket |-> b, left |-> <<>>, count |-> f.count]
<1>1. f \in F /\ flush \in [Agents -> F] /\ pc \in [Agents -> Places]
  BY DEF TypeInv, TypeOK
<1>2. b \in Buckets
  BY <1>1 DEF Buckets
<1>4. flush' = [flush EXCEPT ![a] = g]
  BY DEF Returned
<1>3. g \in F /\ g.left = <<>>
  <2> HIDE DEF b, f
  <2> QED BY <1>1, <1>2
<1> HIDE DEF g
<1>5. flush' \in [Agents -> F] /\ flush'[a] = g /\ \A c \in Agents : c # a => flush'[c] = flush[c]
  <2> HIDE DEF F
  <2> QED BY <1>1, <1>3, <1>4
<1>6. /\ pc' \in [Agents -> Places] /\ pc'[a] # "send"
      /\ \A c \in Agents : c # a => pc'[c] = pc[c]
  BY <1>1 DEF Returned, Places
<1>7. SendsSomething'
  BY <1>5, <1>6 DEF SendsSomething, TypeInv
<1> QED BY <1>3, <1>5, <1>6, <1>7

(* The link of a comes up, or goes down: nothing is left to send.           *)
LEMMA LinkTypes ==
  ASSUME TypeInv, NEW a \in Agents, NEW g, NEW l,
         g \in [own : Buckets, bucket : Buckets, left : Seq(Msgs), count : Nat],
         l \in Places, l = "send" => g.left # <<>>,
         flush' = [flush EXCEPT ![a] = g], pc' = [pc EXCEPT ![a] = l]
  PROVE  /\ pc' \in [Agents -> Places] /\ SendsSomething'
         /\ flush' \in [Agents -> [own : Buckets, bucket : Buckets, left : Seq(Msgs), count : Nat]]
<1> DEFINE F == [own : Buckets, bucket : Buckets, left : Seq(Msgs), count : Nat]
<1>1. flush \in [Agents -> F] /\ pc \in [Agents -> Places]
  BY DEF TypeInv, TypeOK
<1> HIDE DEF F
<1>2. flush' \in [Agents -> F] /\ flush'[a] = g /\ \A c \in Agents : c # a => flush'[c] = flush[c]
  BY <1>1 DEF F
<1>3. pc' \in [Agents -> Places] /\ pc'[a] = l /\ \A c \in Agents : c # a => pc'[c] = pc[c]
  BY <1>1
<1>4. SendsSomething'
  BY <1>2, <1>3 DEF SendsSomething, TypeInv
<1> QED BY <1>2, <1>3, <1>4 DEF F

LEMMA TypesStep == TypeInv /\ [Next]_vars => TypeInv'
<1> DEFINE F == [own : Buckets, bucket : Buckets, left : Seq(Msgs), count : Nat]
<1> SUFFICES ASSUME TypeInv, [Next]_vars PROVE TypeInv'
  OBVIOUS
<1>t. TypeOK /\ SendsSomething
  BY DEF TypeInv
<1>b. Default \in Buckets /\ Peers \subseteq Buckets /\ NoFlush \in F
  BY Sets, QueueAssumption DEF Buckets
<1>f. \A a \in Agents : flush[a] \in F
  BY <1>t DEF TypeOK
<1>1. ASSUME NEW a \in Agents, AcceptGuest(a) PROVE TypeInv'
  <2>1. pc' \in [Agents -> Places] /\ SendsSomething'
    BY <1>1, <1>t DEF AcceptGuest, TypeOK, SendsSomething, Places
  <2> QED BY <1>1, <2>1, <1>t DEF AcceptGuest, TypeInv, TypeOK, queue, past
<1>2. ASSUME NEW a \in Agents, RegisterGuest(a) PROVE TypeInv'
  <2>1. NextId \in Peers
    BY <1>2 DEF RegisterGuest
  <2> DEFINE n == NextId
  <2>2. /\ n \in Peers /\ flush' = [flush EXCEPT ![a] = [NoFlush EXCEPT !.own = n, !.bucket = n]]
        /\ pc' = [pc EXCEPT ![a] = "pop"]
    BY <1>2 DEF RegisterGuest
  <2> HIDE DEF n
  <2>3. [NoFlush EXCEPT !.own = n, !.bucket = n] \in F
    BY <2>2, <1>b DEF NoFlush
  <2>4. /\ pc' \in [Agents -> Places] /\ SendsSomething' /\ flush' \in [Agents -> F]
    <3> "pop" \in Places /\ "pop" # "send"
      BY DEF Places
    <3> QED BY <2>2, <2>3, LinkTypes
  <2>5. peerOf' \in [Peers -> Agents \cup {Nobody}] /\ live' \subseteq Peers
    BY <1>2, <2>1, <1>t DEF RegisterGuest, TypeOK
  <2> HIDE DEF F
  <2>6. UNCHANGED <<up, queue, legacy, sock, past, broke, crashes>>
    BY <1>2 DEF RegisterGuest
  <2> QED BY <2>4, <2>5, <2>6, <1>t DEF TypeInv, TypeOK, queue, past, F
<1>3. ASSUME NEW a \in Agents, Dial(a) PROVE TypeInv'
  <2>2. PICK n \in Peers :
           /\ flush' = [flush EXCEPT ![a] = [NoFlush EXCEPT !.own = n, !.bucket = n]]
           /\ pc' = [pc EXCEPT ![a] = "card"]
           /\ peerOf' = [peerOf EXCEPT ![n] = a] /\ live' = live \cup {n}
           /\ sock' = [sock EXCEPT ![a] = "open"] /\ legacy' = a
    BY <1>3 DEF Dial
  <2>3. [NoFlush EXCEPT !.own = n, !.bucket = n] \in F
    BY <2>2, <1>b DEF NoFlush
  <2>4. /\ pc' \in [Agents -> Places] /\ SendsSomething' /\ flush' \in [Agents -> F]
    <3> "card" \in Places /\ "card" # "send"
      BY DEF Places
    <3> QED BY <2>2, <2>3, LinkTypes
  <2>5. /\ peerOf' \in [Peers -> Agents \cup {Nobody}] /\ live' \subseteq Peers
        /\ sock' \in [Agents -> {"none", "open", "broken"}] /\ legacy' \in Agents \cup {Nobody}
    BY <2>2, <1>t DEF TypeOK
  <2> HIDE DEF F
  <2>6. UNCHANGED <<up, queue, past, broke, crashes>>
    BY <1>3 DEF Dial
  <2> QED BY <2>4, <2>5, <2>6, <1>t DEF TypeInv, TypeOK, queue, past, F
<1>4. ASSUME NEW a \in Agents, CardSent(a) PROVE TypeInv'
  <2>1. pc' \in [Agents -> Places] /\ SendsSomething'
    BY <1>4, <1>t DEF CardSent, TypeOK, SendsSomething, Places
  <2> QED BY <1>4, <2>1, <1>t DEF CardSent, TypeInv, TypeOK, queue, past
<1>5. ASSUME NEW a \in Agents, CardFails(a) \/ Disconnected(a) PROVE TypeInv'
  <2>1. /\ flush' = [flush EXCEPT ![a] = NoFlush] /\ pc' = [pc EXCEPT ![a] = "off"]
        /\ sock' = [sock EXCEPT ![a] = "none"]
        /\ live' \subseteq live /\ legacy' \in {legacy, Nobody}
        /\ UNCHANGED <<up, queue, peerOf, past, broke, crashes>>
    BY <1>5 DEF CardFails, Disconnected
  <2>2. /\ pc' \in [Agents -> Places] /\ SendsSomething' /\ flush' \in [Agents -> F]
    <3> "off" \in Places /\ "off" # "send"
      BY DEF Places
    <3> QED BY <2>1, <1>b, LinkTypes
  <2>3. sock' \in [Agents -> {"none", "open", "broken"}]
    BY <2>1, <1>t DEF TypeOK
  <2> HIDE DEF F
  <2> QED BY <2>1, <2>2, <2>3, <1>t DEF TypeInv, TypeOK, queue, past, F
<1>6. ASSUME NEW a \in Agents, Pop(a) PROVE TypeInv'
  <2> DEFINE f == flush[a]
             q == mem[f.bucket]
  <2>1. /\ mem' = [mem EXCEPT ![f.bucket] = <<>>]
        /\ UNCHANGED <<up, rows, adding, sweeping, peerOf, live, legacy, sock, past, broke, crashes>>
    BY <1>6 DEF Pop
  <2>2. f.bucket \in Buckets /\ q \in Seq(Msgs)
    BY <1>f, <1>t DEF TypeOK
  <2>3. mem' \in [Buckets -> Seq(Msgs)] /\ \A b \in Buckets : Len(mem'[b]) <= MaxLen
    <3> MaxLen \in Nat
      BY QueueAssumption
    <3> HIDE DEF f
    <3> QED BY <2>1, <2>2, <1>t, SMTT(30) DEF TypeOK
  <2>4. pc' \in [Agents -> Places] /\ SendsSomething' /\ flush' \in [Agents -> F]
    <3>1. CASE q = <<>>
      <4> Returned(a, flush[a])
        BY <1>6, <3>1 DEF Pop
      <4> QED BY ReturnedKeepsTypes
    <3>2. CASE q # <<>>
      <4>1. pc' = [pc EXCEPT ![a] = "send"] /\ flush' = [flush EXCEPT ![a].left = q]
        BY <1>6, <3>2 DEF Pop
      <4>2. flush' \in [Agents -> F] /\ flush'[a].left = q
            /\ \A c \in Agents : c # a => flush'[c] = flush[c]
        <5> HIDE DEF q
        <5> QED BY <4>1, <2>2, <1>t DEF TypeOK
      <4>3. pc' \in [Agents -> Places]
        BY <4>1, <1>t DEF TypeOK, Places
      <4>4. SendsSomething'
        <5> HIDE DEF q
        <5> QED BY <4>1, <4>2, <3>2, <1>t DEF SendsSomething, TypeOK
      <4> QED BY <4>2, <4>3, <4>4
    <3> QED BY <3>1, <3>2
  <2> HIDE DEF F
  <2> QED BY <2>1, <2>3, <2>4, <1>t DEF TypeInv, TypeOK, past, F
<1>7. ASSUME NEW a \in Agents, FlushOne(a) PROVE TypeInv'
  <2> DEFINE f == flush[a]
             t == Tail(f.left)
             n == f.count + 1
             x == [bucket |-> f.bucket, msg |-> Head(f.left)]
  <2>1. /\ sent' = [sent EXCEPT ![a] = Append(@, x)]
        /\ everSent' = everSent \cup {Head(f.left)}
        /\ flush' = [flush EXCEPT ![a].left = t, ![a].count = n]
        /\ pc' = [pc EXCEPT ![a] = IF t = <<>> THEN "purge" ELSE "send"]
        /\ UNCHANGED <<up, queue, peerOf, live, legacy, sock, handled, to, promised,
                    dropped, cutOff, broke, crashes>>
    BY <1>7 DEF FlushOne
  <2>2. f \in F /\ f.left # <<>>
    BY <1>7, <1>f, <1>t DEF FlushOne, SendsSomething
  <2>3. Head(f.left) \in Msgs /\ t \in Seq(Msgs) /\ n \in Nat /\ x \in Row
    BY <2>2 DEF Row
  <2> HIDE DEF x, t, n
  <2>4. sent' \in [Agents -> Seq(Row)] /\ everSent' \subseteq Msgs
    <3>1. sent \in [Agents -> Seq(Row)] /\ everSent \subseteq Msgs
      BY <1>t DEF TypeOK
    <3>2. Append(sent[a], x) \in Seq(Row)
      BY <3>1, <2>3
    <3>3. sent' \in [Agents -> Seq(Row)]
      BY <2>1, <3>1, <3>2
    <3> QED BY <2>1, <2>3, <3>1, <3>3
  <2>5. flush' \in [Agents -> F] /\ flush'[a].left = t
        /\ \A c \in Agents : c # a => flush'[c] = flush[c]
    BY <2>1, <2>3, <1>t, ZenonT(40) DEF TypeOK
  <2>6. pc' \in [Agents -> Places]
    BY <2>1, <1>t DEF TypeOK, Places
  <2>7. SendsSomething'
    BY <2>1, <2>5, <1>t DEF SendsSomething, TypeOK
  <2> HIDE DEF F
  <2>8. TypeOK'
    BY <2>1, <2>4, <2>5, <2>6, <1>t DEF TypeOK, queue, F
  <2> QED BY <2>7, <2>8 DEF TypeInv
<1>8. ASSUME NEW a \in Agents, FlushFails(a) PROVE TypeInv'
  <2>1. /\ cutOff' = cutOff \cup ToSet(flush[a].left)
        /\ UNCHANGED <<up, queue, peerOf, live, legacy, sock, handled, to, promised,
                    sent, everSent, dropped, broke, crashes>>
    BY <1>8 DEF FlushFails
  <2>2. cutOff' \subseteq Msgs
    <3> flush[a].left \in Seq(Msgs)
      BY <1>f
    <3> ToSet(flush[a].left) \subseteq Msgs
      BY ElementsOf
    <3> QED BY <2>1, <1>t DEF TypeOK
  <2>3. pc' \in [Agents -> Places] /\ SendsSomething' /\ flush' \in [Agents -> F]
    <3>1. CASE flush[a].count = 0
      <4> Returned(a, flush[a])
        BY <1>8, <3>1 DEF FlushFails
      <4> QED BY ReturnedKeepsTypes
    <3>2. CASE flush[a].count # 0
      <4>1. pc' = [pc EXCEPT ![a] = "purge"] /\ flush' = [flush EXCEPT ![a].left = <<>>]
        BY <1>8, <3>2 DEF FlushFails
      <4>2. flush' \in [Agents -> F] /\ \A c \in Agents : c # a => flush'[c] = flush[c]
        <5> PICK e \in Seq(Msgs) : e = <<>>
          <6> <<>> \in Seq(Msgs)
            OBVIOUS
          <6> QED BY Zenon
        <5> flush' = [flush EXCEPT ![a].left = e]
          BY <4>1
        <5> QED BY <1>t DEF TypeOK
      <4>3. pc' \in [Agents -> Places]
        BY <4>1, <1>t DEF TypeOK, Places
      <4>4. SendsSomething'
        BY <4>1, <4>2, <1>t DEF SendsSomething, TypeOK
      <4> QED BY <4>2, <4>3, <4>4
    <3> QED BY <3>1, <3>2
  <2> HIDE DEF F
  <2> QED BY <2>1, <2>2, <2>3, <1>t DEF TypeInv, TypeOK, queue, F
<1>9. ASSUME NEW a \in Agents, Purge(a) PROVE TypeInv'
  <2>1. /\ rows' = Pick(rows, {x \in Row : x.bucket # flush[a].bucket})
        /\ Returned(a, flush[a])
        /\ UNCHANGED <<up, mem, adding, sweeping, peerOf, live, legacy, sock, past, broke, crashes>>
    BY <1>9 DEF Purge
  <2>2. rows' \in Seq(Row)
    <3> DEFINE T == {x \in Row : x.bucket # flush[a].bucket}
    <3> rows \in Seq(Row) /\ rows' = Pick(rows, T)
      BY <2>1, <1>t DEF TypeOK
    <3> HIDE DEF T
    <3> QED BY PickedRows
  <2>3. pc' \in [Agents -> Places] /\ SendsSomething' /\ flush' \in [Agents -> F]
    BY <2>1, ReturnedKeepsTypes
  <2> HIDE DEF F
  <2> QED BY <2>1, <2>2, <2>3, <1>t DEF TypeInv, TypeOK, past, F
<1>10. ASSUME NEW a \in Agents, Break(a) PROVE TypeInv'
  <2>1. sock' \in [Agents -> {"none", "open", "broken"}] /\ broke' \in 0 .. MaxBreaks
    <3> broke \in 0 .. MaxBreaks /\ MaxBreaks \in Nat
      BY QueueAssumption, <1>t DEF TypeOK
    <3> QED BY <1>10, <1>t, SMTT(30) DEF Break, TypeOK
  <2>2. UNCHANGED <<up, queue, peerOf, live, legacy, pc, flush, past, crashes>>
    BY <1>10 DEF Break
  <2> QED BY <2>1, <2>2, <1>t DEF TypeInv, TypeOK, SendsSomething, queue, past
<1>11. ASSUME NEW p \in Peers, SendToPeer(p) PROVE TypeInv'
  <2>1. peerOf[p] \in Agents /\ handled < MaxMsgs /\ p \in Buckets
    BY <1>11, <1>t, <1>b DEF SendToPeer, TypeOK
  <2>2. CASE p \in live
    BY <1>11, <2>1, <2>2, SendOnKeepsTypes DEF SendToPeer
  <2>3. CASE p \notin live
    BY <1>11, <2>1, <2>3, EnqueueKeepsTypes DEF SendToPeer
  <2> QED BY <2>2, <2>3
<1>12. ASSUME NEW p \in Peers, UnregisterDead(p) PROVE TypeInv'
  BY <1>12, <1>t DEF UnregisterDead, TypeInv, TypeOK, SendsSomething, queue, past
<1>13. ASSUME SendToDefault PROVE TypeInv'
  <2>1. legacy \in Agents \cup {Nobody} /\ handled < MaxMsgs
    BY <1>13, <1>t DEF SendToDefault, TypeOK
  <2>2. CASE legacy # Nobody
    BY <1>13, <2>1, <2>2, SendOnKeepsTypes DEF SendToDefault
  <2>3. CASE legacy = Nobody
    <3> Nobody \in Agents \cup {Nobody}
      OBVIOUS
    <3> QED BY <1>13, <1>b, <2>1, <2>3, EnqueueKeepsTypes DEF SendToDefault
  <2> QED BY <2>2, <2>3
<1>14. ASSUME InsertRow PROVE TypeInv'
  <2>1. rows \in Seq(Row) /\ adding \in Seq(Row) /\ adding # <<>>
    BY <1>14, <1>t DEF InsertRow, TypeOK
  <2>2. rows' \in Seq(Row) /\ adding[1] \in Row
    BY <1>14, <2>1 DEF InsertRow
  <2>3. promised' \subseteq Msgs
    BY <1>14, <2>2, <1>t DEF InsertRow, TypeOK, Row
  <2>4. adding' \in Seq(Row) /\ Len(adding') <= 1
    BY <1>14 DEF InsertRow
  <2>5. UNCHANGED <<up, mem, sweeping, links, handled, to, sent, everSent, dropped, cutOff, broke, crashes>>
    BY <1>14 DEF InsertRow
  <2>6. SendsSomething'
    BY <2>5, <1>t DEF SendsSomething, links
  <2>7. TypeOK'
    BY <2>2, <2>3, <2>4, <2>5, <1>t DEF TypeOK, links
  <2> QED BY <2>6, <2>7 DEF TypeInv
<1>15. ASSUME NEW c \in 1 .. handled, SweepMemory(c) PROVE TypeInv'
  <2>1. /\ mem' = [b \in Buckets |-> Unexpired(mem[b], c)]
        /\ dropped' = dropped \cup Expired(c) /\ sweeping' = {c}
        /\ UNCHANGED <<up, rows, adding, links, handled, to, promised, sent, everSent,
                 cutOff, broke, crashes>>
    BY <1>15 DEF SweepMemory
  <2>2. ASSUME NEW b \in Buckets PROVE mem'[b] \in Seq(Msgs) /\ Len(mem'[b]) <= MaxLen
    <3> DEFINE T == {m \in Msgs : m > c}
    <3>1. mem[b] \in Seq(Msgs) /\ Len(mem[b]) <= MaxLen /\ MaxLen \in Nat
      BY <1>t, QueueAssumption DEF TypeOK
    <3>2. mem'[b] = Pick(mem[b], T)
      BY <2>1 DEF Unexpired
    <3> HIDE DEF T
    <3>3. mem'[b] \in Seq(Msgs) /\ Len(mem'[b]) <= Len(mem[b])
      BY <3>1, <3>2, PickedMessages
    <3>4. Len(mem'[b]) \in Nat /\ Len(mem[b]) \in Nat
      BY <3>1, <3>3
    <3> QED BY <3>1, <3>3, <3>4
  <2>3. mem' \in [Buckets -> Seq(Msgs)]
    <3> mem' = [b \in Buckets |-> mem'[b]]
      BY <2>1
    <3> QED BY <2>2
  <2>4. Expired(c) \subseteq Msgs
    <3> SUFFICES ASSUME NEW n \in Expired(c) PROVE n \in Msgs
      OBVIOUS
    <3>1. PICK x \in Buckets : n \in ToSet(mem[x])
      BY DEF Expired
    <3>2. mem[x] \in Seq(Msgs)
      BY <1>t DEF TypeOK
    <3> QED BY <3>1, <3>2, ElementsOf
  <2>5. dropped' \subseteq Msgs /\ sweeping' \subseteq Msgs
    <3>1. c \in Msgs
      <4> handled \in 0 .. MaxMsgs /\ MaxMsgs \in Nat
        BY <1>t, QueueAssumption DEF TypeOK
      <4> QED BY DEF Msgs
    <3> QED BY <3>1, <2>1, <2>4, <1>t DEF TypeOK
  <2>6. SendsSomething'
    BY <2>1, <1>t DEF SendsSomething, links
  <2>7. TypeOK'
    BY <2>1, <2>2, <2>3, <2>5, <1>t DEF TypeOK, links
  <2> QED BY <2>6, <2>7 DEF TypeInv
<1>16. ASSUME NEW c \in 1 .. handled, SweepRows(c) PROVE TypeInv'
  <2>1. PICK d \in RowCutoffs(c) : rows' = UnexpiredRows(rows, d) /\ dropped' = dropped \cup ExpiredRows(d)
    BY <1>16 DEF SweepRows
  <2>2. /\ sweeping' = {}
        /\ UNCHANGED <<up, mem, adding, links, handled, to, promised, sent, everSent,
                 cutOff, broke, crashes>>
    BY <1>16 DEF SweepRows
  <2>3. rows' \in Seq(Row)
    <3> DEFINE T == {x \in Row : x.msg > d}
    <3> rows \in Seq(Row) /\ rows' = Pick(rows, T)
      BY <2>1, <1>t DEF TypeOK, UnexpiredRows
    <3> HIDE DEF T
    <3> QED BY PickedRows
  <2>4. dropped' \subseteq Msgs
    <3> SUFFICES ASSUME NEW n \in ExpiredRows(d) PROVE n \in Msgs
      BY <2>1, <1>t DEF TypeOK
    <3>1. PICK i \in DOMAIN rows : rows[i].msg = n
      BY DEF ExpiredRows
    <3>2. rows[i] \in Row
      BY <1>t DEF TypeOK
    <3> QED BY <3>1, <3>2 DEF Row
  <2>6. SendsSomething'
    BY <2>2, <1>t DEF SendsSomething, links
  <2>7. TypeOK'
    BY <2>2, <2>3, <2>4, <1>t DEF TypeOK, links
  <2> QED BY <2>6, <2>7 DEF TypeInv
<1>17. ASSUME Crash PROVE TypeInv'
  <2>1. mem' \in [Buckets -> Seq(Msgs)] /\ \A b \in Buckets : Len(mem'[b]) <= MaxLen
    BY <1>17, QueueAssumption DEF Crash
  <2>2. flush' \in [Agents -> F] /\ pc' \in [Agents -> Places] /\ SendsSomething'
    BY <1>17, <1>b DEF Crash, Places, SendsSomething
  <2>3. crashes' \in 0 .. MaxCrashes
    <3> crashes \in 0 .. MaxCrashes /\ MaxCrashes \in Nat
      BY QueueAssumption, <1>t DEF TypeOK
    <3> QED BY <1>17 DEF Crash
  <2>4. /\ adding' \in Seq(Row) /\ Len(adding') <= 1 /\ sweeping' \subseteq Msgs
        /\ peerOf' \in [Peers -> Agents \cup {Nobody}] /\ live' \subseteq Peers
        /\ legacy' \in Agents \cup {Nobody} /\ sock' \in [Agents -> {"none", "open", "broken"}]
        /\ sent' \in [Agents -> Seq(Row)] /\ up' \in BOOLEAN
    <3>1. adding' \in Seq(Row) /\ Len(adding') <= 1 /\ sweeping' \subseteq Msgs /\ up' \in BOOLEAN
      <4>1. adding' = <<>> /\ sweeping' = {} /\ up' = FALSE
        BY <1>17 DEF Crash
      <4>2. <<>> \in Seq(Row) /\ Len(<<>>) <= 1
        OBVIOUS
      <4> QED BY <4>1, <4>2
    <3>2. peerOf' \in [Peers -> Agents \cup {Nobody}] /\ live' \subseteq Peers
      BY <1>17 DEF Crash
    <3>3. legacy' \in Agents \cup {Nobody} /\ sock' \in [Agents -> {"none", "open", "broken"}]
      BY <1>17 DEF Crash
    <3>4. sent' \in [Agents -> Seq(Row)]
      BY <1>17 DEF Crash
    <3> QED BY <3>1, <3>2, <3>3, <3>4
  <2>5. UNCHANGED <<rows, handled, to, promised, everSent, dropped, cutOff, broke>>
    BY <1>17 DEF Crash
  <2> HIDE DEF F
  <2> QED BY <2>1, <2>2, <2>3, <2>4, <2>5, <1>t DEF TypeInv, TypeOK, F
<1>18. ASSUME Restart PROVE TypeInv'
  <2>1. /\ mem' = [b \in Buckets |-> LastOf(RowsOf(b))]
        /\ dropped' = dropped \cup UNION {ToSet(RowsOf(b)) \ ToSet(LastOf(RowsOf(b))) : b \in Buckets}
        /\ up' \in BOOLEAN
        /\ UNCHANGED <<rows, adding, sweeping, links, handled, to, promised, sent,
                 everSent, cutOff, broke, crashes>>
    BY <1>18 DEF Restart
  <2>2. ASSUME NEW b \in Buckets
        PROVE  /\ LastOf(RowsOf(b)) \in Seq(Msgs) /\ Len(LastOf(RowsOf(b))) <= MaxLen
               /\ ToSet(RowsOf(b)) \subseteq Msgs
    <3>1. RowsOf(b) \in Seq(Msgs)
      BY <1>t, LoadedRows DEF TypeOK
    <3> QED BY <3>1, LastMessages, ElementsOf
  <2>3. mem' \in [Buckets -> Seq(Msgs)] /\ \A b \in Buckets : Len(mem'[b]) <= MaxLen
    BY <2>1, <2>2
  <2>4. dropped' \subseteq Msgs
    BY <2>1, <2>2, <1>t DEF TypeOK
  <2>6. SendsSomething'
    BY <2>1, <1>t DEF SendsSomething, links
  <2>7. TypeOK'
    BY <2>1, <2>3, <2>4, <1>t DEF TypeOK, links
  <2> QED BY <2>6, <2>7 DEF TypeInv
<1>19. ASSUME UNCHANGED vars PROVE TypeInv'
  BY <1>19, <1>t DEF TypeInv, TypeOK, SendsSomething, vars, queue, links, past
<1> QED BY <1>1, <1>2, <1>3, <1>4, <1>5, <1>6, <1>7, <1>8, <1>9, <1>10, <1>11, <1>12, <1>13, <1>14,
          <1>15, <1>16, <1>17, <1>18, <1>19 DEF Next, Link

(* The types of the offline queue, the capacity of every bucket, and that a *)
(* flush that is about to send has something to send, in every reachable    *)
(* state.                                                                   *)
THEOREM QueueTypes == Spec => []TypeInv
BY TypesInit, TypesStep, PTL DEF Spec

-----------------------------------------------------------------------------
(* Once and in order.                                                       *)

LEMMA OrderInit == Init => OrderInv
<1> SUFFICES ASSUME Init PROVE OrderInv
  OBVIOUS
<1>1. /\ \A b \in Buckets : mem[b] = <<>>
      /\ \A a \in Agents : flush[a].left = <<>> /\ sent[a] = <<>>
      /\ rows = <<>> /\ adding = <<>> /\ up /\ DOMAIN sent = Agents
  BY DEF Init, NoFlush
<1>2. ToSet(<<>>) = {} /\ DOMAIN <<>> = {}
  BY DEF ToSet
<1>3. AllIncrease
  BY <1>1, <1>2 DEF AllIncrease, Increasing
<1>4. Numbered /\ Apart /\ OlderFirst /\ DownIsEmpty
  BY <1>1, <1>2 DEF Numbered, Apart, OlderFirst, DownIsEmpty
<1>5. FlushedInOrder
  BY <1>1, <1>2 DEF FlushedInOrder, OncePerLife, FifoPerBucket
<1> QED BY <1>3, <1>4, <1>5 DEF OrderInv

(* What the sequences are made of.                                          *)
LEMMA Kinds ==
  ASSUME TypeOK
  PROVE  /\ handled \in Nat
         /\ \A b \in Buckets : mem[b] \in Seq(Msgs) /\ \A m \in ToSet(mem[b]) : m \in Msgs /\ m \in Nat
         /\ \A a \in Agents : /\ flush[a].bucket \in Buckets /\ flush[a].left \in Seq(Msgs)
                              /\ \A m \in ToSet(flush[a].left) : m \in Msgs /\ m \in Nat
         /\ \A a \in Agents : /\ sent[a] \in Seq(Row)
                              /\ \A x \in ToSet(sent[a]) : x \in Row /\ x.bucket \in Buckets /\ x.msg \in Nat
         /\ \A x \in ToSet(rows) : x \in Row /\ x.bucket \in Buckets /\ x.msg \in Nat
         /\ DOMAIN sent = Agents
<1>1. \A s \in Seq(Msgs) : \A m \in ToSet(s) : m \in Msgs /\ m \in Nat
  <2>1. \A s \in Seq(Msgs) : ToSet(s) \subseteq Msgs
    BY ElementsOf
  <2> QED BY <2>1 DEF Msgs
<1>2. \A s \in Seq(Row) : \A x \in ToSet(s) : x \in Row /\ x.bucket \in Buckets /\ x.msg \in Nat
  <2>1. \A s \in Seq(Row) : ToSet(s) \subseteq Row
    BY ElementsOf
  <2>2. \A x \in Row : x.bucket \in Buckets /\ x.msg \in Nat
    BY DEF Row, Msgs
  <2> QED BY <2>1, <2>2
<1>3. handled \in Nat /\ DOMAIN sent = Agents /\ rows \in Seq(Row)
  BY DEF TypeOK
<1>4. \A b \in Buckets : mem[b] \in Seq(Msgs)
  BY DEF TypeOK
<1>5. \A a \in Agents : flush[a].bucket \in Buckets /\ flush[a].left \in Seq(Msgs) /\ sent[a] \in Seq(Row)
  BY DEF TypeOK
<1> QED BY <1>1, <1>2, <1>3, <1>4, <1>5

(* A step that hands nothing on: buckets and rows lose elements, a flush    *)
(* gives up what it has left, what was sent is kept or belongs to a life    *)
(* that is over.                                                            *)
LEMMA LosingKeepsOrder ==
  ASSUME TypeOK, TypeOK', OrderInv,
         \A b \in Buckets : ToSet(mem'[b]) \subseteq ToSet(mem[b]) /\ Increasing(mem'[b]),
         \A a \in Agents : \/ flush'[a].left = <<>>
                           \/ flush'[a].left = flush[a].left /\ flush'[a].bucket = flush[a].bucket,
         \A a \in Agents : sent'[a] = sent[a] \/ sent'[a] = <<>>,
         ToSet(rows') \subseteq ToSet(rows),
         \A i, j \in DOMAIN rows' : i < j => rows'[i].msg < rows'[j].msg,
         adding' = adding \/ adding' = <<>>,
         handled <= handled', adding' # <<>> => handled' = handled,
         up' = up \/ \A a \in Agents : sent'[a] = <<>> /\ flush'[a].left = <<>>
  PROVE  OrderInv'
<1>0. ToSet(<<>>) = {} /\ DOMAIN <<>> = {}
  BY DEF ToSet
<1>s. /\ \A a \in Agents : ToSet(sent'[a]) \subseteq ToSet(sent[a])
      /\ \A a \in Agents : ToSet(flush'[a].left) \subseteq ToSet(flush[a].left)
  BY <1>0
<1>1. AllIncrease'
  BY <1>0 DEF OrderInv, AllIncrease, Increasing
<1>2. Numbered'
  <2>0. handled \in Nat /\ handled' \in Nat
    BY DEF TypeOK
  <2>1. \A b \in Buckets : \A m \in ToSet(mem'[b]) : m <= handled'
    <3> SUFFICES ASSUME NEW b \in Buckets, NEW m \in ToSet(mem'[b]) PROVE m <= handled'
      OBVIOUS
    <3>1. m \in ToSet(mem[b])
      OBVIOUS
    <3>2. m \in Nat
      BY <3>1, Kinds
    <3>3. m <= handled
      BY <3>1 DEF OrderInv, Numbered
    <3> QED BY <3>2, <3>3, <2>0
  <2>2. \A a \in Agents : \A m \in ToSet(flush'[a].left) : m <= handled'
    <3> SUFFICES ASSUME NEW a \in Agents, NEW m \in ToSet(flush'[a].left) PROVE m <= handled'
      OBVIOUS
    <3>1. m \in ToSet(flush[a].left)
      BY <1>s
    <3>2. m \in Nat
      BY <3>1, Kinds
    <3> QED BY <3>1, <3>2, <2>0 DEF OrderInv, Numbered
  <2>3. \A a \in Agents : \A x \in ToSet(sent'[a]) : x.msg <= handled'
    <3> SUFFICES ASSUME NEW a \in Agents, NEW x \in ToSet(sent'[a]) PROVE x.msg <= handled'
      OBVIOUS
    <3>1. x \in ToSet(sent[a])
      BY <1>s
    <3>2. x.msg \in Nat
      BY <3>1, Kinds
    <3> QED BY <3>1, <3>2, <2>0 DEF OrderInv, Numbered
  <2>4. \A x \in ToSet(rows') : x.msg <= handled' /\ (adding' # <<>> => x.msg < handled')
    <3> SUFFICES ASSUME NEW x \in ToSet(rows')
                 PROVE x.msg <= handled' /\ (adding' # <<>> => x.msg < handled')
      OBVIOUS
    <3>1. x \in ToSet(rows)
      OBVIOUS
    <3>2. x.msg \in Nat
      BY <3>1, Kinds
    <3> QED BY <3>1, <3>2, <2>0 DEF OrderInv, Numbered
  <2>5. adding' # <<>> => adding'[1].msg = handled'
    BY DEF OrderInv, Numbered
  <2> QED BY <2>1, <2>2, <2>3, <2>4, <2>5 DEF Numbered
<1>3. Apart'
  BY <1>s, ZenonT(40) DEF OrderInv, Apart
<1>4. OlderFirst'
  <2>1. \A a \in Agents : \A m \in ToSet(flush'[a].left), n \in ToSet(mem'[flush'[a].bucket]) : m < n
    <3> SUFFICES ASSUME NEW a \in Agents, NEW m \in ToSet(flush'[a].left),
                        NEW n \in ToSet(mem'[flush'[a].bucket])
                 PROVE  m < n
      OBVIOUS
    <3>1. flush'[a].left = flush[a].left /\ flush'[a].bucket = flush[a].bucket
      BY <1>0
    <3>2. flush[a].bucket \in Buckets
      BY DEF TypeOK
    <3> QED BY <3>1, <3>2 DEF OrderInv, OlderFirst
  <2>2. \A a \in Agents : \A x \in ToSet(sent'[a]) : \A n \in ToSet(mem'[x.bucket]) : x.msg < n
    <3> SUFFICES ASSUME NEW a \in Agents, NEW x \in ToSet(sent'[a]), NEW n \in ToSet(mem'[x.bucket])
                 PROVE  x.msg < n
      OBVIOUS
    <3>1. x \in ToSet(sent[a])
      BY <1>s
    <3>2. x.bucket \in Buckets
      BY <3>1, Kinds
    <3> QED BY <3>1, <3>2 DEF OrderInv, OlderFirst
  <2>3. \A a \in Agents : \A x \in ToSet(sent'[a]) :
          x.bucket = flush'[a].bucket => \A n \in ToSet(flush'[a].left) : x.msg < n
    BY <1>0, <1>s DEF OrderInv, OlderFirst
  <2> QED BY <2>1, <2>2, <2>3 DEF OlderFirst
<1>5. DownIsEmpty'
  BY <1>0 DEF OrderInv, DownIsEmpty
<1>6. FlushedInOrder'
  <2>1. DOMAIN sent = Agents /\ DOMAIN sent' = Agents
    BY DEF TypeOK
  <2>2. OncePerLife'
    BY <1>0, <2>1 DEF OrderInv, FlushedInOrder, OncePerLife
  <2>3. FifoPerBucket'
    BY <1>0, <2>1 DEF OrderInv, FlushedInOrder, FifoPerBucket
  <2> QED BY <2>2, <2>3 DEF FlushedInOrder
<1> QED BY <1>1, <1>2, <1>3, <1>4, <1>5, <1>6 DEF OrderInv

(* The same, of a step that leaves buckets, rows and what was sent alone.   *)
LEMMA StayingKeepsOrder ==
  ASSUME TypeOK, TypeOK', OrderInv, UNCHANGED <<mem, rows, adding, sent, up>>,
         \A a \in Agents : \/ flush'[a].left = <<>>
                           \/ flush'[a].left = flush[a].left /\ flush'[a].bucket = flush[a].bucket,
         handled <= handled', adding # <<>> => handled' = handled
  PROVE  OrderInv'
<1>1. /\ \A b \in Buckets : Increasing(mem[b])
      /\ \A i, j \in DOMAIN rows : i < j => rows[i].msg < rows[j].msg
  BY DEF OrderInv, AllIncrease
<1>2. \A b \in Buckets : ToSet(mem'[b]) \subseteq ToSet(mem[b]) /\ Increasing(mem'[b])
  BY <1>1
<1>3. /\ \A a \in Agents : sent'[a] = sent[a] \/ sent'[a] = <<>>
      /\ ToSet(rows') \subseteq ToSet(rows)
      /\ \A i, j \in DOMAIN rows' : i < j => rows'[i].msg < rows'[j].msg
      /\ adding' = adding /\ up' = up
      /\ adding' # <<>> => handled' = handled
  BY <1>1
<1> QED BY <1>2, <1>3, LosingKeepsOrder

(* What the end of a flush leaves to the coroutines.                        *)
LEMMA LeavesOthers ==
  ASSUME TypeOK, NEW a \in Agents, Returned(a, flush[a])
  PROVE  \A c \in Agents : \/ flush'[c].left = <<>>
                           \/ flush'[c].left = flush[c].left /\ flush'[c].bucket = flush[c].bucket
<1> DEFINE f == flush[a]
           b == IF f.count = 0 /\ f.bucket # Default THEN Default ELSE f.bucket
           g == [own |-> f.own, bucket |-> b, left |-> <<>>, count |-> f.count]
<1>1. flush' = [flush EXCEPT ![a] = g] /\ DOMAIN flush = Agents
  BY DEF Returned, TypeOK
<1>2. g.left = <<>>
  OBVIOUS
<1> HIDE DEF g
<1> QED BY <1>1, <1>2

(* A new message is the greatest so far.                                    *)
LEMMA EnqueueKeepsOrder ==
  ASSUME TypeOK, TypeOK', OrderInv, LoopFree, NEW b \in Buckets, NEW a \in Agents \cup {Nobody},
         handled < MaxMsgs, Enqueue(b, a)
  PROVE  OrderInv'
<1> DEFINE m == handled + 1
<1>0. handled \in Nat /\ m \in Nat /\ adding = <<>>
  BY Kinds DEF LoopFree
<1>1. /\ \A x \in Buckets : x # b => ToSet(mem'[x]) \subseteq ToSet(mem[x])
      /\ ToSet(mem'[b]) \subseteq ToSet(mem[b]) \cup {m}
      /\ ToSet(rows') \subseteq ToSet(rows)
      /\ \A i, j \in DOMAIN rows' : i < j => rows'[i].msg < rows'[j].msg
      /\ adding' = <<[bucket |-> b, msg |-> m]>> /\ handled' = m
      /\ \A x \in Buckets : Increasing(mem'[x])
  <2>1. \A x \in Buckets : Increasing(mem[x])
    BY DEF OrderInv, AllIncrease
  <2>2. \A n \in ToSet(mem[b]) : n <= handled
    BY DEF OrderInv, Numbered
  <2>3. \A i, j \in DOMAIN rows : i < j => rows[i].msg < rows[j].msg
    BY DEF OrderInv, AllIncrease
  <2> QED BY <2>1, <2>2, <2>3, EnqueueDoes
<1>2. up' = up /\ flush' = flush /\ sent' = sent
  BY DEF Enqueue, links
<1> HIDE DEF m
<1>3. m = handled + 1
  BY DEF m
<1>4. \A x \in Buckets : \A n \in ToSet(mem'[x]) : (n \in ToSet(mem[x]) /\ n <= handled /\ n \in Nat) \/ n = m
  BY <1>1, Kinds DEF OrderInv, Numbered
<1>5. /\ \A c \in Agents : \A n \in ToSet(flush[c].left) : n \in Nat /\ n <= handled
      /\ \A c \in Agents : \A x \in ToSet(sent[c]) : x.msg \in Nat /\ x.msg <= handled /\ x.bucket \in Buckets
      /\ \A x \in ToSet(rows) : x.msg \in Nat /\ x.msg <= handled
  BY Kinds DEF OrderInv, Numbered
<1>6. AllIncrease'
  BY <1>1, <1>2 DEF OrderInv, AllIncrease
<1>7. Numbered'
  <2>0. m <= m /\ \A n \in Nat : n <= handled => n <= m /\ n < m
    BY <1>3, <1>0
  <2>1. \A x \in Buckets : \A n \in ToSet(mem'[x]) : n <= m
    BY <1>4, <2>0
  <2>2. \A c \in Agents : \A n \in ToSet(flush[c].left) : n <= m
    BY <1>5, <2>0
  <2>3. \A c \in Agents : \A x \in ToSet(sent[c]) : x.msg <= m
    BY <1>5, <2>0
  <2>4. \A x \in ToSet(rows') : x.msg < m /\ x.msg <= m
    BY <1>1, <1>5, <2>0
  <2>5. adding'[1].msg = m
    BY <1>1
  <2> QED BY <2>1, <2>2, <2>3, <2>4, <2>5, <1>1, <1>2 DEF Numbered
<1>8. Apart'
  <2>1. \A x, y \in Buckets : x # y => ToSet(mem'[x]) \cap ToSet(mem'[y]) = {}
    <3> SUFFICES ASSUME NEW x \in Buckets, NEW y \in Buckets, x # y,
                        NEW n \in ToSet(mem'[x]), n \in ToSet(mem'[y])
                 PROVE  FALSE
      OBVIOUS
    <3>1. ASSUME NEW z \in Buckets, z # b, n \in ToSet(mem'[z]) PROVE n # m
      <4>1. n \in ToSet(mem[z])
        BY <3>1, <1>1
      <4>2. n \in Nat /\ n <= handled
        BY <4>1, Kinds DEF OrderInv, Numbered
      <4> QED BY <4>2, <1>3, <1>0
    <3>2. n \in ToSet(mem[x]) \/ n = m
      BY <1>4
    <3>3. n \in ToSet(mem[y]) \/ n = m
      BY <1>4
    <3>4. n # m
      BY <3>1
    <3> QED BY <3>2, <3>3, <3>4 DEF OrderInv, Apart
  <2>2. \A x \in Buckets, c \in Agents : ToSet(mem'[x]) \cap ToSet(flush[c].left) = {}
    <3> SUFFICES ASSUME NEW x \in Buckets, NEW c \in Agents,
                        NEW n \in ToSet(mem'[x]), n \in ToSet(flush[c].left)
                 PROVE  FALSE
      OBVIOUS
    <3>1. n # m
      BY <1>5, <1>3, <1>0
    <3> QED BY <3>1, <1>4 DEF OrderInv, Apart
  <2>3. \A c \in Agents : \A x \in ToSet(sent[c]) : \A y \in Buckets : x.msg \notin ToSet(mem'[y])
    <3> SUFFICES ASSUME NEW c \in Agents, NEW x \in ToSet(sent[c]), NEW y \in Buckets,
                        x.msg \in ToSet(mem'[y])
                 PROVE  FALSE
      OBVIOUS
    <3>1. x.msg # m
      BY <1>5, <1>3, <1>0
    <3> QED BY <3>1, <1>4 DEF OrderInv, Apart
  <2> QED BY <2>1, <2>2, <2>3, <1>2 DEF OrderInv, Apart
<1>9. OlderFirst'
  <2>1. \A c \in Agents : \A n \in ToSet(flush[c].left), k \in ToSet(mem'[flush[c].bucket]) : n < k
    <3> SUFFICES ASSUME NEW c \in Agents, NEW n \in ToSet(flush[c].left),
                        NEW k \in ToSet(mem'[flush[c].bucket])
                 PROVE  n < k
      OBVIOUS
    <3>1. flush[c].bucket \in Buckets
      BY Kinds
    <3>2. CASE k = m
      <4> n \in Nat /\ n <= handled
        BY <1>5
      <4> QED BY <3>2, <1>3, <1>0
    <3>3. CASE k \in ToSet(mem[flush[c].bucket])
      BY <3>3 DEF OrderInv, OlderFirst
    <3> QED BY <3>1, <3>2, <3>3, <1>4
  <2>2. \A c \in Agents : \A x \in ToSet(sent[c]) : \A k \in ToSet(mem'[x.bucket]) : x.msg < k
    <3> SUFFICES ASSUME NEW c \in Agents, NEW x \in ToSet(sent[c]), NEW k \in ToSet(mem'[x.bucket])
                 PROVE  x.msg < k
      OBVIOUS
    <3>1. x.bucket \in Buckets
      BY <1>5
    <3>2. CASE k = m
      <4> x.msg \in Nat /\ x.msg <= handled
        BY <1>5
      <4> QED BY <3>2, <1>3, <1>0
    <3>3. CASE k \in ToSet(mem[x.bucket])
      BY <3>3 DEF OrderInv, OlderFirst
    <3> QED BY <3>1, <3>2, <3>3, <1>4
  <2> QED BY <2>1, <2>2, <1>2 DEF OrderInv, OlderFirst
<1>10. DownIsEmpty' /\ FlushedInOrder'
  BY <1>2 DEF OrderInv, DownIsEmpty, FlushedInOrder, OncePerLife, FifoPerBucket
<1> QED BY <1>6, <1>7, <1>8, <1>9, <1>10 DEF OrderInv

LEMMA OneElement ==
  ASSUME NEW S, NEW t \in Seq(S), Len(t) <= 1, t # <<>>
  PROVE  Len(t) = 1 /\ t[1] \in S
<1>1. Len(t) \in Nat /\ Len(t) # 0
  OBVIOUS
<1>2. Len(t) = 1
  BY <1>1
<1> QED BY <1>2

LEMMA OneMore ==
  ASSUME NEW S, NEW s \in Seq(S), NEW t \in Seq(S), Len(t) = 1
  PROVE  /\ DOMAIN (s \o t) = 1 .. Len(s) + 1
         /\ \A i \in 1 .. Len(s) : (s \o t)[i] = s[i]
         /\ (s \o t)[Len(s) + 1] = t[1]
<1> DEFINE u == s \o t
<1>1. /\ u \in Seq(S) /\ Len(u) = Len(s) + Len(t)
      /\ \A i \in 1 .. Len(s) + Len(t) : u[i] = IF i <= Len(s) THEN s[i] ELSE t[i - Len(s)]
  BY ConcatProperties
<1>2. Len(s) \in Nat
  OBVIOUS
<1> HIDE DEF u
<1>3. DOMAIN u = 1 .. Len(s) + 1
  BY <1>1
<1>4. \A i \in 1 .. Len(s) : u[i] = s[i]
  BY <1>1, <1>2
<1>5. u[Len(s) + 1] = t[1]
  <2>1. Len(s) + 1 \in 1 .. Len(s) + Len(t) /\ ~(Len(s) + 1 <= Len(s)) /\ (Len(s) + 1) - Len(s) = 1
    BY <1>2
  <2> QED BY <1>1, <2>1
<1> QED BY <1>3, <1>4, <1>5 DEF u

LEMMA InsertRowKeepsOrder ==
  ASSUME TypeOK, TypeOK', OrderInv, InsertRow
  PROVE  OrderInv'
<1>1. /\ UNCHANGED <<up, mem, flush, handled, sent>> /\ adding # <<>> /\ adding' = <<>>
      /\ rows' = IF Persist THEN rows \o adding ELSE rows
  BY DEF InsertRow, links
<1>2. rows \in Seq(Row) /\ adding \in Seq(Row) /\ Len(adding) = 1
  <2>1. adding \in Seq(Row) /\ Len(adding) <= 1 /\ rows \in Seq(Row)
    BY DEF TypeOK
  <2> QED BY <2>1, <1>1, OneElement
<1>3. \A i \in DOMAIN rows : rows[i] \in ToSet(rows) /\ rows[i].msg < adding[1].msg
  BY <1>1 DEF OrderInv, Numbered, ToSet
<1>4. adding[1].msg = handled /\ handled \in Nat
  BY <1>1, Kinds DEF OrderInv, Numbered
<1>5. /\ \A i, j \in DOMAIN rows' : i < j => rows'[i].msg < rows'[j].msg
      /\ \A x \in ToSet(rows') : x.msg <= handled
  <2>1. CASE rows' = rows
    BY <2>1 DEF OrderInv, AllIncrease, Numbered
  <2>2. CASE rows' = rows \o adding
    <3> DEFINE r == rows \o adding
    <3>1. DOMAIN r = 1 .. Len(rows) + 1 /\ DOMAIN rows = 1 .. Len(rows) /\ Len(rows) \in Nat
          /\ r[Len(rows) + 1] = adding[1] /\ \A i \in 1 .. Len(rows) : r[i] = rows[i]
      BY <1>2, OneMore
    <3> HIDE DEF r
    <3>2. ASSUME NEW i \in DOMAIN r, NEW j \in DOMAIN r, i < j PROVE r[i].msg < r[j].msg
      <4>1. i \in DOMAIN rows
        BY <3>1, <3>2
      <4>2. CASE j = Len(rows) + 1
        BY <4>1, <4>2, <3>1, <1>3
      <4>3. CASE j # Len(rows) + 1
        <5> j \in DOMAIN rows
          BY <4>3, <3>1
        <5> QED BY <4>1, <3>1, <3>2 DEF OrderInv, AllIncrease
      <4> QED BY <4>2, <4>3
    <3>3. ToSet(r) = ToSet(rows) \cup ToSet(adding)
      BY <1>2, ElementsOfBoth DEF r
    <3>4. \A x \in ToSet(adding) : x = adding[1]
      BY <1>2 DEF ToSet
    <3>5. \A x \in ToSet(rows) : x.msg <= handled
      BY DEF OrderInv, Numbered
    <3>6. \A x \in ToSet(r) : x.msg <= handled
      BY <3>3, <3>4, <3>5, <1>4
    <3> QED BY <2>2, <3>2, <3>6 DEF r
  <2> QED BY <2>1, <2>2, <1>1
<1>6. AllIncrease'
  BY <1>1, <1>5 DEF OrderInv, AllIncrease
<1>7. Numbered'
  BY <1>1, <1>5 DEF OrderInv, Numbered
<1>8. Apart' /\ OlderFirst' /\ DownIsEmpty'
  BY <1>1 DEF OrderInv, Apart, OlderFirst, DownIsEmpty
<1>9. FlushedInOrder'
  BY <1>1 DEF OrderInv, FlushedInOrder, OncePerLife, FifoPerBucket
<1> QED BY <1>6, <1>7, <1>8, <1>9 DEF OrderInv

(* The deque goes from the queue into the hands of one flush.               *)
LEMMA PopKeepsOrder ==
  ASSUME TypeOK, TypeOK', OrderInv, NEW a \in Agents, Pop(a)
  PROVE  OrderInv'
<1> DEFINE b == flush[a].bucket
<1>1. /\ mem' = [mem EXCEPT ![b] = <<>>] /\ UNCHANGED <<up, rows, adding, sent, handled>> /\ up
  BY DEF Pop, past, LoopFree
<1>2. b \in Buckets
  BY Kinds
<1>3. /\ \A x \in Buckets : mem'[x] = IF x = b THEN <<>> ELSE mem[x]
      /\ ToSet(<<>>) = {} /\ Increasing(<<>>)
  BY <1>1, <1>2 DEF TypeOK, ToSet, Increasing
<1>4. \A x \in Buckets : ToSet(mem'[x]) \subseteq ToSet(mem[x]) /\ Increasing(mem'[x])
  BY <1>3 DEF OrderInv, AllIncrease
<1>5. CASE mem[b] = <<>>
  <2>1. \A c \in Agents : \/ flush'[c].left = <<>>
                          \/ flush'[c].left = flush[c].left /\ flush'[c].bucket = flush[c].bucket
    <3> Returned(a, flush[a])
      BY <1>5 DEF Pop
    <3> QED BY LeavesOthers
  <2>2. \A i, j \in DOMAIN rows' : i < j => rows'[i].msg < rows'[j].msg
    BY <1>1 DEF OrderInv, AllIncrease
  <2>3. handled' = handled /\ handled \in Nat
    BY <1>1, Kinds
  <2> QED BY <1>1, <1>4, <2>1, <2>2, <2>3, LosingKeepsOrder
<1>6. CASE mem[b] # <<>>
  <2>0. flush' = [flush EXCEPT ![a].left = mem[b]]
    BY <1>6 DEF Pop
  <2>1. /\ flush'[a].left = mem[b] /\ flush'[a].bucket = b
        /\ \A c \in Agents : c # a => flush'[c] = flush[c]
    <3> mem[b] \in Seq(Msgs) /\ flush \in [Agents -> [own : Buckets, bucket : Buckets, left : Seq(Msgs), count : Nat]]
      BY Kinds DEF TypeOK
    <3> QED BY <2>0
  <2> HIDE DEF b
  <2>2. AllIncrease'
    BY <1>1, <1>2, <1>4, <2>1 DEF OrderInv, AllIncrease
  <2>3. Numbered'
    BY <1>1, <1>2, <1>4, <2>1 DEF OrderInv, Numbered
  <2>4. Apart'
    <3>1. \A x, y \in Buckets : x # y => ToSet(mem'[x]) \cap ToSet(mem'[y]) = {}
      BY <1>4 DEF OrderInv, Apart
    <3>2. \A x \in Buckets, c \in Agents : ToSet(mem'[x]) \cap ToSet(flush'[c].left) = {}
      <4> SUFFICES ASSUME NEW x \in Buckets, NEW c \in Agents
                   PROVE  ToSet(mem'[x]) \cap ToSet(flush'[c].left) = {}
        OBVIOUS
      <4>1. CASE c = a
        BY <4>1, <2>1, <1>2, <1>3 DEF OrderInv, Apart
      <4>2. CASE c # a
        BY <4>2, <2>1, <1>4 DEF OrderInv, Apart
      <4> QED BY <4>1, <4>2
    <3>3. \A c, d \in Agents : c # d => ToSet(flush'[c].left) \cap ToSet(flush'[d].left) = {}
      BY <2>1, <1>2 DEF OrderInv, Apart
    <3>4. \A c \in Agents : \A x \in ToSet(sent[c]) :
            /\ \A y \in Buckets : x.msg \notin ToSet(mem'[y])
            /\ \A d \in Agents : x.msg \notin ToSet(flush'[d].left)
      BY <1>2, <1>4, <2>1 DEF OrderInv, Apart
    <3> QED BY <3>1, <3>2, <3>3, <3>4, <1>1 DEF Apart
  <2>5. OlderFirst'
    <3>1. \A c \in Agents : \A n \in ToSet(flush'[c].left), k \in ToSet(mem'[flush'[c].bucket]) : n < k
      <4> SUFFICES ASSUME NEW c \in Agents, NEW n \in ToSet(flush'[c].left),
                          NEW k \in ToSet(mem'[flush'[c].bucket])
                   PROVE  n < k
        OBVIOUS
      <4>1. CASE c = a
        BY <4>1, <2>1, <1>2, <1>3
      <4>2. CASE c # a
        <5>1. flush[c].bucket \in Buckets /\ flush'[c] = flush[c]
          BY <4>2, <2>1, Kinds
        <5> QED BY <5>1, <1>4 DEF OrderInv, OlderFirst
      <4> QED BY <4>1, <4>2
    <3>2. \A c \in Agents : \A x \in ToSet(sent[c]) : \A k \in ToSet(mem'[x.bucket]) : x.msg < k
      BY <1>4, Kinds DEF OrderInv, OlderFirst
    <3>3. \A c \in Agents : \A x \in ToSet(sent[c]) :
            x.bucket = flush'[c].bucket => \A k \in ToSet(flush'[c].left) : x.msg < k
      BY <2>1 DEF OrderInv, OlderFirst
    <3> QED BY <3>1, <3>2, <3>3, <1>1 DEF OlderFirst
  <2>6. DownIsEmpty' /\ FlushedInOrder'
    BY <1>1 DEF OrderInv, DownIsEmpty, FlushedInOrder, OncePerLife, FifoPerBucket
  <2> QED BY <2>2, <2>3, <2>4, <2>5, <2>6 DEF OrderInv
<1> QED BY <1>5, <1>6

(* The oldest message left goes from the hands of its flush to the agent.   *)
LEMMA FlushOneKeepsOrder ==
  ASSUME TypeInv, TypeInv', OrderInv, NEW a \in Agents, FlushOne(a)
  PROVE  OrderInv'
<1> USE DEF TypeInv
<1> DEFINE l == flush[a].left
           h == Head(l)
           x == [bucket |-> flush[a].bucket, msg |-> h]
<1>1. /\ sent' = [sent EXCEPT ![a] = Append(@, x)]
      /\ flush' = [flush EXCEPT ![a].left = Tail(l), ![a].count = flush[a].count + 1]
      /\ UNCHANGED <<up, mem, rows, adding, handled>> /\ up /\ l # <<>>
  BY DEF FlushOne, queue, LoopFree, SendsSomething
<1>2. l \in Seq(Msgs) /\ flush[a].bucket \in Buckets
  BY Kinds
<1>3. /\ h \in Msgs /\ Tail(l) \in Seq(Msgs) /\ Increasing(Tail(l))
      /\ \A n \in ToSet(Tail(l)) : h < n
      /\ ToSet(l) = ToSet(Tail(l)) \cup {h}
  <2>1. Increasing(l)
    BY DEF OrderInv, AllIncrease
  <2> HIDE DEF l
  <2> QED BY <1>1, <1>2, <2>1, TailIncreases, ElementsOfTail
<1>4. h \in Nat /\ h \in ToSet(l) /\ h \notin ToSet(Tail(l))
  BY <1>3 DEF Msgs
<1>5. /\ flush'[a].left = Tail(l) /\ flush'[a].bucket = flush[a].bucket
      /\ \A c \in Agents : c # a => flush'[c] = flush[c]
  <2> DEFINE t == Tail(l)
             n == flush[a].count + 1
  <2>1. flush' = [flush EXCEPT ![a].left = t, ![a].count = n] /\ t \in Seq(Msgs)
        /\ flush \in [Agents -> [own : Buckets, bucket : Buckets, left : Seq(Msgs), count : Nat]]
    BY <1>1, <1>3 DEF TypeOK
  <2> HIDE DEF t, n
  <2>2. flush'[a].left = t /\ flush'[a].bucket = flush[a].bucket
        /\ \A c \in Agents : c # a => flush'[c] = flush[c]
    BY <2>1
  <2> QED BY <2>2 DEF t
<1>6. x \in Row /\ x.msg = h /\ x.bucket = flush[a].bucket
  BY <1>2, <1>3 DEF Row
<1> HIDE DEF x
<1>7. /\ sent'[a] = Append(sent[a], x)
      /\ \A c \in Agents : c # a => sent'[c] = sent[c]
      /\ sent[a] \in Seq(Row)
      /\ ToSet(sent'[a]) = ToSet(sent[a]) \cup {x}
  <2>1. sent \in [Agents -> Seq(Row)]
    BY DEF TypeOK
  <2>2. ToSet(Append(sent[a], x)) = ToSet(sent[a]) \cup {x}
    BY <2>1, <1>6, ElementsOfAppend
  <2> QED BY <1>1, <2>1, <2>2
<1> HIDE DEF h, l
<1>8. \A c \in Agents : ToSet(flush'[c].left) \subseteq ToSet(flush[c].left)
                        /\ flush'[c].bucket = flush[c].bucket
  BY <1>3, <1>5 DEF l
<1>9. /\ \A b \in Buckets : h \notin ToSet(mem[b])
      /\ \A c \in Agents : c # a => h \notin ToSet(flush[c].left)
      /\ \A c \in Agents : \A y \in ToSet(sent[c]) : y.msg # h
      /\ h <= handled
      /\ \A n \in ToSet(mem[flush[a].bucket]) : h < n
      /\ \A y \in ToSet(sent[a]) : y.bucket = flush[a].bucket => y.msg < h
  BY <1>2, <1>4 DEF OrderInv, Apart, Numbered, OlderFirst, l
<1>10. AllIncrease'
  BY <1>1, <1>3, <1>5 DEF OrderInv, AllIncrease
<1>11. \A c \in Agents : \A y \in ToSet(sent'[c]) : y \in ToSet(sent[c]) \/ (c = a /\ y = x)
  BY <1>7
<1>12. Numbered'
  BY <1>1, <1>6, <1>8, <1>9, <1>11 DEF OrderInv, Numbered
<1>13. Apart'
  <2>1. \A c, d \in Agents : c # d => ToSet(flush'[c].left) \cap ToSet(flush'[d].left) = {}
    BY <1>8 DEF OrderInv, Apart
  <2>2. \A b \in Buckets, c \in Agents : ToSet(mem[b]) \cap ToSet(flush'[c].left) = {}
    BY <1>8 DEF OrderInv, Apart
  <2>3. \A c \in Agents : h \notin ToSet(flush'[c].left)
    BY <1>4, <1>5, <1>9
  <2>4. ASSUME NEW c \in Agents, NEW y \in ToSet(sent'[c])
        PROVE  /\ \A b \in Buckets : y.msg \notin ToSet(mem[b])
               /\ \A d \in Agents : y.msg \notin ToSet(flush'[d].left)
    <3>1. CASE y = x
      BY <3>1, <1>6, <1>9, <2>3
    <3>2. CASE y \in ToSet(sent[c])
      BY <3>2, <1>8 DEF OrderInv, Apart
    <3> QED BY <3>1, <3>2, <1>11
  <2> QED BY <2>1, <2>2, <2>4, <1>1 DEF OrderInv, Apart
<1>14. OlderFirst'
  <2>1. \A c \in Agents : \A m \in ToSet(flush'[c].left), n \in ToSet(mem[flush'[c].bucket]) : m < n
    BY <1>8 DEF OrderInv, OlderFirst
  <2>2. ASSUME NEW c \in Agents, NEW y \in ToSet(sent'[c])
        PROVE  /\ \A n \in ToSet(mem[y.bucket]) : y.msg < n
               /\ y.bucket = flush'[c].bucket => \A n \in ToSet(flush'[c].left) : y.msg < n
    <3>1. CASE c = a /\ y = x
      BY <3>1, <1>3, <1>5, <1>6, <1>9
    <3>2. CASE y \in ToSet(sent[c])
      BY <3>2, <1>8 DEF OrderInv, OlderFirst
    <3> QED BY <3>1, <3>2, <1>11
  <2> QED BY <2>1, <2>2, <1>1 DEF OlderFirst
<1>15. DownIsEmpty'
  BY <1>1 DEF DownIsEmpty
<1>16. FlushedInOrder'
  <2> DEFINE s == sent[a]
             t == sent'[a]
             n == Len(s) + 1
  <2>1. DOMAIN sent = Agents /\ DOMAIN sent' = Agents
    BY DEF TypeOK
  <2>2. /\ Len(s) \in Nat /\ DOMAIN s = 1 .. Len(s) /\ DOMAIN t = 1 .. n
        /\ t[n] = x /\ \A i \in 1 .. Len(s) : t[i] = s[i]
    BY <1>6, <1>7
  <2>3. \A c \in Agents : \A i \in DOMAIN sent[c] : sent[c][i].msg # h
    BY <1>9 DEF ToSet
  <2>4. \A i \in 1 .. Len(s) : s[i].bucket = flush[a].bucket => s[i].msg < h
    BY <1>9, <2>2 DEF ToSet
  <2> HIDE DEF s, t, n
  <2>n. n = Len(s) + 1
    BY DEF n
  <2>5. OncePerLife'
    <3> SUFFICES ASSUME NEW c \in Agents, NEW d \in Agents, NEW i \in DOMAIN sent'[c], NEW j \in DOMAIN sent'[d],
                        sent'[c][i].msg = sent'[d][j].msg
                 PROVE  c = d /\ i = j
      BY <2>1 DEF OncePerLife
    <3>1. (c = a /\ i = n) \/ (i \in DOMAIN sent[c] /\ sent'[c][i] = sent[c][i])
      BY <1>7, <2>2, <2>n DEF s, t
    <3>2. (d = a /\ j = n) \/ (j \in DOMAIN sent[d] /\ sent'[d][j] = sent[d][j])
      BY <1>7, <2>2, <2>n DEF s, t
    <3>3. sent'[a][n].msg = h
      BY <1>6, <2>2 DEF t
    <3>4. CASE i \in DOMAIN sent[c] /\ j \in DOMAIN sent[d] /\ sent'[c][i] = sent[c][i] /\ sent'[d][j] = sent[d][j]
      BY <3>4, <2>1 DEF OrderInv, FlushedInOrder, OncePerLife
    <3> QED BY <3>1, <3>2, <3>3, <3>4, <2>3
  <2>6. FifoPerBucket'
    <3> SUFFICES ASSUME NEW c \in Agents, NEW i \in DOMAIN sent'[c], NEW j \in DOMAIN sent'[c], i < j,
                        sent'[c][i].bucket = sent'[c][j].bucket
                 PROVE  sent'[c][i].msg < sent'[c][j].msg
      BY <2>1 DEF FifoPerBucket
    <3>1. CASE c # a
      <4> sent'[c] = sent[c]
        BY <3>1, <1>7
      <4> QED BY <2>1 DEF OrderInv, FlushedInOrder, FifoPerBucket
    <3>2. CASE c = a
      <4>1. i \in 1 .. Len(s) /\ sent'[c][i] = s[i]
        BY <3>2, <2>2, <2>n DEF t
      <4>2. CASE j = n
        BY <3>2, <4>1, <4>2, <2>2, <2>4, <1>6 DEF t
      <4>3. CASE j # n
        <5>1. j \in 1 .. Len(s) /\ sent'[c][j] = s[j]
          BY <3>2, <4>3, <2>2, <2>n DEF t
        <5> QED BY <3>2, <4>1, <5>1, <2>1, <2>2 DEF OrderInv, FlushedInOrder, FifoPerBucket, s
      <4> QED BY <4>2, <4>3
    <3> QED BY <3>1, <3>2
  <2> QED BY <2>5, <2>6 DEF FlushedInOrder
<1> QED BY <1>10, <1>12, <1>13, <1>14, <1>15, <1>16 DEF OrderInv

(* The rows are loaded: in their order, every message into one bucket.      *)
LEMMA RestartKeepsOrder ==
  ASSUME TypeOK, TypeOK', OrderInv, Restart
  PROVE  OrderInv'
<1>1. /\ ~up /\ mem' = [b \in Buckets |-> LastOf(RowsOf(b))]
      /\ UNCHANGED <<rows, adding, flush, handled, sent>>
  BY DEF Restart, links
<1>2. rows \in Seq(Row) /\ \A i, j \in DOMAIN rows : i < j => rows[i].msg < rows[j].msg
  BY DEF TypeOK, OrderInv, AllIncrease
<1>3. ASSUME NEW b \in Buckets
      PROVE  /\ Increasing(mem'[b])
             /\ \A m \in ToSet(mem'[b]) : [bucket |-> b, msg |-> m] \in ToSet(rows)
  <2>1. RowsOf(b) \in Seq(Msgs) /\ Increasing(RowsOf(b))
    BY <1>2, LoadedRows
  <2>2. \A m \in ToSet(RowsOf(b)) : [bucket |-> b, msg |-> m] \in ToSet(rows)
    BY <1>2, LoadedRows
  <2>3. mem'[b] = LastOf(RowsOf(b))
    BY <1>1
  <2> QED BY <2>1, <2>2, <2>3, LastMessages
<1>4. \A a \in Agents : sent[a] = <<>> /\ flush[a].left = <<>>
  BY <1>1 DEF OrderInv, DownIsEmpty
<1>5. ToSet(<<>>) = {} /\ DOMAIN <<>> = {}
  BY DEF ToSet
<1>6. AllIncrease'
  BY <1>1, <1>2, <1>3, <1>4, <1>5 DEF AllIncrease, Increasing
<1>7. \A x, y \in ToSet(rows) : x.msg = y.msg => x = y
  <2> SUFFICES ASSUME NEW x \in ToSet(rows), NEW y \in ToSet(rows), x.msg = y.msg PROVE x = y
    OBVIOUS
  <2>1. PICK i \in DOMAIN rows, j \in DOMAIN rows : x = rows[i] /\ y = rows[j]
    BY DEF ToSet
  <2>2. i \in Nat /\ j \in Nat /\ rows[i].msg \in Nat /\ rows[j].msg \in Nat
    <3> x.msg \in Nat /\ y.msg \in Nat
      BY Kinds
    <3> QED BY <1>2, <2>1
  <2>3. ~(i < j) /\ ~(j < i)
    BY <1>2, <2>1, <2>2
  <2> QED BY <2>1, <2>2, <2>3
<1>8. Numbered'
  <2>1. ASSUME NEW b \in Buckets, NEW m \in ToSet(mem'[b]) PROVE m <= handled
    <3>1. [bucket |-> b, msg |-> m] \in ToSet(rows)
      BY <1>3, <2>1
    <3>2. [bucket |-> b, msg |-> m].msg <= handled
      BY <3>1 DEF OrderInv, Numbered
    <3> QED BY <3>2
  <2> QED BY <2>1, <1>1 DEF OrderInv, Numbered
<1>9. Apart'
  <2>1. ASSUME NEW b \in Buckets, NEW c \in Buckets, b # c PROVE ToSet(mem'[b]) \cap ToSet(mem'[c]) = {}
    <3> SUFFICES ASSUME NEW m \in ToSet(mem'[b]), m \in ToSet(mem'[c]) PROVE FALSE
      OBVIOUS
    <3>1. [bucket |-> b, msg |-> m] \in ToSet(rows) /\ [bucket |-> c, msg |-> m] \in ToSet(rows)
      BY <1>3
    <3>2. [bucket |-> b, msg |-> m] = [bucket |-> c, msg |-> m]
      BY <3>1, <1>7
    <3>3. [bucket |-> b, msg |-> m].bucket = [bucket |-> c, msg |-> m].bucket
      BY <3>2
    <3> QED BY <3>3, <2>1
  <2> QED BY <2>1, <1>1, <1>4, <1>5 DEF Apart
<1>10. OlderFirst' /\ DownIsEmpty'
  BY <1>1, <1>4, <1>5 DEF OlderFirst, DownIsEmpty
<1>11. FlushedInOrder'
  BY <1>1 DEF OrderInv, FlushedInOrder, OncePerLife, FifoPerBucket
<1> QED BY <1>6, <1>8, <1>9, <1>10, <1>11 DEF OrderInv

LEMMA OrderStep == TypeInv /\ TypeInv' /\ OrderInv /\ [Next]_vars => OrderInv'
<1> SUFFICES ASSUME TypeInv, TypeInv', OrderInv, [Next]_vars PROVE OrderInv'
  OBVIOUS
<1>t. TypeOK /\ TypeOK' /\ handled \in Nat
  BY Kinds DEF TypeInv
<1>r. \A i, j \in DOMAIN rows : i < j => rows[i].msg < rows[j].msg
  BY DEF OrderInv, AllIncrease
<1>m. \A b \in Buckets : Increasing(mem[b])
  BY DEF OrderInv, AllIncrease
<1>0. ASSUME UNCHANGED <<mem, rows, adding, sent, up, handled, flush>> PROVE OrderInv'
  BY <1>0, <1>t, StayingKeepsOrder
<1>1. ASSUME NEW a \in Agents, AcceptGuest(a) \/ CardSent(a) \/ Break(a) PROVE OrderInv'
  BY <1>1, <1>0 DEF AcceptGuest, CardSent, Break, queue, past
<1>2. ASSUME NEW a \in Agents, NEW g, g.left = <<>>, flush' = [flush EXCEPT ![a] = g],
             UNCHANGED <<mem, rows, adding, sent, up, handled>>
      PROVE  OrderInv'
  <2>1. \A c \in Agents : \/ flush'[c].left = <<>>
                          \/ flush'[c].left = flush[c].left /\ flush'[c].bucket = flush[c].bucket
    BY <1>2, <1>t DEF TypeOK
  <2> QED BY <1>2, <1>t, <2>1, StayingKeepsOrder
<1>3. ASSUME NEW a \in Agents, RegisterGuest(a) \/ Dial(a) \/ CardFails(a) \/ Disconnected(a)
      PROVE  OrderInv'
  <2>1. UNCHANGED <<mem, rows, adding, sent, up, handled>>
    BY <1>3 DEF RegisterGuest, Dial, CardFails, Disconnected, queue, past
  <2>2. \/ \E n : flush' = [flush EXCEPT ![a] = [NoFlush EXCEPT !.own = n, !.bucket = n]]
        \/ flush' = [flush EXCEPT ![a] = NoFlush]
    BY <1>3 DEF RegisterGuest, Dial, CardFails, Disconnected
  <2>3. NoFlush.left = <<>> /\ \A n : [NoFlush EXCEPT !.own = n, !.bucket = n].left = <<>>
    BY DEF NoFlush
  <2> QED BY <2>1, <2>2, <2>3, <1>2
<1>4. ASSUME NEW a \in Agents, FlushFails(a) PROVE OrderInv'
  <2>1. UNCHANGED <<mem, rows, adding, sent, up, handled>>
    BY <1>4 DEF FlushFails, queue
  <2>2. \A c \in Agents : \/ flush'[c].left = <<>>
                          \/ flush'[c].left = flush[c].left /\ flush'[c].bucket = flush[c].bucket
    <3>1. CASE flush[a].count = 0
      <4> Returned(a, flush[a])
        BY <1>4, <3>1 DEF FlushFails
      <4> QED BY <1>t, LeavesOthers
    <3>2. CASE flush[a].count # 0
      <4> flush' = [flush EXCEPT ![a].left = <<>>]
        BY <1>4, <3>2 DEF FlushFails
      <4> QED BY <1>t DEF TypeOK
    <3> QED BY <3>1, <3>2
  <2> QED BY <2>1, <2>2, <1>t, StayingKeepsOrder
<1>5. ASSUME NEW a \in Agents, Purge(a) PROVE OrderInv'
  <2>1. /\ UNCHANGED <<mem, adding, sent, up, handled>>
        /\ rows' = Pick(rows, {x \in Row : x.bucket # flush[a].bucket})
        /\ Returned(a, flush[a])
    BY <1>5 DEF Purge, past
  <2>2. /\ ToSet(rows') \subseteq ToSet(rows)
        /\ \A i, j \in DOMAIN rows' : i < j => rows'[i].msg < rows'[j].msg
    <3> DEFINE T == {x \in Row : x.bucket # flush[a].bucket}
    <3> rows \in Seq(Row) /\ rows' = Pick(rows, T)
      BY <2>1, <1>t DEF TypeOK
    <3> HIDE DEF T
    <3> QED BY <1>r, PickedRows
  <2>3. \A c \in Agents : \/ flush'[c].left = <<>>
                          \/ flush'[c].left = flush[c].left /\ flush'[c].bucket = flush[c].bucket
    BY <2>1, <1>t, LeavesOthers
  <2>4. \A b \in Buckets : ToSet(mem'[b]) \subseteq ToSet(mem[b]) /\ Increasing(mem'[b])
    BY <2>1, <1>m
  <2> QED BY <2>1, <2>2, <2>3, <2>4, <1>t, LosingKeepsOrder
<1>6. ASSUME NEW a \in Agents, SendOn(a), LoopFree PROVE OrderInv'
  <2>1. UNCHANGED <<mem, rows, adding, sent, up, flush>> /\ handled' = handled + 1 /\ adding = <<>>
    BY <1>6 DEF SendOn, queue, links, LoopFree
  <2> QED BY <2>1, <1>t, StayingKeepsOrder
<1>7. ASSUME NEW p \in Peers, SendToPeer(p) PROVE OrderInv'
  <2>1. peerOf[p] \in Agents /\ handled < MaxMsgs /\ p \in Buckets /\ LoopFree
    BY <1>7, <1>t DEF SendToPeer, TypeOK, Buckets
  <2>2. CASE p \in live
    BY <1>7, <2>1, <2>2, <1>6 DEF SendToPeer
  <2>3. CASE p \notin live
    BY <1>7, <2>1, <2>3, <1>t, EnqueueKeepsOrder DEF SendToPeer
  <2> QED BY <2>2, <2>3
<1>8. ASSUME SendToDefault PROVE OrderInv'
  <2>1. legacy \in Agents \cup {Nobody} /\ handled < MaxMsgs /\ LoopFree /\ Default \in Buckets
    BY <1>8, <1>t DEF SendToDefault, TypeOK, Buckets
  <2>2. CASE legacy # Nobody
    BY <1>8, <2>1, <2>2, <1>6 DEF SendToDefault
  <2>3. CASE legacy = Nobody
    <3> Nobody \in Agents \cup {Nobody}
      OBVIOUS
    <3> QED BY <1>8, <2>1, <2>3, <1>t, EnqueueKeepsOrder DEF SendToDefault
  <2> QED BY <2>2, <2>3
<1>9. ASSUME NEW p \in Peers, UnregisterDead(p) PROVE OrderInv'
  BY <1>9, <1>0 DEF UnregisterDead, queue, past
<1>10. ASSUME NEW c \in 1 .. handled, SweepMemory(c) PROVE OrderInv'
  <2>1. /\ mem' = [b \in Buckets |-> Unexpired(mem[b], c)]
        /\ UNCHANGED <<up, rows, adding, flush, handled, sent>>
    BY <1>10 DEF SweepMemory, links
  <2>2. \A b \in Buckets : ToSet(mem'[b]) \subseteq ToSet(mem[b]) /\ Increasing(mem'[b])
    <3> SUFFICES ASSUME NEW b \in Buckets
                 PROVE  ToSet(mem'[b]) \subseteq ToSet(mem[b]) /\ Increasing(mem'[b])
      OBVIOUS
    <3> DEFINE T == {m \in Msgs : m > c}
    <3>1. mem'[b] = Pick(mem[b], T) /\ mem[b] \in Seq(Msgs) /\ Increasing(mem[b])
      BY <2>1, <1>t, <1>m DEF Unexpired, TypeOK
    <3> HIDE DEF T
    <3> QED BY <3>1, PickedMessages
  <2> QED BY <2>1, <2>2, <1>t, <1>r, LosingKeepsOrder
<1>11. ASSUME NEW c \in 1 .. handled, SweepRows(c) PROVE OrderInv'
  <2>1. PICK d \in RowCutoffs(c) : rows' = UnexpiredRows(rows, d)
    BY <1>11 DEF SweepRows
  <2>2. UNCHANGED <<up, mem, adding, flush, handled, sent>>
    BY <1>11 DEF SweepRows, links
  <2>3. /\ ToSet(rows') \subseteq ToSet(rows)
        /\ \A i, j \in DOMAIN rows' : i < j => rows'[i].msg < rows'[j].msg
    <3> DEFINE T == {x \in Row : x.msg > d}
    <3> rows \in Seq(Row) /\ rows' = Pick(rows, T)
      BY <2>1, <1>t DEF TypeOK, UnexpiredRows
    <3> HIDE DEF T
    <3> QED BY <1>r, PickedRows
  <2>4. \A b \in Buckets : ToSet(mem'[b]) \subseteq ToSet(mem[b]) /\ Increasing(mem'[b])
    BY <2>2, <1>m
  <2> QED BY <2>2, <2>3, <2>4, <1>t, LosingKeepsOrder
<1>12. ASSUME Crash PROVE OrderInv'
  <2>1. /\ \A b \in Buckets : mem'[b] = <<>>
        /\ \A a \in Agents : flush'[a].left = <<>> /\ sent'[a] = <<>>
        /\ rows' = rows /\ adding' = <<>> /\ handled' = handled
    BY <1>12 DEF Crash, NoFlush
  <2>2. ToSet(<<>>) = {} /\ Increasing(<<>>)
    BY DEF ToSet, Increasing
  <2>3. \A b \in Buckets : ToSet(mem'[b]) \subseteq ToSet(mem[b]) /\ Increasing(mem'[b])
    BY <2>1, <2>2
  <2>4. \A i, j \in DOMAIN rows' : i < j => rows'[i].msg < rows'[j].msg
    BY <2>1, <1>r
  <2> QED BY <2>1, <2>3, <2>4, <1>t, LosingKeepsOrder
<1>13. ASSUME UNCHANGED vars PROVE OrderInv'
  BY <1>13, <1>0 DEF vars, queue, links, past
<1> QED BY <1>t, <1>1, <1>3, <1>4, <1>5, <1>7, <1>8, <1>9, <1>10, <1>11, <1>12, <1>13,
          PopKeepsOrder, FlushOneKeepsOrder, InsertRowKeepsOrder, RestartKeepsOrder DEF Next, Link

(* Whatever connects, breaks, is swept or crashes, for the host and for the *)
(* guest: a flush hands no message out twice in one life of the process,    *)
(* and the messages of a bucket in the order they were queued.              *)
THEOREM OnceAndInOrder == Spec => []FlushedInOrder
<1>1. OrderInv => FlushedInOrder
  BY DEF OrderInv
<1> QED BY <1>1, OrderInit, OrderStep, QueueTypes, PTL DEF Spec

-----------------------------------------------------------------------------
(* With --persist-queue, one link at a time and no unregistering from HTTP  *)
(* threads, what a sender was told is queued is not lost.                   *)

(* A message that waits has its row, or is about to get it.                 *)
WaitingIsStored ==
  \A b \in Buckets : \A m \in ToSet(mem[b]) : [bucket |-> b, msg |-> m] \in ToSet(rows) \cup ToSet(adding)

(* So has one a flush still has to send, unless it has expired meanwhile.   *)
FlushingIsStored ==
  \A a \in Agents : \A m \in ToSet(flush[a].left) :
    m \in dropped \/ [bucket |-> flush[a].bucket, msg |-> m] \in ToSet(rows)

(* A sweep between memory and rows has left nothing old in memory.          *)
SweepsAreOld ==
  \A c \in sweeping : c <= handled /\ \A b \in Buckets : \A m \in ToSet(mem[b]) : c < m

(* The message of a row is accounted for: a flush of the row's bucket may   *)
(* delete it once the bucket and the flush's hands are empty.               *)
Settled == everSent \cup dropped \cup cutOff
Held(x) ==
  \/ x.msg \in ToSet(mem[x.bucket]) \cup Settled
  \/ \E a \in Agents : x.bucket = flush[a].bucket /\ x.msg \in ToSet(flush[a].left)
RowsAreHeld == up => \A x \in ToSet(rows) \cup ToSet(adding) : Held(x)

PromisedIsStored == \A m \in promised : m \in Settled \/ \E x \in ToSet(rows) : x.msg = m

DownIsIdle == ~up => adding = <<>> /\ sweeping = {} /\ \A a \in Agents : pc[a] = "off"

(* Of the link that is up: it is the one frames go to, its peer id and the  *)
(* bucket it flushes are its own, and that bucket stays empty from the      *)
(* moment it is popped until the link goes down.                            *)
UpIsRegistered(a) ==
  /\ pc[a] # "off" => legacy = a
  /\ pc[a] # "send" => ToSet(flush[a].left) = {}
  /\ Role = "guest" /\ pc[a] = "card" => flush[a].bucket = flush[a].own
  /\ pc[a] \in {"pop", "send", "purge", "reading"} \/ (Role = "guest" /\ pc[a] = "card") =>
       flush[a].own \in live /\ flush[a].bucket \in {flush[a].own, Default}
PoppedIsEmpty(a) ==
  /\ pc[a] \in {"send", "purge"} => ToSet(mem[flush[a].bucket]) = {}
  /\ pc[a] = "reading" \/ (pc[a] \in {"pop", "send", "purge"} /\ flush[a].bucket = Default) =>
       ToSet(mem[flush[a].own]) = {}
LinkInv == \A a \in Agents : UpIsRegistered(a) /\ PoppedIsEmpty(a)

DurableInv == /\ WaitingIsStored /\ FlushingIsStored /\ SweepsAreOld /\ RowsAreHeld
              /\ PromisedIsStored /\ DownIsIdle /\ LinkInv

LEMMA NoElements ==
  ASSUME NEW S, NEW s \in Seq(S)
  PROVE  ToSet(s) = {} <=> s = <<>>
<1>1. ASSUME ToSet(s) = {} PROVE s = <<>>
  <2>1. s = <<>> \/ 1 \in DOMAIN s
    OBVIOUS
  <2> QED BY <1>1, <2>1 DEF ToSet
<1> QED BY <1>1, ElementsOfEmpty

LEMMA DurableInit == Init => DurableInv
<1> SUFFICES ASSUME Init PROVE DurableInv
  OBVIOUS
<1>1. /\ \A b \in Buckets : mem[b] = <<>>
      /\ \A a \in Agents : flush[a].left = <<>> /\ pc[a] = "off"
      /\ rows = <<>> /\ adding = <<>> /\ sweeping = {} /\ promised = {} /\ up
  BY DEF Init, NoFlush
<1>2. ToSet(<<>>) = {}
  BY ElementsOfEmpty
<1>3. WaitingIsStored /\ FlushingIsStored /\ SweepsAreOld /\ RowsAreHeld
  BY <1>1, <1>2 DEF WaitingIsStored, FlushingIsStored, SweepsAreOld, RowsAreHeld
<1>4. PromisedIsStored /\ DownIsIdle /\ LinkInv
  BY <1>1, <1>2 DEF PromisedIsStored, DownIsIdle, LinkInv, UpIsRegistered, PoppedIsEmpty
<1> QED BY <1>3, <1>4 DEF DurableInv

(* What _offline_enqueue loses of buckets and rows is in dropped, and the   *)
(* rows lose nothing that waits.                                            *)
LEMMA EnqueueTracks ==
  ASSUME TypeOK, NEW b \in Buckets, NEW a, handled < MaxMsgs, Enqueue(b, a)
  PROVE  /\ \A x \in Buckets : \A n \in ToSet(mem[x]) : n \in ToSet(mem'[x]) \cup dropped'
         /\ handled + 1 \in ToSet(mem'[b]) \cup dropped'
         /\ \A r \in ToSet(rows) : r \in ToSet(rows') \/ r.msg \in dropped'
         /\ \A x \in Buckets : \A n \in ToSet(mem'[x]) :
              \/ n = handled + 1 /\ x = b
              \/ n \in ToSet(mem[x]) /\ \A r \in ToSet(rows) : r.msg = n => r \in ToSet(rows')
         /\ dropped \subseteq dropped'
<1> DEFINE m == handled + 1
           swept(c) == [x \in Buckets |-> Unexpired(mem[x], c)]
           q(c) == Append(swept(c)[b], m)
<1>0. PICK c \in Cutoffs : \E d \in RowCutoffs(c) :
        /\ mem' = [swept(c) EXCEPT ![b] = LastOf(q(c))]
        /\ rows' = UnexpiredRows(rows, d)
        /\ dropped' = dropped \cup Expired(c) \cup ExpiredRows(d) \cup (ToSet(q(c)) \ ToSet(LastOf(q(c))))
  BY DEF Enqueue
<1>1. PICK d \in RowCutoffs(c) :
        /\ mem' = [swept(c) EXCEPT ![b] = LastOf(q(c))]
        /\ rows' = UnexpiredRows(rows, d)
        /\ dropped' = dropped \cup Expired(c) \cup ExpiredRows(d) \cup (ToSet(q(c)) \ ToSet(LastOf(q(c))))
  BY <1>0
<1>2. c \in Nat /\ d \in Nat /\ d <= c
  <2>1. c \in Nat
    BY Kinds DEF Cutoffs
  <2> QED BY <2>1 DEF RowCutoffs
<1>m. m \in Msgs
  <2>1. handled \in 0 .. MaxMsgs /\ MaxMsgs \in Nat
    BY QueueAssumption DEF TypeOK
  <2> QED BY <2>1 DEF Msgs
<1> DEFINE w == swept(c)
<1>3. ASSUME NEW x \in Buckets
      PROVE  w[x] \in Seq(Msgs) /\ ToSet(w[x]) = {n \in ToSet(mem[x]) : n > c}
  <2> DEFINE T == {n \in Msgs : n > c}
  <2>1. w[x] = Pick(mem[x], T) /\ mem[x] \in Seq(Msgs)
    BY Kinds DEF Unexpired
  <2>2. \A n \in ToSet(mem[x]) : n \in Msgs
    BY Kinds
  <2>3. Pick(mem[x], T) \in Seq(Msgs) /\ ToSet(Pick(mem[x], T)) = ToSet(mem[x]) \cap T
    <3> HIDE DEF T
    <3> QED BY <2>1, PickedMessages
  <2> HIDE DEF w
  <2> QED BY <2>1, <2>2, <2>3
<1>4. w \in [Buckets -> Seq(Msgs)]
  BY <1>3
<1> HIDE DEF w
<1> DEFINE p == Append(w[b], m)
           l == LastOf(p)
<1>5. mem' = [w EXCEPT ![b] = l]
      /\ dropped' = dropped \cup Expired(c) \cup ExpiredRows(d) \cup (ToSet(p) \ ToSet(l))
  BY <1>1 DEF w
<1>6. p \in Seq(Msgs) /\ ToSet(p) = ToSet(w[b]) \cup {m}
  BY <1>3, <1>m, ElementsOfAppend
<1>7. ToSet(l) \subseteq ToSet(p)
  <2> HIDE DEF p
  <2> QED BY <1>6, LastMessages
<1> HIDE DEF m, p, l
<1>8. \A x \in Buckets : mem'[x] = IF x = b THEN l ELSE w[x]
  BY <1>4, <1>5
<1>9. \A x \in Buckets : \A n \in ToSet(mem[x]) : n <= c => n \in Expired(c)
  <2> SUFFICES ASSUME NEW x \in Buckets, NEW n \in ToSet(mem[x]), n <= c PROVE n \in Expired(c)
    OBVIOUS
  <2>1. n \in 1 .. c
    <3> n \in Msgs
      BY Kinds
    <3> QED BY <1>2 DEF Msgs
  <2> QED BY <2>1 DEF Expired
<1>10. \A x \in Buckets : \A n \in ToSet(mem[x]) : n \in ToSet(mem'[x]) \cup dropped'
  <2> SUFFICES ASSUME NEW x \in Buckets, NEW n \in ToSet(mem[x]), n \notin dropped'
               PROVE  n \in ToSet(mem'[x])
    OBVIOUS
  <2>1. n \in Nat /\ ~(n <= c)
    BY <1>5, <1>9, Kinds
  <2>2. n \in ToSet(w[x])
    BY <2>1, <1>2, <1>3
  <2>3. CASE x = b
    BY <2>2, <2>3, <1>5, <1>6, <1>8
  <2>4. CASE x # b
    BY <2>2, <2>4, <1>8
  <2> QED BY <2>3, <2>4
<1>11. m \in ToSet(mem'[b]) \cup dropped'
  BY <1>5, <1>6, <1>8
<1>12. ToSet(rows') = {r \in ToSet(rows) : r.msg > d} /\ \A r \in ToSet(rows) : r \in Row /\ r.msg \in Nat
  <2> DEFINE T == {x \in Row : x.msg > d}
  <2>1. rows' = Pick(rows, T) /\ rows \in Seq(Row)
    BY <1>1 DEF UnexpiredRows, TypeOK
  <2>2. ToSet(rows') = ToSet(rows) \cap T
    <3> HIDE DEF T
    <3> QED BY <2>1, PickedRows
  <2> QED BY <2>2, Kinds
<1>13. \A r \in ToSet(rows) : r \in ToSet(rows') \/ r.msg \in dropped'
  <2> SUFFICES ASSUME NEW r \in ToSet(rows), r \notin ToSet(rows') PROVE r.msg \in dropped'
    OBVIOUS
  <2>1. r.msg <= d /\ r.msg \in Msgs
    BY <1>2, <1>12 DEF Row
  <2>2. r.msg \in 1 .. d /\ \E i \in DOMAIN rows : rows[i].msg = r.msg
    BY <2>1, <1>2 DEF ToSet, Msgs
  <2> QED BY <2>2, <1>5 DEF ExpiredRows
<1>14. \A x \in Buckets : \A n \in ToSet(mem'[x]) :
         \/ n = m /\ x = b
         \/ n \in ToSet(mem[x]) /\ \A r \in ToSet(rows) : r.msg = n => r \in ToSet(rows')
  <2> SUFFICES ASSUME NEW x \in Buckets, NEW n \in ToSet(mem'[x]), ~(n = m /\ x = b)
               PROVE  n \in ToSet(mem[x]) /\ \A r \in ToSet(rows) : r.msg = n => r \in ToSet(rows')
    OBVIOUS
  <2>1. n \in ToSet(w[x])
    BY <1>6, <1>7, <1>8
  <2>2. n \in ToSet(mem[x]) /\ n > c
    BY <2>1, <1>3
  <2>k. n \in Nat
    BY <2>2, Kinds
  <2>3. n > d
    BY <2>2, <2>k, <1>2
  <2> QED BY <2>2, <2>3, <1>12
<1> QED BY <1>5, <1>10, <1>11, <1>13, <1>14 DEF m

-----------------------------------------------------------------------------
(* Each action keeps what is stored, and what a link has flushed.           *)

StoreInv == WaitingIsStored /\ FlushingIsStored /\ SweepsAreOld /\ RowsAreHeld /\ PromisedIsStored

(* A step that leaves buckets and rows alone and gives up no message it     *)
(* does not account for.                                                    *)
LEMMA StoreStays ==
  ASSUME TypeOK, StoreInv, UNCHANGED <<up, mem, rows, adding, sweeping, promised>>,
         handled' \in Nat, handled <= handled', Settled \subseteq Settled', dropped \subseteq dropped',
         \A a \in Agents : \/ ToSet(flush'[a].left) = {}
                           \/ flush'[a].bucket = flush[a].bucket
                              /\ ToSet(flush'[a].left) \subseteq ToSet(flush[a].left),
         \A a \in Agents : \A m \in ToSet(flush[a].left) :
           \/ m \in Settled'
           \/ flush'[a].bucket = flush[a].bucket /\ m \in ToSet(flush'[a].left)
  PROVE  StoreInv'
<1>1. WaitingIsStored' /\ PromisedIsStored'
  BY DEF StoreInv, WaitingIsStored, PromisedIsStored
<1>2. FlushingIsStored'
  BY DEF StoreInv, FlushingIsStored
<1>3. SweepsAreOld'
  <2>1. handled \in Nat /\ \A c \in sweeping : c \in Nat
    BY Kinds DEF TypeOK, Msgs
  <2> QED BY <2>1 DEF StoreInv, SweepsAreOld
<1>4. RowsAreHeld'
  <2> SUFFICES ASSUME up, NEW x \in ToSet(rows) \cup ToSet(adding) PROVE Held(x)'
    BY DEF RowsAreHeld
  <2>1. Held(x)
    BY DEF StoreInv, RowsAreHeld
  <2>2. CASE x.msg \in ToSet(mem[x.bucket]) \cup Settled
    BY <2>2 DEF Held
  <2>3. CASE \E a \in Agents : x.bucket = flush[a].bucket /\ x.msg \in ToSet(flush[a].left)
    BY <2>3 DEF Held
  <2> QED BY <2>1, <2>2, <2>3 DEF Held
<1> QED BY <1>1, <1>2, <1>3, <1>4 DEF StoreInv

LEMMA EnqueueKeepsStore ==
  ASSUME TypeOK, StoreInv, LoopFree, NEW b \in Buckets, NEW a \in Agents \cup {Nobody},
         handled < MaxMsgs, Enqueue(b, a)
  PROVE  StoreInv'
<1> DEFINE m == handled + 1
           new == [bucket |-> b, msg |-> m]
<1>1. /\ \A x \in Buckets : \A n \in ToSet(mem[x]) : n \in ToSet(mem'[x]) \cup dropped'
      /\ m \in ToSet(mem'[b]) \cup dropped'
      /\ \A r \in ToSet(rows) : r \in ToSet(rows') \/ r.msg \in dropped'
      /\ \A x \in Buckets : \A n \in ToSet(mem'[x]) :
           \/ n = m /\ x = b
           \/ n \in ToSet(mem[x]) /\ \A r \in ToSet(rows) : r.msg = n => r \in ToSet(rows')
      /\ dropped \subseteq dropped'
  BY EnqueueTracks
<1>2. /\ ToSet(adding') = {new} /\ ToSet(adding) = {} /\ ToSet(rows') \subseteq ToSet(rows)
      /\ handled' = m /\ up' = up /\ up
      /\ UNCHANGED <<sweeping, flush, promised, everSent, cutOff>>
  <2>1. adding' = <<new>> /\ adding = <<>> /\ ToSet(rows') \subseteq ToSet(rows)
    BY EnqueueDoes DEF LoopFree
  <2>2. ToSet(<<>>) = {} /\ ToSet(<<new>>) = {new}
    BY DEF ToSet
  <2>3. handled' = m /\ up' = up /\ up /\ UNCHANGED <<sweeping, flush, promised, everSent, cutOff>>
    BY DEF Enqueue, links, LoopFree
  <2> QED BY <2>1, <2>2, <2>3
<1>3. handled \in Nat /\ m \in Nat /\ \A c \in sweeping : c \in Nat
  <2>1. handled \in Nat
    BY Kinds
  <2>2. \A c \in sweeping : c \in Nat
    BY DEF TypeOK, Msgs
  <2> QED BY <2>1, <2>2
<1>4. Settled \subseteq Settled'
  BY <1>1, <1>2 DEF Settled
<1>n. new.msg = m /\ new.bucket = b
  OBVIOUS
<1> HIDE DEF new, m
<1>5. WaitingIsStored'
  <2> SUFFICES ASSUME NEW x \in Buckets, NEW n \in ToSet(mem'[x])
               PROVE  [bucket |-> x, msg |-> n] \in ToSet(rows') \cup ToSet(adding')
    BY DEF WaitingIsStored
  <2>1. CASE n = m /\ x = b
    BY <2>1, <1>2 DEF new
  <2>2. CASE n \in ToSet(mem[x]) /\ \A r \in ToSet(rows) : r.msg = n => r \in ToSet(rows')
    <3>1. [bucket |-> x, msg |-> n] \in ToSet(rows)
      BY <2>2, <1>2 DEF StoreInv, WaitingIsStored
    <3>2. [bucket |-> x, msg |-> n].msg = n
      OBVIOUS
    <3> QED BY <2>2, <3>1, <3>2
  <2> QED BY <2>1, <2>2, <1>1
<1>6. FlushingIsStored'
  <2> SUFFICES ASSUME NEW c \in Agents, NEW n \in ToSet(flush[c].left)
               PROVE  n \in dropped' \/ [bucket |-> flush[c].bucket, msg |-> n] \in ToSet(rows')
    BY <1>2 DEF FlushingIsStored
  <2>1. n \in dropped \/ [bucket |-> flush[c].bucket, msg |-> n] \in ToSet(rows)
    BY DEF StoreInv, FlushingIsStored
  <2>2. [bucket |-> flush[c].bucket, msg |-> n].msg = n
    OBVIOUS
  <2> QED BY <2>1, <2>2, <1>1
<1>7. SweepsAreOld'
  <2> SUFFICES ASSUME NEW c \in sweeping
               PROVE  c <= m /\ \A x \in Buckets : \A n \in ToSet(mem'[x]) : c < n
    BY <1>2 DEF SweepsAreOld
  <2>1. c <= handled /\ \A x \in Buckets : \A n \in ToSet(mem[x]) : c < n
    BY DEF StoreInv, SweepsAreOld
  <2>2. c < m /\ c <= m
    BY <2>1, <1>3 DEF m
  <2> QED BY <2>1, <2>2, <1>1
<1>8. RowsAreHeld'
  <2> SUFFICES ASSUME NEW x \in ToSet(rows') \cup ToSet(adding') PROVE Held(x)'
    BY DEF RowsAreHeld
  <2>1. CASE x = new
    BY <2>1, <1>1, <1>n DEF Held, Settled
  <2>2. CASE x \in ToSet(rows)
    <3>1. Held(x) /\ x.bucket \in Buckets
      BY <2>2, <1>2, Kinds DEF StoreInv, RowsAreHeld
    <3>2. CASE x.msg \in ToSet(mem[x.bucket])
      BY <3>1, <3>2, <1>1 DEF Held, Settled
    <3>3. CASE x.msg \in Settled
      BY <3>3, <1>4 DEF Held
    <3>4. CASE \E c \in Agents : x.bucket = flush[c].bucket /\ x.msg \in ToSet(flush[c].left)
      BY <3>4, <1>2 DEF Held
    <3> QED BY <3>1, <3>2, <3>3, <3>4 DEF Held
  <2> QED BY <2>1, <2>2, <1>2
<1>9. PromisedIsStored'
  <2> SUFFICES ASSUME NEW n \in promised PROVE n \in Settled' \/ \E x \in ToSet(rows') : x.msg = n
    BY <1>2 DEF PromisedIsStored
  <2>1. n \in Settled \/ \E x \in ToSet(rows) : x.msg = n
    BY DEF StoreInv, PromisedIsStored
  <2> QED BY <2>1, <1>1, <1>4 DEF Settled
<1> QED BY <1>5, <1>6, <1>7, <1>8, <1>9 DEF StoreInv

LEMMA InsertRowKeepsStore ==
  ASSUME TypeOK, StoreInv, Persist, InsertRow
  PROVE  StoreInv'
<1>1. /\ adding # <<>> /\ adding' = <<>> /\ rows' = rows \o adding /\ promised' = promised \cup {adding[1].msg}
      /\ UNCHANGED <<up, mem, sweeping, flush, handled, everSent, dropped, cutOff>>
  BY DEF InsertRow, links
<1>2. ToSet(rows') = ToSet(rows) \cup ToSet(adding) /\ ToSet(adding') = {}
  <2> rows \in Seq(Row) /\ adding \in Seq(Row)
    BY DEF TypeOK
  <2> QED BY <1>1, ElementsOfBoth, ElementsOfEmpty
<1>3. adding[1] \in ToSet(adding)
  <2>1. adding \in Seq(Row) /\ Len(adding) <= 1
    BY DEF TypeOK
  <2>2. 1 \in DOMAIN adding
    BY <2>1, <1>1, OneElement
  <2> QED BY <2>2 DEF ToSet
<1>4. Settled' = Settled
  BY <1>1 DEF Settled
<1>5. WaitingIsStored' /\ FlushingIsStored' /\ SweepsAreOld'
  BY <1>1, <1>2 DEF StoreInv, WaitingIsStored, FlushingIsStored, SweepsAreOld
<1>6. RowsAreHeld'
  BY <1>1, <1>2, <1>4 DEF StoreInv, RowsAreHeld, Held
<1>7. PromisedIsStored'
  BY <1>1, <1>2, <1>3, <1>4 DEF StoreInv, PromisedIsStored
<1> QED BY <1>5, <1>6, <1>7 DEF StoreInv

LEMMA SweepMemoryKeepsStore ==
  ASSUME TypeOK, StoreInv, NEW c \in 1 .. handled, SweepMemory(c)
  PROVE  StoreInv' /\ \A b \in Buckets : ToSet(mem'[b]) \subseteq ToSet(mem[b])
<1>1. /\ mem' = [b \in Buckets |-> Unexpired(mem[b], c)] /\ dropped' = dropped \cup Expired(c) /\ sweeping' = {c}
      /\ UNCHANGED <<up, rows, adding, flush, handled, promised, everSent, cutOff>>
  BY DEF SweepMemory, links
<1>2. c \in Nat /\ c <= handled
  BY Kinds
<1>3. \A b \in Buckets : ToSet(mem'[b]) = {m \in ToSet(mem[b]) : m > c}
  <2> SUFFICES ASSUME NEW b \in Buckets PROVE ToSet(mem'[b]) = {m \in ToSet(mem[b]) : m > c}
    OBVIOUS
  <2> DEFINE T == {m \in Msgs : m > c}
  <2>1. mem'[b] = Pick(mem[b], T) /\ mem[b] \in Seq(Msgs)
    BY <1>1, Kinds DEF Unexpired
  <2>2. ToSet(mem'[b]) = ToSet(mem[b]) \cap T
    <3> HIDE DEF T
    <3> QED BY <2>1, PickedMessages
  <2> QED BY <2>2, Kinds
<1>4. \A b \in Buckets : \A m \in ToSet(mem[b]) : m \in ToSet(mem'[b]) \/ m \in dropped'
  <2> SUFFICES ASSUME NEW b \in Buckets, NEW m \in ToSet(mem[b]), m \notin ToSet(mem'[b]) PROVE m \in dropped'
    OBVIOUS
  <2>1. m \in 1 .. c
    <3>1. m \in Msgs /\ m \in Nat /\ ~(m > c)
      BY <1>3, Kinds
    <3> QED BY <3>1, <1>2 DEF Msgs
  <2> QED BY <2>1, <1>1 DEF Expired
<1>5. Settled \subseteq Settled'
  BY <1>1 DEF Settled
<1>6. WaitingIsStored' /\ FlushingIsStored' /\ PromisedIsStored'
  BY <1>1, <1>3, <1>5 DEF StoreInv, WaitingIsStored, FlushingIsStored, PromisedIsStored
<1>7. SweepsAreOld'
  <2>1. \A b \in Buckets : \A m \in ToSet(mem'[b]) : c < m
    <3> SUFFICES ASSUME NEW b \in Buckets, NEW m \in ToSet(mem'[b]) PROVE c < m
      OBVIOUS
    <3>1. m \in Nat /\ m > c
      BY <1>3, Kinds
    <3> QED BY <3>1, <1>2
  <2> QED BY <2>1, <1>1, <1>2 DEF SweepsAreOld
<1>8. RowsAreHeld'
  <2> SUFFICES ASSUME up, NEW x \in ToSet(rows) \cup ToSet(adding) PROVE Held(x)'
    BY <1>1 DEF RowsAreHeld
  <2>1. Held(x) /\ x.bucket \in Buckets
    <3> x \in Row
      BY Kinds, ElementsOf DEF TypeOK
    <3> QED BY DEF StoreInv, RowsAreHeld, Row
  <2>2. CASE x.msg \in ToSet(mem[x.bucket])
    BY <2>1, <2>2, <1>4 DEF Held, Settled
  <2>3. CASE x.msg \in Settled
    BY <2>3, <1>5 DEF Held
  <2>4. CASE \E a \in Agents : x.bucket = flush[a].bucket /\ x.msg \in ToSet(flush[a].left)
    BY <2>4, <1>1 DEF Held
  <2> QED BY <2>1, <2>2, <2>3, <2>4 DEF Held
<1> QED BY <1>3, <1>6, <1>7, <1>8 DEF StoreInv

LEMMA SweepRowsKeepsStore ==
  ASSUME TypeOK, StoreInv, NEW c \in 1 .. handled, SweepRows(c)
  PROVE  StoreInv'
<1>1. PICK d \in RowCutoffs(c) : rows' = UnexpiredRows(rows, d) /\ dropped' = dropped \cup ExpiredRows(d)
  BY DEF SweepRows
<1>2. c \in sweeping /\ sweeping' = {} /\ UNCHANGED <<up, mem, adding, flush, handled, promised, everSent, cutOff>>
  BY DEF SweepRows, links
<1>3. c \in Nat /\ d \in Nat /\ d <= c
  BY Kinds DEF RowCutoffs
<1>4. ToSet(rows') = {r \in ToSet(rows) : r.msg > d} /\ \A r \in ToSet(rows) : r \in Row /\ r.msg \in Nat
  <2> DEFINE T == {x \in Row : x.msg > d}
  <2>1. rows' = Pick(rows, T) /\ rows \in Seq(Row)
    BY <1>1 DEF UnexpiredRows, TypeOK
  <2>2. ToSet(rows') = ToSet(rows) \cap T
    <3> HIDE DEF T
    <3> QED BY <2>1, PickedRows
  <2> QED BY <2>2, Kinds
<1>5. \A r \in ToSet(rows) : r \in ToSet(rows') \/ r.msg \in dropped'
  <2> SUFFICES ASSUME NEW r \in ToSet(rows), r \notin ToSet(rows') PROVE r.msg \in dropped'
    OBVIOUS
  <2>1. r.msg <= d /\ r.msg \in Msgs
    BY <1>3, <1>4 DEF Row
  <2>2. r.msg \in 1 .. d /\ \E i \in DOMAIN rows : rows[i].msg = r.msg
    BY <2>1, <1>3 DEF ToSet, Msgs
  <2> QED BY <2>2, <1>1 DEF ExpiredRows
<1>6. Settled \subseteq Settled'
  BY <1>1, <1>2 DEF Settled
<1>7. WaitingIsStored'
  <2> SUFFICES ASSUME NEW b \in Buckets, NEW m \in ToSet(mem[b])
               PROVE  [bucket |-> b, msg |-> m] \in ToSet(rows') \cup ToSet(adding')
    BY <1>2 DEF WaitingIsStored
  <2>1. c < m /\ m \in Nat
    BY <1>2, Kinds DEF StoreInv, SweepsAreOld
  <2>2. m > d
    BY <2>1, <1>3
  <2>3. [bucket |-> b, msg |-> m] \in ToSet(rows) \cup ToSet(adding)
    BY DEF StoreInv, WaitingIsStored
  <2>4. [bucket |-> b, msg |-> m].msg = m
    OBVIOUS
  <2> QED BY <2>2, <2>3, <2>4, <1>2, <1>4
<1>8. FlushingIsStored'
  <2> SUFFICES ASSUME NEW a \in Agents, NEW n \in ToSet(flush[a].left)
               PROVE  n \in dropped' \/ [bucket |-> flush[a].bucket, msg |-> n] \in ToSet(rows')
    BY <1>2 DEF FlushingIsStored
  <2>1. n \in dropped \/ [bucket |-> flush[a].bucket, msg |-> n] \in ToSet(rows)
    BY DEF StoreInv, FlushingIsStored
  <2>2. [bucket |-> flush[a].bucket, msg |-> n].msg = n
    OBVIOUS
  <2> QED BY <2>1, <2>2, <1>1, <1>5
<1>9. SweepsAreOld'
  BY <1>2 DEF SweepsAreOld
<1>10. RowsAreHeld'
  <2> SUFFICES ASSUME up, NEW x \in ToSet(rows) \cup ToSet(adding) PROVE Held(x)'
    BY <1>2, <1>4 DEF RowsAreHeld
  <2> QED BY <1>2, <1>6 DEF StoreInv, RowsAreHeld, Held
<1>11. PromisedIsStored'
  <2> SUFFICES ASSUME NEW n \in promised PROVE n \in Settled' \/ \E x \in ToSet(rows') : x.msg = n
    BY <1>2 DEF PromisedIsStored
  <2>1. n \in Settled \/ \E x \in ToSet(rows) : x.msg = n
    BY DEF StoreInv, PromisedIsStored
  <2> QED BY <2>1, <1>5, <1>6 DEF Settled
<1> QED BY <1>7, <1>8, <1>9, <1>10, <1>11 DEF StoreInv

LEMMA CrashKeepsDurable ==
  ASSUME DurableInv, Crash
  PROVE  DurableInv'
<1>1. /\ ~up' /\ rows' = rows /\ adding' = <<>> /\ sweeping' = {} /\ \A b \in Buckets : mem'[b] = <<>>
      /\ \A a \in Agents : pc'[a] = "off" /\ flush'[a].left = <<>>
      /\ UNCHANGED <<promised, everSent, dropped, cutOff>>
  BY DEF Crash, NoFlush
<1>2. ToSet(<<>>) = {}
  BY ElementsOfEmpty
<1>3. WaitingIsStored' /\ FlushingIsStored' /\ SweepsAreOld' /\ RowsAreHeld'
  BY <1>1, <1>2 DEF WaitingIsStored, FlushingIsStored, SweepsAreOld, RowsAreHeld
<1>4. PromisedIsStored' /\ DownIsIdle'
  BY <1>1 DEF DurableInv, PromisedIsStored, DownIsIdle, Settled
<1>5. LinkInv'
  BY <1>1, <1>2 DEF LinkInv, UpIsRegistered, PoppedIsEmpty
<1> QED BY <1>3, <1>4, <1>5 DEF DurableInv

(* Every row is loaded, as a message of its bucket.                         *)
LEMMA EveryRowIsLoaded ==
  ASSUME TypeOK, NEW x \in ToSet(rows)
  PROVE  x.msg \in ToSet(RowsOf(x.bucket))
<1> DEFINE T == {y \in Row : y.bucket = x.bucket}
           r == Pick(rows, T)
           q == [i \in DOMAIN r |-> r[i].msg]
<1>1. rows \in Seq(Row) /\ x \in Row
  BY Kinds DEF TypeOK
<1>2. ToSet(r) = ToSet(rows) \cap T
  <2> HIDE DEF T
  <2> QED BY <1>1, PickedRows
<1>3. RowsOf(x.bucket) = q
  BY DEF RowsOf
<1> HIDE DEF r
<1>4. PICK i \in DOMAIN r : r[i] = x
  BY <1>1, <1>2 DEF ToSet
<1>5. i \in DOMAIN q /\ q[i] = x.msg
  BY <1>4
<1> QED BY <1>3, <1>5 DEF ToSet

LEMMA RestartKeepsDurable ==
  ASSUME TypeOK, DurableInv, Restart
  PROVE  DurableInv'
<1>1. /\ ~up /\ mem' = [b \in Buckets |-> LastOf(RowsOf(b))]
      /\ dropped' = dropped \cup UNION {ToSet(RowsOf(b)) \ ToSet(LastOf(RowsOf(b))) : b \in Buckets}
      /\ UNCHANGED <<rows, adding, sweeping, pc, flush, promised, everSent, cutOff>> /\ up'
  BY DEF Restart, links
<1>2. adding = <<>> /\ sweeping = {} /\ \A a \in Agents : pc[a] = "off" /\ ToSet(flush[a].left) = {}
  BY <1>1 DEF DurableInv, DownIsIdle, LinkInv, UpIsRegistered
<1>3. ASSUME NEW b \in Buckets
      PROVE  /\ \A m \in ToSet(mem'[b]) : [bucket |-> b, msg |-> m] \in ToSet(rows)
             /\ \A m \in ToSet(RowsOf(b)) : m \in ToSet(mem'[b]) \/ m \in dropped'
  <2>1. mem'[b] = LastOf(RowsOf(b))
    BY <1>1
  <2>2. RowsOf(b) \in Seq(Msgs) /\ \A m \in ToSet(RowsOf(b)) : [bucket |-> b, msg |-> m] \in ToSet(rows)
    BY LoadedRows DEF TypeOK
  <2>3. ToSet(LastOf(RowsOf(b))) \subseteq ToSet(RowsOf(b))
    BY <2>2, LastMessages
  <2> QED BY <2>1, <2>2, <2>3, <1>1
<1>4. Settled \subseteq Settled'
  BY <1>1 DEF Settled
<1>5. WaitingIsStored' /\ FlushingIsStored' /\ SweepsAreOld'
  BY <1>1, <1>2, <1>3 DEF WaitingIsStored, FlushingIsStored, SweepsAreOld
<1>6. RowsAreHeld'
  <2> SUFFICES ASSUME NEW x \in ToSet(rows) PROVE x.msg \in ToSet(mem'[x.bucket]) \cup dropped'
    BY <1>1, <1>2, ElementsOfEmpty DEF RowsAreHeld, Held, Settled
  <2>1. x.bucket \in Buckets
    BY Kinds
  <2> QED BY <2>1, <1>3, EveryRowIsLoaded
<1>7. PromisedIsStored' /\ DownIsIdle'
  BY <1>1, <1>4 DEF DurableInv, PromisedIsStored, DownIsIdle
<1>8. LinkInv'
  <2> SUFFICES ASSUME NEW a \in Agents PROVE UpIsRegistered(a)' /\ PoppedIsEmpty(a)'
    BY DEF LinkInv
  <2> QED BY <1>1, <1>2 DEF UpIsRegistered, PoppedIsEmpty
<1> QED BY <1>5, <1>6, <1>7, <1>8 DEF DurableInv

(* A bucket that got no message stays empty.                                *)
LEMMA LinkStays ==
  ASSUME TypeOK, LinkInv, UNCHANGED <<legacy, live, pc, flush>>,
         \A a \in Agents : pc[a] \in {"pop", "send", "purge", "reading"} =>
           \A b \in {flush[a].own, flush[a].bucket} : ToSet(mem'[b]) \subseteq ToSet(mem[b])
  PROVE  LinkInv'
<1> SUFFICES ASSUME NEW a \in Agents PROVE UpIsRegistered(a)' /\ PoppedIsEmpty(a)'
  BY DEF LinkInv
<1>1. UpIsRegistered(a) /\ PoppedIsEmpty(a)
  BY DEF LinkInv
<1>2. UpIsRegistered(a)'
  BY <1>1 DEF UpIsRegistered
<1>3. PoppedIsEmpty(a)'
  BY <1>1 DEF PoppedIsEmpty
<1> QED BY <1>2, <1>3

(* Of a link that is up: the buckets it flushes are its own and "default".  *)
LEMMA LinkBuckets ==
  ASSUME TypeOK, NEW a \in Agents, UpIsRegistered(a), pc[a] \in {"pop", "send", "purge", "reading"}
  PROVE  /\ flush[a].own \in live /\ flush[a].own \in Peers /\ flush[a].own \in Buckets
         /\ flush[a].own # Default /\ legacy = a
         /\ flush[a].bucket \in {flush[a].own, Default}
<1>1. flush[a].own \in live /\ flush[a].bucket \in {flush[a].own, Default} /\ legacy = a
  BY DEF UpIsRegistered
<1>2. flush[a].own \in Peers
  BY <1>1 DEF TypeOK
<1> QED BY <1>1, <1>2 DEF Peers, Default, Buckets

(* A flush that returns left its bucket empty.                              *)
LEMMA ReturnedKeepsLink ==
  ASSUME TypeOK, NEW a \in Agents, UpIsRegistered(a), PoppedIsEmpty(a),
         pc[a] \in {"pop", "send", "purge"}, ToSet(mem[flush[a].bucket]) = {},
         Returned(a, flush[a]), UNCHANGED <<legacy, live>>,
         \A b \in Buckets : ToSet(mem'[b]) \subseteq ToSet(mem[b])
  PROVE  UpIsRegistered(a)' /\ PoppedIsEmpty(a)' /\ ToSet(flush'[a].left) = {}
<1> DEFINE again == flush[a].count = 0 /\ flush[a].bucket # Default
<1>1. /\ pc'[a] = IF again THEN "pop" ELSE "reading"
      /\ flush'[a] = [own |-> flush[a].own, bucket |-> IF again THEN Default ELSE flush[a].bucket,
                      left |-> <<>>, count |-> flush[a].count]
  BY DEF Returned, TypeOK
<1>2. /\ flush'[a].own = flush[a].own /\ ToSet(flush'[a].left) = {}
      /\ flush'[a].bucket = IF again THEN Default ELSE flush[a].bucket
  BY <1>1, ElementsOfEmpty
<1>3. flush[a].own \in live /\ flush[a].own \in Buckets /\ legacy = a
      /\ flush[a].bucket \in {flush[a].own, Default}
  BY LinkBuckets
<1>4. ToSet(mem'[flush[a].own]) = {}
  <2>1. ToSet(mem[flush[a].own]) = {}
    BY <1>3 DEF PoppedIsEmpty
  <2> QED BY <2>1, <1>3
<1> HIDE DEF again
<1>5. UpIsRegistered(a)'
  BY <1>1, <1>2, <1>3 DEF UpIsRegistered
<1>6. PoppedIsEmpty(a)'
  BY <1>1, <1>2, <1>4 DEF PoppedIsEmpty
<1> QED BY <1>2, <1>5, <1>6

LEMMA PopKeepsDurable ==
  ASSUME TypeOK, DurableInv, NEW a \in Agents, Agents = {a}, Pop(a)
  PROVE  DurableInv'
<1> DEFINE b == flush[a].bucket
           q == mem[b]
<1>1. /\ mem' = [mem EXCEPT ![b] = <<>>] /\ up /\ adding = <<>> /\ pc[a] = "pop"
      /\ UNCHANGED <<up, rows, adding, sweeping, live, legacy, handled, promised, everSent, dropped, cutOff>>
  BY DEF Pop, past, LoopFree
<1>2. b \in Buckets /\ q \in Seq(Msgs)
  BY Kinds
<1>3. /\ \A x \in Buckets : mem'[x] = IF x = b THEN <<>> ELSE mem[x]
      /\ ToSet(<<>>) = {}
  BY <1>1, <1>2, ElementsOfEmpty DEF TypeOK
<1>4. \A x \in Buckets : ToSet(mem'[x]) \subseteq ToSet(mem[x])
  BY <1>3
<1>5. UpIsRegistered(a) /\ PoppedIsEmpty(a) /\ ToSet(flush[a].left) = {}
  BY <1>1 DEF DurableInv, LinkInv, UpIsRegistered
<1>6. WaitingIsStored' /\ SweepsAreOld' /\ PromisedIsStored' /\ DownIsIdle'
  BY <1>1, <1>4 DEF DurableInv, WaitingIsStored, SweepsAreOld, PromisedIsStored, DownIsIdle, Settled
<1>7. CASE q = <<>>
  <2>1. Returned(a, flush[a])
    BY <1>7 DEF Pop
  <2>2. UpIsRegistered(a)' /\ PoppedIsEmpty(a)' /\ ToSet(flush'[a].left) = {}
    BY <2>1, <1>1, <1>3, <1>4, <1>5, <1>7, ReturnedKeepsLink
  <2>3. FlushingIsStored'
    BY <2>2 DEF FlushingIsStored
  <2>4. RowsAreHeld'
    <3> SUFFICES ASSUME NEW x \in ToSet(rows) \cup ToSet(adding) PROVE x.msg \in ToSet(mem'[x.bucket]) \cup Settled'
      BY <1>1 DEF RowsAreHeld, Held
    <3>1. Held(x) /\ x.bucket \in Buckets
      BY <1>1, <1>3, Kinds DEF DurableInv, RowsAreHeld
    <3>2. x.msg \in ToSet(mem[x.bucket]) \cup Settled
      BY <3>1, <1>5 DEF Held
    <3> QED BY <3>1, <3>2, <1>1, <1>3, <1>7 DEF Settled
  <2>5. LinkInv'
    BY <2>2 DEF LinkInv
  <2> QED BY <1>6, <2>3, <2>4, <2>5 DEF DurableInv
<1>8. CASE q # <<>>
  <2>1. flush' = [flush EXCEPT ![a].left = q] /\ pc' = [pc EXCEPT ![a] = "send"]
    BY <1>8 DEF Pop
  <2>2. flush'[a].left = q /\ flush'[a].bucket = b /\ flush'[a].own = flush[a].own /\ pc'[a] = "send"
    <3> flush \in [Agents -> [own : Buckets, bucket : Buckets, left : Seq(Msgs), count : Nat]]
        /\ pc \in [Agents -> Places]
      BY DEF TypeOK
    <3> QED BY <2>1, <1>2
  <2> HIDE DEF q
  <2>3. FlushingIsStored'
    <3>1. \A m \in ToSet(q) : [bucket |-> b, msg |-> m] \in ToSet(rows)
      BY <1>1, <1>2, <1>3 DEF DurableInv, WaitingIsStored, q
    <3> QED BY <3>1, <2>2, <1>1 DEF FlushingIsStored
  <2>4. RowsAreHeld'
    <3> SUFFICES ASSUME NEW x \in ToSet(rows) \cup ToSet(adding)
                 PROVE  \/ x.msg \in ToSet(mem'[x.bucket]) \cup Settled'
                        \/ x.bucket = b /\ x.msg \in ToSet(q)
      BY <1>1, <2>2 DEF RowsAreHeld, Held
    <3>1. Held(x) /\ x.bucket \in Buckets
      BY <1>1, <1>3, Kinds DEF DurableInv, RowsAreHeld
    <3>2. x.msg \in ToSet(mem[x.bucket]) \cup Settled
      BY <3>1, <1>5 DEF Held
    <3> QED BY <3>1, <3>2, <1>1, <1>3 DEF Settled, q
  <2>5. LinkInv'
    <3>1. flush[a].own \in live /\ flush[a].own \in Buckets /\ legacy = a
          /\ b \in {flush[a].own, Default}
      BY <1>1, <1>5, LinkBuckets
    <3>2. UpIsRegistered(a)'
      BY <3>1, <2>2, <1>1 DEF UpIsRegistered
    <3>3. PoppedIsEmpty(a)'
      <4>1. b = Default => ToSet(mem[flush[a].own]) = {}
        BY <1>1, <1>5 DEF PoppedIsEmpty
      <4> QED BY <4>1, <3>1, <2>2, <1>2, <1>3, <1>4 DEF PoppedIsEmpty
    <3> QED BY <3>2, <3>3 DEF LinkInv
  <2> QED BY <1>6, <2>3, <2>4, <2>5 DEF DurableInv
<1> QED BY <1>7, <1>8

LEMMA FlushKeepsDurable ==
  ASSUME TypeInv, TypeInv', DurableInv, NEW a \in Agents, Agents = {a}, FlushOne(a) \/ FlushFails(a)
  PROVE  DurableInv'
<1> DEFINE f == flush[a]
<1>1. /\ up /\ pc[a] = "send" /\ f.left # <<>> /\ f.left \in Seq(Msgs) /\ TypeOK /\ TypeOK'
      /\ UNCHANGED <<up, mem, rows, adding, sweeping, live, legacy, handled, promised, dropped>>
  BY Kinds DEF FlushOne, FlushFails, queue, LoopFree, TypeInv, SendsSomething
<1>2. UpIsRegistered(a) /\ PoppedIsEmpty(a) /\ ToSet(mem[f.bucket]) = {}
  BY <1>1 DEF DurableInv, LinkInv, PoppedIsEmpty
<1>3. flush \in [Agents -> [own : Buckets, bucket : Buckets, left : Seq(Msgs), count : Nat]]
      /\ pc \in [Agents -> Places] /\ handled' \in Nat /\ handled <= handled'
  <2>1. handled \in Nat
    BY <1>1, Kinds
  <2>2. flush \in [Agents -> [own : Buckets, bucket : Buckets, left : Seq(Msgs), count : Nat]]
        /\ pc \in [Agents -> Places]
    BY <1>1 DEF TypeOK
  <2>3. handled' \in Nat /\ handled <= handled'
    <3> handled' = handled
      BY <1>1
    <3> QED BY <2>1
  <2> QED BY <2>2, <2>3
<1>4. flush[a].own \in live /\ flush[a].own \in Buckets /\ legacy = a /\ f.bucket \in {flush[a].own, Default}
  BY <1>1, <1>2, LinkBuckets
<1>5. CASE FlushOne(a)
  <2>1. /\ flush'[a].left = Tail(f.left) /\ flush'[a].bucket = f.bucket /\ flush'[a].own = f.own
        /\ pc'[a] = IF Tail(f.left) = <<>> THEN "purge" ELSE "send"
        /\ everSent' = everSent \cup {Head(f.left)} /\ cutOff' = cutOff
    BY <1>3, <1>5 DEF FlushOne
  <2>2. ToSet(Tail(f.left)) \subseteq ToSet(f.left) /\ ToSet(f.left) = ToSet(Tail(f.left)) \cup {Head(f.left)}
    BY <1>1, ElementsOfTail
  <2>3. StoreInv'
    <3>1. Settled \subseteq Settled' /\ Head(f.left) \in Settled'
      BY <2>1, <1>1 DEF Settled
    <3> QED BY <3>1, <2>1, <2>2, <1>1, <1>3, StoreStays DEF DurableInv, StoreInv
  <2>4. UpIsRegistered(a)'
    BY <2>1, <1>1, <1>4, ElementsOfEmpty DEF UpIsRegistered
  <2>5. PoppedIsEmpty(a)'
    BY <2>1, <1>1, <1>2 DEF PoppedIsEmpty
  <2>6. DownIsIdle' /\ LinkInv'
    BY <2>4, <2>5, <1>1 DEF DownIsIdle, LinkInv
  <2> QED BY <2>3, <2>6 DEF DurableInv, StoreInv
<1>6. CASE FlushFails(a)
  <2>1. /\ everSent' = everSent /\ cutOff' = cutOff \cup ToSet(f.left)
        /\ \/ Returned(a, f)
           \/ pc' = [pc EXCEPT ![a] = "purge"] /\ flush' = [flush EXCEPT ![a].left = <<>>]
    BY <1>6 DEF FlushFails
  <2>2. UpIsRegistered(a)' /\ PoppedIsEmpty(a)' /\ ToSet(flush'[a].left) = {}
    <3>1. CASE Returned(a, f)
      BY <3>1, <1>1, <1>2, ReturnedKeepsLink
    <3>2. CASE pc' = [pc EXCEPT ![a] = "purge"] /\ flush' = [flush EXCEPT ![a].left = <<>>]
      <4>1. flush'[a].bucket = f.bucket /\ flush'[a].own = f.own /\ pc'[a] = "purge" /\ ToSet(flush'[a].left) = {}
        BY <3>2, <1>3, ElementsOfEmpty
      <4>2. UpIsRegistered(a)'
        BY <4>1, <1>1, <1>4 DEF UpIsRegistered
      <4>3. PoppedIsEmpty(a)'
        BY <4>1, <1>1, <1>2 DEF PoppedIsEmpty
      <4> QED BY <4>1, <4>2, <4>3
    <3> QED BY <2>1, <3>1, <3>2
  <2>3. StoreInv'
    <3>1. Settled \subseteq Settled' /\ ToSet(f.left) \subseteq Settled'
      BY <2>1, <1>1 DEF Settled
    <3> QED BY <3>1, <2>2, <1>1, <1>3, StoreStays DEF DurableInv, StoreInv
  <2>4. DownIsIdle' /\ LinkInv'
    BY <2>2, <1>1 DEF DownIsIdle, LinkInv
  <2> QED BY <2>3, <2>4 DEF DurableInv, StoreInv
<1> QED BY <1>5, <1>6

LEMMA PurgeKeepsDurable ==
  ASSUME TypeOK, DurableInv, NEW a \in Agents, Agents = {a}, Purge(a)
  PROVE  DurableInv'
<1> DEFINE b == flush[a].bucket
           T == {x \in Row : x.bucket # b}
<1>1. /\ rows' = Pick(rows, T) /\ up /\ adding = <<>> /\ pc[a] = "purge" /\ Returned(a, flush[a])
      /\ UNCHANGED <<up, mem, adding, sweeping, live, legacy, handled, promised, everSent, dropped, cutOff>>
  BY DEF Purge, past, LoopFree
<1>2. UpIsRegistered(a) /\ PoppedIsEmpty(a) /\ ToSet(mem[b]) = {} /\ ToSet(flush[a].left) = {}
  BY <1>1 DEF DurableInv, LinkInv, PoppedIsEmpty, UpIsRegistered
<1>3. UpIsRegistered(a)' /\ PoppedIsEmpty(a)' /\ ToSet(flush'[a].left) = {}
  BY <1>1, <1>2, ReturnedKeepsLink
<1>4. ToSet(rows') = {x \in ToSet(rows) : x.bucket # b} /\ \A x \in ToSet(rows) : x \in Row
  <2>1. rows \in Seq(Row)
    BY DEF TypeOK
  <2>2. ToSet(rows') = ToSet(rows) \cap T
    <3> HIDE DEF T
    <3> QED BY <2>1, <1>1, PickedRows
  <2> QED BY <2>2, Kinds
<1> HIDE DEF b
<1>5. WaitingIsStored'
  <2> SUFFICES ASSUME NEW x \in Buckets, NEW m \in ToSet(mem[x])
               PROVE  [bucket |-> x, msg |-> m] \in ToSet(rows')
    BY <1>1 DEF WaitingIsStored
  <2>1. x # b
    BY <1>2
  <2>2. [bucket |-> x, msg |-> m] \in ToSet(rows)
    BY <1>1, ElementsOfEmpty DEF DurableInv, WaitingIsStored
  <2>3. [bucket |-> x, msg |-> m].bucket = x
    OBVIOUS
  <2> QED BY <2>1, <2>2, <2>3, <1>4
<1>6. FlushingIsStored' /\ SweepsAreOld'
  BY <1>1, <1>3 DEF DurableInv, FlushingIsStored, SweepsAreOld
<1>7. \A x \in ToSet(rows) : x.msg \in ToSet(mem[x.bucket]) \cup Settled
  BY <1>1, <1>2 DEF DurableInv, RowsAreHeld, Held
<1>8. RowsAreHeld'
  BY <1>1, <1>4, <1>7, ElementsOfEmpty DEF RowsAreHeld, Held, Settled
<1>9. PromisedIsStored'
  <2> SUFFICES ASSUME NEW n \in promised PROVE n \in Settled \/ \E x \in ToSet(rows') : x.msg = n
    BY <1>1 DEF PromisedIsStored, Settled
  <2>1. n \in Settled \/ \E x \in ToSet(rows) : x.msg = n
    BY DEF DurableInv, PromisedIsStored
  <2> QED BY <2>1, <1>2, <1>4, <1>7
<1>10. DownIsIdle' /\ LinkInv'
  BY <1>1, <1>3 DEF DownIsIdle, LinkInv
<1> QED BY <1>5, <1>6, <1>8, <1>9, <1>10 DEF DurableInv

(* A connection comes up or goes down: no flush has anything in its hands.  *)
LEMMA LinkMovesKeepDurable ==
  ASSUME TypeOK, TypeOK', DurableInv, NEW a \in Agents, Agents = {a},
         AcceptGuest(a) \/ RegisterGuest(a) \/ Dial(a) \/ CardSent(a) \/ CardFails(a) \/ Disconnected(a)
  PROVE  DurableInv'
<1>1. /\ up /\ pc[a] # "send"
      /\ UNCHANGED <<up, mem, rows, adding, sweeping, handled, promised, everSent, dropped, cutOff>>
  BY DEF AcceptGuest, RegisterGuest, Dial, CardSent, CardFails, Disconnected, queue, past, LoopFree
<1>2. UpIsRegistered(a) /\ PoppedIsEmpty(a) /\ ToSet(flush[a].left) = {}
  BY <1>1 DEF DurableInv, LinkInv, UpIsRegistered
<1>3. /\ flush \in [Agents -> [own : Buckets, bucket : Buckets, left : Seq(Msgs), count : Nat]]
      /\ pc \in [Agents -> Places] /\ Default \notin Peers /\ live \subseteq Peers /\ live' \subseteq Peers
      /\ ToSet(<<>>) = {} /\ NoFlush.left = <<>>
  <2>1. flush \in [Agents -> [own : Buckets, bucket : Buckets, left : Seq(Msgs), count : Nat]]
        /\ pc \in [Agents -> Places] /\ live \subseteq Peers
    BY DEF TypeOK
  <2>2. live' \subseteq Peers
    BY DEF TypeOK
  <2>3. Default \notin Peers
    BY DEF Default, Peers
  <2>4. ToSet(<<>>) = {} /\ NoFlush.left = <<>>
    BY ElementsOfEmpty DEF NoFlush
  <2> QED BY <2>1, <2>2, <2>3, <2>4
<1>4. UpIsRegistered(a)' /\ PoppedIsEmpty(a)' /\ ToSet(flush'[a].left) = {}
  <2>1. CASE AcceptGuest(a)
    <3>1. Role = "host" /\ pc'[a] = "card" /\ legacy' = a /\ flush' = flush
      BY <2>1, <1>3 DEF AcceptGuest
    <3> QED BY <3>1, <1>2 DEF UpIsRegistered, PoppedIsEmpty
  <2>2. CASE RegisterGuest(a)
    <3>1. /\ pc[a] = "card" /\ pc'[a] = "pop" /\ NextId \in Peers /\ live' = live \cup {NextId} /\ legacy' = legacy
          /\ flush'[a] = [NoFlush EXCEPT !.own = NextId, !.bucket = NextId]
      BY <2>2, <1>3 DEF RegisterGuest
    <3>2. flush'[a].own = NextId /\ flush'[a].bucket = NextId /\ ToSet(flush'[a].left) = {}
      BY <3>1, <1>3 DEF NoFlush
    <3>3. legacy = a
      BY <3>1, <1>2 DEF UpIsRegistered
    <3> QED BY <3>1, <3>2, <3>3, <1>3 DEF UpIsRegistered, PoppedIsEmpty
  <2>3. CASE Dial(a)
    <3>1. PICK p \in Peers : /\ live' = live \cup {p} /\ legacy' = a /\ pc'[a] = "card"
                             /\ flush'[a] = [NoFlush EXCEPT !.own = p, !.bucket = p]
      BY <2>3, <1>3 DEF Dial
    <3>2. flush'[a].own = p /\ flush'[a].bucket = p /\ ToSet(flush'[a].left) = {}
      BY <3>1, <1>3 DEF NoFlush
    <3> QED BY <3>1, <3>2, <1>3 DEF UpIsRegistered, PoppedIsEmpty
  <2>4. CASE CardSent(a)
    <3>1. /\ Role = "guest" /\ pc[a] = "card" /\ pc'[a] = "pop" /\ UNCHANGED <<live, legacy, flush>>
      BY <2>4, <1>3 DEF CardSent
    <3>2. flush[a].own \in live /\ flush[a].bucket = flush[a].own /\ legacy = a
      BY <3>1, <1>2 DEF UpIsRegistered
    <3> QED BY <3>1, <3>2, <1>2, <1>3 DEF UpIsRegistered, PoppedIsEmpty
  <2>5. CASE CardFails(a) \/ Disconnected(a)
    <3>1. pc'[a] = "off" /\ flush'[a] = NoFlush
      BY <2>5, <1>3 DEF CardFails, Disconnected
    <3> QED BY <3>1, <1>3 DEF UpIsRegistered, PoppedIsEmpty
  <2> QED BY <2>1, <2>2, <2>3, <2>4, <2>5
<1>5. StoreInv'
  <2>1. Settled' = Settled /\ handled \in Nat
    BY <1>1, Kinds DEF Settled
  <2> QED BY <2>1, <1>1, <1>2, <1>4, StoreStays DEF DurableInv, StoreInv
<1>6. DownIsIdle' /\ LinkInv'
  BY <1>1, <1>4 DEF DownIsIdle, LinkInv
<1> QED BY <1>5, <1>6 DEF DurableInv, StoreInv

(* A message that is sent or queued, while the link is as it is: it is      *)
(* queued only in a bucket the link does not flush or has yet to pop.       *)
LEMMA SendKeepsDurable ==
  ASSUME TypeOK, DurableInv, NEW a \in Agents, Agents = {a}, SendToDefault \/ \E p \in Peers : SendToPeer(p)
  PROVE  DurableInv'
<1>1. LoopFree /\ up /\ adding = <<>> /\ handled < MaxMsgs /\ handled \in Nat
  BY Kinds DEF SendToDefault, SendToPeer, LoopFree
<1>2. UpIsRegistered(a)
  BY DEF DurableInv, LinkInv
<1>3. ASSUME NEW c, SendOn(c) PROVE DurableInv'
  <2>1. /\ handled' = handled + 1 /\ everSent \subseteq everSent'
        /\ UNCHANGED <<up, mem, rows, adding, sweeping, legacy, live, pc, flush, promised, dropped, cutOff>>
    BY <1>3 DEF SendOn, queue, links
  <2>2. Settled \subseteq Settled' /\ handled' \in Nat /\ handled <= handled'
    BY <2>1, <1>1 DEF Settled
  <2>3. StoreInv'
    BY <2>1, <2>2, StoreStays DEF DurableInv, StoreInv
  <2>4. LinkInv'
    BY <2>1, LinkStays DEF DurableInv
  <2>5. DownIsIdle'
    BY <2>1, <1>1 DEF DownIsIdle
  <2> QED BY <2>3, <2>4, <2>5 DEF DurableInv, StoreInv
<1>4. ASSUME NEW b \in Buckets, NEW c \in Agents \cup {Nobody}, Enqueue(b, c),
             pc[a] \in {"pop", "send", "purge", "reading"} => b \notin {flush[a].own, Default}
      PROVE  DurableInv'
  <2>1. UNCHANGED <<up, legacy, live, pc, flush>>
    BY <1>4 DEF Enqueue, links
  <2>2. StoreInv'
    BY <1>1, <1>4, EnqueueKeepsStore DEF DurableInv, StoreInv
  <2>3. \A x \in Buckets : x # b => ToSet(mem'[x]) \subseteq ToSet(mem[x])
    BY <1>1, <1>4, EnqueueDoes
  <2>4. \A e \in Agents : pc[e] \in {"pop", "send", "purge", "reading"} =>
          \A x \in {flush[e].own, flush[e].bucket} : ToSet(mem'[x]) \subseteq ToSet(mem[x])
    <3> SUFFICES ASSUME pc[a] \in {"pop", "send", "purge", "reading"}
                 PROVE  \A x \in {flush[a].own, flush[a].bucket} : ToSet(mem'[x]) \subseteq ToSet(mem[x])
      OBVIOUS
    <3>1. flush[a].own \in Buckets /\ flush[a].bucket \in {flush[a].own, Default} /\ flush[a].bucket \in Buckets
      BY <1>2, LinkBuckets, Kinds
    <3> QED BY <3>1, <2>3, <1>4
  <2>5. LinkInv'
    BY <2>1, <2>4, LinkStays DEF DurableInv
  <2>6. DownIsIdle'
    BY <2>1, <1>1 DEF DownIsIdle
  <2> QED BY <2>2, <2>5, <2>6 DEF DurableInv, StoreInv
<1>5. ASSUME NEW p \in Peers, SendToPeer(p) PROVE DurableInv'
  <2>1. peerOf[p] \in Agents \cup {Nobody} /\ p \in Buckets /\ p # Default
    BY DEF TypeOK, Buckets, Peers, Default
  <2>2. CASE p \in live
    BY <1>5, <2>2, <1>3 DEF SendToPeer
  <2>3. CASE p \notin live
    <3>1. Enqueue(p, peerOf[p])
      BY <1>5, <2>3 DEF SendToPeer
    <3>2. pc[a] \in {"pop", "send", "purge", "reading"} => p \notin {flush[a].own, Default}
      BY <1>2, <2>1, <2>3, LinkBuckets
    <3> QED BY <3>1, <3>2, <2>1, <1>4
  <2> QED BY <2>2, <2>3
<1>6. ASSUME SendToDefault PROVE DurableInv'
  <2>1. CASE legacy # Nobody
    BY <1>6, <2>1, <1>3 DEF SendToDefault
  <2>2. CASE legacy = Nobody
    <3>1. Enqueue(Default, Nobody)
      BY <1>6, <2>2 DEF SendToDefault
    <3>2. pc[a] \notin {"pop", "send", "purge", "reading"}
      BY <1>2, <2>2, LinkBuckets, QueueAssumption
    <3>3. Default \in Buckets
      BY DEF Buckets
    <3> QED BY <3>1, <3>2, <3>3, <1>4
  <2> QED BY <2>1, <2>2
<1> QED BY <1>5, <1>6

LEMMA DurableStep ==
  ASSUME Persist, ~Unregisters, NEW h, Agents = {h}, TypeInv, TypeInv', DurableInv, [Next]_vars
  PROVE  DurableInv'
<1>t. TypeOK /\ TypeOK' /\ h \in Agents /\ handled \in Nat
  BY Kinds DEF TypeInv
<1>1. CASE InsertRow
  <2>1. UNCHANGED <<up, mem, legacy, live, pc, flush>> /\ up
    BY <1>1 DEF InsertRow, links
  <2>2. StoreInv' /\ LinkInv'
    BY <2>1, <1>1, <1>t, InsertRowKeepsStore, LinkStays DEF DurableInv, StoreInv
  <2> QED BY <2>1, <2>2 DEF DurableInv, StoreInv, DownIsIdle
<1>2. ASSUME NEW c \in 1 .. handled, SweepMemory(c) PROVE DurableInv'
  <2>1. UNCHANGED <<up, legacy, live, pc, flush>> /\ up
    BY <1>2 DEF SweepMemory, links
  <2>2. StoreInv' /\ \A b \in Buckets : ToSet(mem'[b]) \subseteq ToSet(mem[b])
    BY <1>2, <1>t, SweepMemoryKeepsStore DEF DurableInv, StoreInv
  <2>3. \A a \in Agents : flush[a].own \in Buckets /\ flush[a].bucket \in Buckets
    BY <1>t DEF TypeOK
  <2>4. LinkInv'
    BY <2>1, <2>2, <2>3, <1>t, LinkStays DEF DurableInv
  <2> QED BY <2>1, <2>2, <2>4 DEF DurableInv, StoreInv, DownIsIdle
<1>3. ASSUME NEW c \in 1 .. handled, SweepRows(c) PROVE DurableInv'
  <2>1. UNCHANGED <<up, mem, legacy, live, pc, flush>> /\ up
    BY <1>3 DEF SweepRows, links
  <2>2. StoreInv' /\ LinkInv'
    BY <2>1, <1>3, <1>t, SweepRowsKeepsStore, LinkStays DEF DurableInv, StoreInv
  <2> QED BY <2>1, <2>2 DEF DurableInv, StoreInv, DownIsIdle
<1>4. CASE UNCHANGED <<up, mem, rows, adding, sweeping, live, legacy, pc, flush, past>>
  <2>1. UNCHANGED <<handled, promised, everSent, dropped, cutOff>> /\ Settled' = Settled
    BY <1>4 DEF past, Settled
  <2>2. StoreInv' /\ LinkInv'
    BY <2>1, <1>4, <1>t, StoreStays, LinkStays DEF DurableInv, StoreInv
  <2> QED BY <2>2, <1>4 DEF DurableInv, StoreInv, DownIsIdle
<1>5. ASSUME NEW a \in Agents, Break(a) PROVE DurableInv'
  BY <1>5, <1>4 DEF Break, queue
<1>6. ASSUME NEW p \in Peers, UnregisterDead(p) PROVE DurableInv'
  BY <1>6 DEF UnregisterDead
<1>7. CASE UNCHANGED vars
  BY <1>7, <1>4 DEF vars, queue, links
<1> QED BY <1>t, <1>1, <1>2, <1>3, <1>5, <1>6, <1>7, LinkMovesKeepDurable, SendKeepsDurable, PopKeepsDurable,
          FlushKeepsDurable, PurgeKeepsDurable, CrashKeepsDurable, RestartKeepsDurable DEF Next, Link

LEMMA DurableMeans ==
  ASSUME TypeOK, DurableInv
  PROVE  KeptPromises
<1>1. \A x \in ToSet(rows) : x.msg \in Stored
  BY DEF Stored, ToSet
<1>2. QueuedIsStored
  <2> SUFFICES ASSUME LoopFree, NEW m \in Queued \cup (Flushing \ dropped) PROVE m \in Stored
    BY DEF QueuedIsStored
  <2>1. CASE m \in Queued
    <3>1. PICK b \in Buckets : m \in ToSet(mem[b])
      BY <2>1 DEF Queued
    <3>2. [bucket |-> b, msg |-> m] \in ToSet(rows)
      BY <3>1, ElementsOfEmpty DEF DurableInv, WaitingIsStored, LoopFree
    <3>3. [bucket |-> b, msg |-> m].msg = m
      OBVIOUS
    <3> QED BY <3>2, <3>3, <1>1
  <2>2. CASE m \in Flushing \ dropped
    <3>1. PICK a \in Agents : m \in ToSet(flush[a].left)
      BY <2>2 DEF Flushing
    <3>2. [bucket |-> flush[a].bucket, msg |-> m] \in ToSet(rows)
      BY <2>2, <3>1 DEF DurableInv, FlushingIsStored
    <3>3. [bucket |-> flush[a].bucket, msg |-> m].msg = m
      OBVIOUS
    <3> QED BY <3>2, <3>3, <1>1
  <2> QED BY <2>1, <2>2
<1>3. KeptUnlessBrokenOff
  BY <1>1 DEF DurableInv, PromisedIsStored, Settled, KeptUnlessBrokenOff
<1>4. OwnBucketFlushed
  <2> SUFFICES ASSUME NEW a \in Agents, pc[a] = "reading" PROVE mem[flush[a].own] = <<>>
    BY DEF OwnBucketFlushed
  <2>1. UpIsRegistered(a) /\ ToSet(mem[flush[a].own]) = {}
    BY DEF DurableInv, LinkInv, PoppedIsEmpty
  <2>2. mem[flush[a].own] \in Seq(Msgs)
    BY <2>1, LinkBuckets, Kinds
  <2> QED BY <2>1, <2>2, NoElements
<1> QED BY <1>2, <1>3, <1>4 DEF KeptPromises

(* With --persist-queue, for one link at a time that only its own coroutine *)
(* unregisters: whatever overflows, expires, breaks or crashes, what waits  *)
(* has its row, what a sender was told is queued is still somewhere, sent,  *)
(* dropped by a limit or given up by a flush that broke off, and a link     *)
(* whose flush has ended left nothing in its bucket.                        *)
THEOREM PromisedIsKept ==
  ASSUME Persist, ~Unregisters, NEW h, Agents = {h}
  PROVE  Spec => []KeptPromises
<1>1. TypeInv /\ TypeInv' /\ DurableInv /\ [Next]_vars => DurableInv'
  BY DurableStep
<1>2. TypeInv /\ DurableInv => KeptPromises
  BY DurableMeans DEF TypeInv
<1>3. Spec => []DurableInv
  BY <1>1, DurableInit, QueueTypes, PTL DEF Spec
<1> QED BY <1>2, <1>3, QueueTypes, PTL
=============================================================================
