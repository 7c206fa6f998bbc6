---------------------------- MODULE PickingProofs ----------------------------
(* Facts about sequences that the proofs about the models rest on: what     *)
(* Pick returns, and the set of elements of a sequence that is appended to, *)
(* cut or updated.  Induction is over sets of numbers: a property is the    *)
(* set of the numbers that have it.                                         *)
EXTENDS Picking, SequencesExt, TLAPS, WellFoundedInduction, NaturalsInduction,
        SequenceTheorems

(* A set of numbers has a least one.                                        *)
LEMMA Least ==
  ASSUME NEW S \in SUBSET Nat, S # {}
  PROVE  \E m \in S : \A k \in S : m <= k
<1>1. IsWellFoundedOn(OpToRel(<, Nat), Nat)
  BY NatLessThanWellFounded
<1>2. PICK m \in S : \A k \in S : ~(<<k, m>> \in OpToRel(<, Nat))
  BY <1>1, WFMin
<1>3. \A k \in S : ~(k < m)
  BY <1>2 DEF OpToRel
<1> QED BY <1>3

(* Induction: a set with 0, and with n + 1 for each of its n, has all       *)
(* numbers.                                                                 *)
LEMMA AllNumbers ==
  ASSUME NEW S, 0 \in S, \A n \in Nat : n \in S => n + 1 \in S
  PROVE  \A n \in Nat : n \in S
<1> DEFINE Out == {n \in Nat : n \notin S}
<1> SUFFICES ASSUME Out # {} PROVE FALSE
  OBVIOUS
<1>1. PICK m \in Out : \A k \in Out : m <= k
  BY Least
<1>2. m # 0 /\ m - 1 \in Nat /\ m - 1 \notin Out
  BY <1>1
<1> QED BY <1>1, <1>2

(* PickedOf is what its recursive definition says.                          *)
LEMMA PickedOfDef ==
  ASSUME NEW s, NEW T, Len(s) \in Nat
  PROVE  PickedOf(s, T) = [n \in 0 .. Len(s) |->
           IF n = 0 THEN <<>>
           ELSE IF s[n] \in T THEN Append(PickedOf(s, T)[n - 1], s[n]) ELSE PickedOf(s, T)[n - 1]]
<1> DEFINE Body(p, n) == IF n = 0 THEN <<>>
                         ELSE IF s[n] \in T THEN Append(p[n - 1], s[n]) ELSE p[n - 1]
           Good == {n \in Nat : \E p : p = [m \in 0 .. n |-> Body(p, m)]}
<1>1. 0 \in Good
  <2> DEFINE p == [m \in 0 .. 0 |-> <<>>]
  <2>1. p = [m \in 0 .. 0 |-> Body(p, m)]
    OBVIOUS
  <2> QED BY <2>1
<1>2. ASSUME NEW n \in Nat, n \in Good PROVE n + 1 \in Good
  <2>1. PICK p : p = [m \in 0 .. n |-> Body(p, m)]
    BY <1>2
  <2> DEFINE q == [m \in 0 .. n + 1 |-> IF m <= n THEN p[m] ELSE Body(p, n + 1)]
  <2>2. ASSUME NEW m \in 0 .. n + 1 PROVE q[m] = Body(q, m)
    <3>1. CASE m <= n
      <4>1. p[m] = Body(p, m) /\ q[m] = p[m]
        <5> m \in 0 .. n
          BY <3>1
        <5> HIDE DEF Body
        <5> QED BY <2>1, <3>1
      <4>2. m # 0 => q[m - 1] = p[m - 1]
        BY <3>1
      <4> QED BY <4>1, <4>2
    <3>2. CASE m = n + 1
      <4>1. q[m] = Body(p, m) /\ m # 0
        BY <3>2
      <4>2. q[m - 1] = p[m - 1]
        BY <3>2
      <4> QED BY <4>1, <4>2
    <3> QED BY <3>1, <3>2
  <2>3. q = [m \in 0 .. n + 1 |-> Body(q, m)]
    BY <2>2
  <2> HIDE DEF q, Body
  <2> n + 1 \in Nat
    OBVIOUS
  <2> QED BY <2>3
<1>3. Len(s) \in Good
  <2> HIDE DEF Good
  <2> QED BY <1>1, <1>2, AllNumbers
<1>4. PICK p : p = [m \in 0 .. Len(s) |-> Body(p, m)]
  BY <1>3
<1>5. PickedOf(s, T) = CHOOSE q : q = [m \in 0 .. Len(s) |-> Body(q, m)]
  BY DEF PickedOf
<1> QED BY <1>4, <1>5

(* The recurrence, one length at a time.                                    *)
LEMMA PickedOfStep ==
  ASSUME NEW s, NEW T, Len(s) \in Nat
  PROVE  /\ PickedOf(s, T)[0] = <<>>
         /\ \A n \in 0 .. Len(s) - 1 :
              PickedOf(s, T)[n + 1] = IF s[n + 1] \in T THEN Append(PickedOf(s, T)[n], s[n + 1])
                                      ELSE PickedOf(s, T)[n]
<1> DEFINE p == PickedOf(s, T)
<1>1. p = [n \in 0 .. Len(s) |->
             IF n = 0 THEN <<>> ELSE IF s[n] \in T THEN Append(p[n - 1], s[n]) ELSE p[n - 1]]
  BY PickedOfDef
<1> HIDE DEF p
<1>2. p[0] = <<>>
  BY <1>1
<1>3. ASSUME NEW n \in 0 .. Len(s) - 1
      PROVE  p[n + 1] = IF s[n + 1] \in T THEN Append(p[n], s[n + 1]) ELSE p[n]
  <2>1. n + 1 \in 0 .. Len(s) /\ n + 1 # 0 /\ (n + 1) - 1 = n
    OBVIOUS
  <2> QED BY <1>1, <2>1
<1> QED BY <1>2, <1>3 DEF p

(* Picked elements are elements of the sequence and of the set.             *)
LEMMA PickedOfType ==
  ASSUME NEW S, NEW s \in Seq(S), NEW T
  PROVE  \A n \in 0 .. Len(s) : PickedOf(s, T)[n] \in Seq(S \cap T)
<1> DEFINE p == PickedOf(s, T)
           Good == {n \in Nat : n <= Len(s) => p[n] \in Seq(S \cap T)}
<1>0. Len(s) \in Nat /\ <<>> \in Seq(S \cap T)
  OBVIOUS
<1>1. 0 \in Good
  BY <1>0, PickedOfStep
<1>2. ASSUME NEW n \in Nat, n \in Good PROVE n + 1 \in Good
  <2> SUFFICES ASSUME n + 1 <= Len(s) PROVE p[n + 1] \in Seq(S \cap T)
    OBVIOUS
  <2>1. p[n] \in Seq(S \cap T) /\ s[n + 1] \in S
    BY <1>2
  <2>2. p[n + 1] = IF s[n + 1] \in T THEN Append(p[n], s[n + 1]) ELSE p[n]
    BY PickedOfStep
  <2> HIDE DEF p
  <2> QED BY <2>1, <2>2
<1>3. \A n \in Nat : n \in Good
  <2> HIDE DEF Good
  <2> QED BY <1>1, <1>2, AllNumbers
<1> QED BY <1>3

LEMMA PickType ==
  ASSUME NEW S, NEW s \in Seq(S), NEW T
  PROVE  Pick(s, T) \in Seq(S \cap T)
<1>1. Len(s) \in 0 .. Len(s)
  OBVIOUS
<1> QED BY <1>1, PickedOfType DEF Pick

(* Nothing is picked of nothing.                                            *)
LEMMA PickEmpty == ASSUME NEW T PROVE Pick(<<>>, T) = <<>>
BY PickedOfStep DEF Pick

(* Two sequences that begin alike are picked from alike.                    *)
LEMMA PickedOfPrefix ==
  ASSUME NEW s, NEW t, NEW T, Len(s) \in Nat, Len(t) \in Nat, Len(s) <= Len(t),
         \A i \in 1 .. Len(s) : s[i] = t[i]
  PROVE  \A n \in 0 .. Len(s) : PickedOf(s, T)[n] = PickedOf(t, T)[n]
<1> DEFINE p == PickedOf(s, T)
           q == PickedOf(t, T)
           Good == {n \in Nat : n <= Len(s) => p[n] = q[n]}
<1>1. 0 \in Good
  BY PickedOfStep
<1>2. ASSUME NEW n \in Nat, n \in Good PROVE n + 1 \in Good
  <2> SUFFICES ASSUME n + 1 <= Len(s) PROVE p[n + 1] = q[n + 1]
    OBVIOUS
  <2>1. p[n] = q[n] /\ s[n + 1] = t[n + 1]
    BY <1>2
  <2>2. p[n + 1] = IF s[n + 1] \in T THEN Append(p[n], s[n + 1]) ELSE p[n]
    BY PickedOfStep
  <2>3. q[n + 1] = IF t[n + 1] \in T THEN Append(q[n], t[n + 1]) ELSE q[n]
    BY PickedOfStep
  <2> HIDE DEF p, q
  <2> QED BY <2>1, <2>2, <2>3
<1>3. \A n \in Nat : n \in Good
  <2> HIDE DEF Good
  <2> QED BY <1>1, <1>2, AllNumbers
<1> QED BY <1>3

(* From the end: an element that is appended is picked if it counts.        *)
LEMMA PickAppend ==
  ASSUME NEW S, NEW s \in Seq(S), NEW e \in S, NEW T
  PROVE  Pick(Append(s, e), T) = IF e \in T THEN Append(Pick(s, T), e) ELSE Pick(s, T)
<1> DEFINE t == Append(s, e)
<1>1. t \in Seq(S) /\ Len(t) = Len(s) + 1 /\ t[Len(s) + 1] = e /\ \A i \in 1 .. Len(s) : s[i] = t[i]
  OBVIOUS
<1> HIDE DEF t
<1>2. PickedOf(t, T)[Len(s)] = PickedOf(s, T)[Len(s)]
  BY <1>1, PickedOfPrefix
<1>3. PickedOf(t, T)[Len(s) + 1] = IF e \in T THEN Append(PickedOf(t, T)[Len(s)], e)
                                   ELSE PickedOf(t, T)[Len(s)]
  BY <1>1, PickedOfStep
<1> QED BY <1>1, <1>2, <1>3 DEF Pick, t

LEMMA AppendAfterFirst ==
  ASSUME NEW S, NEW a \in S, NEW e \in S, NEW r \in Seq(S)
  PROVE  Append(<<a>> \o r, e) = <<a>> \o Append(r, e)
OBVIOUS

(* From the front: what is picked of a sequence is its head, if that counts, *)
(* and what is picked of its tail.                                          *)
LEMMA PickTail ==
  ASSUME NEW S, NEW s \in Seq(S), s # <<>>, NEW T
  PROVE  Pick(s, T) = IF Head(s) \in T THEN <<Head(s)>> \o Pick(Tail(s), T) ELSE Pick(Tail(s), T)
<1> DEFINE t == Tail(s)
           p == PickedOf(s, T)
           q == PickedOf(t, T)
           First(r) == IF s[1] \in T THEN <<s[1]>> \o r ELSE r
           Good == {n \in Nat : n <= Len(t) => p[n + 1] = First(q[n])}
<1>0. t \in Seq(S) /\ Len(s) = Len(t) + 1 /\ Len(t) \in Nat /\ s[1] \in S
      /\ \A i \in 1 .. Len(t) : t[i] = s[i + 1] /\ t[i] \in S
  OBVIOUS
<1> HIDE DEF t
<1>1. 0 \in Good
  <2>1. p[0 + 1] = IF s[0 + 1] \in T THEN Append(p[0], s[0 + 1]) ELSE p[0]
    BY <1>0, PickedOfStep
  <2>2. p[0] = <<>> /\ q[0] = <<>>
    BY <1>0, PickedOfStep
  <2>3. Append(<<>>, s[1]) = <<s[1]>> \o <<>>
    BY <1>0
  <2>4. p[1] = First(q[0])
    <3> 0 + 1 = 1
      OBVIOUS
    <3> HIDE DEF p, q
    <3> QED BY <2>1, <2>2, <2>3
  <2> HIDE DEF p, q, First
  <2> QED BY <2>4
<1>2. ASSUME NEW n \in Nat, n \in Good PROVE n + 1 \in Good
  <2> SUFFICES ASSUME n + 1 <= Len(t) PROVE p[(n + 1) + 1] = First(q[n + 1])
    OBVIOUS
  <2>1. p[n + 1] = First(q[n])
    BY <1>2
  <2>2. p[(n + 1) + 1] = IF s[(n + 1) + 1] \in T THEN Append(p[n + 1], s[(n + 1) + 1]) ELSE p[n + 1]
    <3> n + 1 \in 0 .. Len(s) - 1
      BY <1>0
    <3> QED BY <1>0, PickedOfStep
  <2>3. q[n + 1] = IF t[n + 1] \in T THEN Append(q[n], t[n + 1]) ELSE q[n]
    BY <1>0, PickedOfStep
  <2>4. t[n + 1] = s[(n + 1) + 1] /\ t[n + 1] \in S
    BY <1>0
  <2>5. q[n] \in Seq(S)
    <3> q[n] \in Seq(S \cap T)
      BY <1>0, PickedOfType
    <3> HIDE DEF q
    <3> QED OBVIOUS
  <2>6. Append(<<s[1]>> \o q[n], t[n + 1]) = <<s[1]>> \o Append(q[n], t[n + 1])
    <3> t[n + 1] \in S /\ s[1] \in S
      BY <1>0, <2>4
    <3> HIDE DEF q
    <3> QED BY <2>5, AppendAfterFirst
  <2> HIDE DEF p, q
  <2> QED BY <2>1, <2>2, <2>3, <2>4, <2>6
<1>3. \A n \in Nat : n \in Good
  <2> HIDE DEF Good
  <2> QED BY <1>1, <1>2, AllNumbers
<1>4. p[Len(t) + 1] = First(q[Len(t)])
  BY <1>0, <1>3
<1>5. Head(s) = s[1]
  OBVIOUS
<1> QED BY <1>0, <1>4, <1>5 DEF Pick, t

(* What is picked, and in which order: every picked element stands at a     *)
(* place of the sequence, the places increase, and none that counts is left *)
(* out.                                                                     *)
PickedFrom(s, T, g) ==
  /\ g \in [1 .. Len(Pick(s, T)) -> 1 .. Len(s)]
  /\ \A k \in DOMAIN g : Pick(s, T)[k] = s[g[k]] /\ s[g[k]] \in T
  /\ \A k, l \in DOMAIN g : k < l => g[k] < g[l]
  /\ \A i \in 1 .. Len(s) : s[i] \in T => \E k \in DOMAIN g : g[k] = i

LEMMA PickHasPlaces == ASSUME NEW S, NEW s \in Seq(S), NEW T PROVE \E g : PickedFrom(s, T, g)
<1> DEFINE p == PickedOf(s, T)
           Places(g, n) == /\ g \in [1 .. Len(p[n]) -> 1 .. n]
                           /\ \A k \in DOMAIN g : p[n][k] = s[g[k]] /\ s[g[k]] \in T
                           /\ \A k, l \in DOMAIN g : k < l => g[k] < g[l]
                           /\ \A i \in 1 .. n : s[i] \in T => \E k \in DOMAIN g : g[k] = i
           Good == {n \in Nat : n <= Len(s) => \E g : Places(g, n)}
<1>0. \A n \in 0 .. Len(s) : p[n] \in Seq(S)
  <2> SUFFICES ASSUME NEW n \in 0 .. Len(s) PROVE p[n] \in Seq(S)
    OBVIOUS
  <2>1. p[n] \in Seq(S \cap T)
    BY PickedOfType
  <2> HIDE DEF p
  <2> QED BY <2>1
<1>1. 0 \in Good
  <2> DEFINE g == [k \in 1 .. 0 |-> k]
  <2>1. p[0] = <<>>
    BY PickedOfStep
  <2> HIDE DEF p
  <2>2. Places(g, 0)
    BY <2>1
  <2> QED BY <2>2, ZenonT(40)
<1>2. ASSUME NEW n \in Nat, n \in Good PROVE n + 1 \in Good
  <2> SUFFICES ASSUME n + 1 <= Len(s) PROVE \E h : Places(h, n + 1)
    <3> HIDE DEF Places
    <3> QED OBVIOUS
  <2>1. PICK g : Places(g, n)
    BY <1>2
  <2>2. p[n + 1] = IF s[n + 1] \in T THEN Append(p[n], s[n + 1]) ELSE p[n]
    BY PickedOfStep
  <2>3. p[n] \in Seq(S) /\ s[n + 1] \in S
    BY <1>0
  <2> HIDE DEF p
  <2> DEFINE d == 1 .. Len(p[n])
  <2>d. DOMAIN g = d /\ \A k \in d : g[k] \in 1 .. n
    BY <2>1
  <2>4. CASE s[n + 1] \notin T
    <3>1. p[n + 1] = p[n]
      BY <2>2, <2>4
    <3>2. g \in [1 .. Len(p[n + 1]) -> 1 .. n + 1]
      BY <2>1, <3>1
    <3>3. \A i \in 1 .. n + 1 : s[i] \in T => i \in 1 .. n
      BY <2>4
    <3>4. Places(g, n + 1)
      BY <2>1, <3>1, <3>2, <3>3
    <3> QED BY <3>4
  <2>5. CASE s[n + 1] \in T
    <3> DEFINE h == [k \in 1 .. Len(p[n]) + 1 |-> IF k = Len(p[n]) + 1 THEN n + 1 ELSE g[k]]
    <3>1. Len(p[n + 1]) = Len(p[n]) + 1 /\ p[n + 1][Len(p[n]) + 1] = s[n + 1]
          /\ \A k \in 1 .. Len(p[n]) : p[n + 1][k] = p[n][k]
      BY <2>2, <2>3, <2>5
    <3>2. \A k \in 1 .. Len(p[n]) : h[k] = g[k] /\ g[k] \in 1 .. n
      BY <2>d, <2>3
    <3>3. h[Len(p[n]) + 1] = n + 1
      BY <2>3
    <3>4. h \in [1 .. Len(p[n + 1]) -> 1 .. n + 1]
      BY <2>1, <2>3, <3>1
    <3>5. \A k \in DOMAIN h : p[n + 1][k] = s[h[k]] /\ s[h[k]] \in T
      BY <2>1, <2>3, <2>5, <3>1
    <3>6. \A k, l \in DOMAIN h : k < l => h[k] < h[l]
      <4> SUFFICES ASSUME NEW k \in 1 .. Len(p[n]) + 1, NEW l \in 1 .. Len(p[n]) + 1, k < l
                   PROVE  h[k] < h[l]
        OBVIOUS
      <4>1. k \in d /\ h[k] = g[k] /\ g[k] \in 1 .. n
        <5> k \in d
          BY <2>3
        <5> QED BY <3>2
      <4>2. CASE l = Len(p[n]) + 1
        BY <4>1, <4>2, <3>3
      <4>3. CASE l # Len(p[n]) + 1
        <5> l \in d /\ h[l] = g[l]
          BY <4>3, <3>2, <2>3
        <5> QED BY <4>1, <2>1, <2>d
      <4> QED BY <4>2, <4>3
    <3>7. \A i \in 1 .. n + 1 : s[i] \in T => \E k \in DOMAIN h : h[k] = i
      <4> SUFFICES ASSUME NEW i \in 1 .. n + 1, s[i] \in T PROVE \E k \in DOMAIN h : h[k] = i
        OBVIOUS
      <4>1. CASE i = n + 1
        <5> Len(p[n]) + 1 \in DOMAIN h
          BY <2>3
        <5> QED BY <4>1, <3>3
      <4>2. CASE i # n + 1
        <5>1. PICK k \in d : g[k] = i
          BY <4>2, <2>1, <2>d
        <5>2. k \in DOMAIN h /\ h[k] = g[k]
          BY <3>2, <2>3
        <5> QED BY <5>1, <5>2
      <4> QED BY <4>1, <4>2
    <3> QED BY <3>4, <3>5, <3>6, <3>7, ZenonT(40)
  <2> QED BY <2>4, <2>5
<1>3. \A n \in Nat : n \in Good
  <2> HIDE DEF Good
  <2> QED BY <1>1, <1>2, AllNumbers
<1>4. \E g : Places(g, Len(s))
  <2>1. Len(s) \in Good
    <3> HIDE DEF Good
    <3> QED BY <1>3
  <2> HIDE DEF Places
  <2> QED BY <2>1
<1>5. PICK g : Places(g, Len(s))
  <2> HIDE DEF Places
  <2> QED BY <1>4
<1>6. PickedFrom(s, T, g)
  BY <1>5 DEF PickedFrom, Pick
<1> QED BY <1>6, Zenon

LEMMA PickPlaces ==
  ASSUME NEW S, NEW s \in Seq(S), NEW T
  PROVE  \E g \in [1 .. Len(Pick(s, T)) -> 1 .. Len(s)] :
           /\ \A k \in DOMAIN g : Pick(s, T)[k] = s[g[k]] /\ s[g[k]] \in T
           /\ \A k, l \in DOMAIN g : k < l => g[k] < g[l]
           /\ \A i \in 1 .. Len(s) : s[i] \in T => \E k \in DOMAIN g : g[k] = i
<1>1. PICK g : PickedFrom(s, T, g)
  BY PickHasPlaces
<1> QED BY <1>1 DEF PickedFrom

-----------------------------------------------------------------------------
(* The elements of a sequence.                                              *)

LEMMA FunctionIsSeq ==
  ASSUME NEW S, NEW n \in Nat, NEW f \in [1 .. n -> S]
  PROVE  f \in Seq(S) /\ Len(f) = n
<1>1. Seq(S) = UNION {[1 .. m -> S] : m \in Nat}
  BY SeqDef
<1>2. f \in UNION {[1 .. m -> S] : m \in Nat}
  OBVIOUS
<1>3. f \in Seq(S)
  BY <1>1, <1>2, Zenon
<1>4. DOMAIN f = 1 .. n /\ DOMAIN f = 1 .. Len(f) /\ Len(f) \in Nat
  BY <1>3
<1>5. Len(f) = n
  BY <1>4
<1> QED BY <1>3, <1>5

LEMMA ElementsOf ==
  ASSUME NEW S, NEW s \in Seq(S)
  PROVE  ToSet(s) \subseteq S /\ (s # <<>> => Head(s) \in ToSet(s))
BY DEF ToSet

LEMMA ElementsOfEmpty == ToSet(<<>>) = {}
BY DEF ToSet

LEMMA ElementsOfAppend ==
  ASSUME NEW S, NEW s \in Seq(S), NEW e \in S
  PROVE  Append(s, e) \in Seq(S) /\ ToSet(Append(s, e)) = ToSet(s) \cup {e}
<1> DEFINE t == Append(s, e)
<1>1. t \in Seq(S) /\ DOMAIN t = 1 .. Len(s) + 1 /\ DOMAIN s = 1 .. Len(s)
  OBVIOUS
<1>2. t[Len(s) + 1] = e /\ \A i \in 1 .. Len(s) : t[i] = s[i]
  OBVIOUS
<1> HIDE DEF t
<1>3. ASSUME NEW x \in ToSet(t) PROVE x \in ToSet(s) \cup {e}
  <2>1. PICK i \in 1 .. Len(s) + 1 : x = t[i]
    BY <1>1, <1>3 DEF ToSet
  <2>2. CASE i = Len(s) + 1
    BY <2>1, <2>2, <1>2
  <2>3. CASE i \in 1 .. Len(s)
    BY <2>1, <2>3, <1>1, <1>2 DEF ToSet
  <2> QED BY <2>2, <2>3
<1>4. ASSUME NEW x \in ToSet(s) PROVE x \in ToSet(t)
  <2>1. PICK i \in 1 .. Len(s) : x = s[i]
    BY <1>1, <1>4 DEF ToSet
  <2>2. i \in DOMAIN t /\ x = t[i]
    BY <2>1, <1>1, <1>2
  <2> QED BY <2>2 DEF ToSet
<1>5. e \in ToSet(t)
  <2> Len(s) + 1 \in DOMAIN t
    BY <1>1
  <2> QED BY <1>2 DEF ToSet
<1> QED BY <1>1, <1>3, <1>4, <1>5 DEF t

LEMMA ElementsOfTail ==
  ASSUME NEW S, NEW s \in Seq(S), s # <<>>
  PROVE  /\ Tail(s) \in Seq(S)
         /\ ToSet(Tail(s)) \subseteq ToSet(s)
         /\ ToSet(s) = ToSet(Tail(s)) \cup {Head(s)}
<1> DEFINE t == Tail(s)
<1>1. t \in Seq(S) /\ Len(s) \in Nat \ {0} /\ DOMAIN t = 1 .. Len(s) - 1 /\ DOMAIN s = 1 .. Len(s)
  OBVIOUS
<1>2. Head(s) = s[1] /\ \A i \in 1 .. Len(s) - 1 : t[i] = s[i + 1]
  OBVIOUS
<1> HIDE DEF t
<1>3. ASSUME NEW x \in ToSet(t) PROVE x \in ToSet(s)
  <2>1. PICK i \in 1 .. Len(s) - 1 : x = t[i]
    BY <1>1, <1>3 DEF ToSet
  <2>2. i + 1 \in DOMAIN s /\ x = s[i + 1]
    BY <2>1, <1>1, <1>2
  <2> QED BY <2>2 DEF ToSet
<1>4. ASSUME NEW x \in ToSet(s), x # Head(s) PROVE x \in ToSet(t)
  <2>1. PICK i \in 1 .. Len(s) : x = s[i]
    BY <1>1, <1>4 DEF ToSet
  <2>2. i - 1 \in 1 .. Len(s) - 1 /\ (i - 1) + 1 = i
    BY <2>1, <1>1, <1>2, <1>4
  <2>3. i - 1 \in DOMAIN t /\ x = t[i - 1]
    BY <2>1, <2>2, <1>1, <1>2
  <2> QED BY <2>3 DEF ToSet
<1>5. Head(s) \in ToSet(s)
  BY <1>1, <1>2 DEF ToSet
<1> QED BY <1>1, <1>3, <1>4, <1>5 DEF t

LEMMA ElementsOfPick ==
  ASSUME NEW S, NEW s \in Seq(S), NEW T
  PROVE  Pick(s, T) \in Seq(S) /\ ToSet(Pick(s, T)) = ToSet(s) \cap T
<1> DEFINE t == Pick(s, T)
<1>1. t \in Seq(S \cap T)
  BY PickType
<1>2. PICK g \in [1 .. Len(t) -> 1 .. Len(s)] :
        /\ \A k \in DOMAIN g : t[k] = s[g[k]] /\ s[g[k]] \in T
        /\ \A i \in 1 .. Len(s) : s[i] \in T => \E k \in DOMAIN g : g[k] = i
  BY PickPlaces
<1> HIDE DEF t
<1>3. t \in Seq(S) /\ DOMAIN t = DOMAIN g /\ DOMAIN s = 1 .. Len(s)
  BY <1>1
<1>4. ASSUME NEW x \in ToSet(t) PROVE x \in ToSet(s) \cap T
  BY <1>2, <1>3, <1>4 DEF ToSet
<1>5. ASSUME NEW x \in ToSet(s) \cap T PROVE x \in ToSet(t)
  <2>1. PICK i \in 1 .. Len(s) : x = s[i]
    BY <1>3, <1>5 DEF ToSet
  <2>2. PICK k \in DOMAIN g : g[k] = i
    BY <1>2, <1>5, <2>1
  <2> QED BY <2>1, <2>2, <1>2, <1>3 DEF ToSet
<1> QED BY <1>3, <1>4, <1>5 DEF t

(* Picking keeps a sequence free of doubles.                                *)
LEMMA PickKeepsInjective ==
  ASSUME NEW S, NEW s \in Seq(S), NEW T, NEW F,
         \A i, j \in DOMAIN s : F[s[i]] = F[s[j]] => i = j
  PROVE  \A k, l \in DOMAIN Pick(s, T) : F[Pick(s, T)[k]] = F[Pick(s, T)[l]] => k = l
<1> DEFINE t == Pick(s, T)
<1>1. t \in Seq(S \cap T)
  BY PickType
<1>2. PICK g \in [1 .. Len(t) -> 1 .. Len(s)] :
        /\ \A k \in DOMAIN g : t[k] = s[g[k]] /\ s[g[k]] \in T
        /\ \A k, l \in DOMAIN g : k < l => g[k] < g[l]
  BY PickPlaces
<1> HIDE DEF t
<1>3. DOMAIN t = 1 .. Len(t) /\ DOMAIN g = 1 .. Len(t) /\ Len(t) \in Nat /\ DOMAIN s = 1 .. Len(s)
  BY <1>1
<1>4. ASSUME NEW k \in DOMAIN t, NEW l \in DOMAIN t, F[t[k]] = F[t[l]] PROVE k = l
  <2>1. g[k] \in DOMAIN s /\ g[l] \in DOMAIN s /\ F[s[g[k]]] = F[s[g[l]]]
    BY <1>2, <1>3, <1>4
  <2>2. g[k] = g[l]
    BY <2>1
  <2>3. k \in Nat /\ l \in Nat /\ g[k] \in Int /\ ~(k < l) /\ ~(l < k)
    BY <2>2, <1>2, <1>3
  <2> QED BY <2>3
<1> QED BY <1>4 DEF t

-----------------------------------------------------------------------------
(* Sequences in which nothing is twice.                                     *)

LEMMA AppendKeepsInjective ==
  ASSUME NEW S, NEW s \in Seq(S), NEW e \in S, IsInjective(s), e \notin ToSet(s)
  PROVE  IsInjective(Append(s, e))
<1> DEFINE t == Append(s, e)
<1>1. DOMAIN t = 1 .. Len(s) + 1 /\ DOMAIN s = 1 .. Len(s) /\ Len(s) \in Nat
  OBVIOUS
<1>2. t[Len(s) + 1] = e /\ \A i \in 1 .. Len(s) : t[i] = s[i] /\ t[i] # e
  BY <1>1 DEF ToSet
<1> HIDE DEF t
<1> QED BY <1>1, <1>2 DEF IsInjective

LEMMA TailKeepsInjective ==
  ASSUME NEW S, NEW s \in Seq(S), s # <<>>, IsInjective(s)
  PROVE  IsInjective(Tail(s)) /\ Head(s) \notin ToSet(Tail(s))
<1> DEFINE t == Tail(s)
<1>1. DOMAIN t = 1 .. Len(s) - 1 /\ DOMAIN s = 1 .. Len(s) /\ Len(s) \in Nat \ {0}
  OBVIOUS
<1>2. Head(s) = s[1] /\ \A i \in 1 .. Len(s) - 1 : t[i] = s[i + 1]
  BY <1>1
<1> HIDE DEF t
<1>3. \A i, j \in 1 .. Len(s) - 1 : t[i] = t[j] => i = j
  BY <1>1, <1>2 DEF IsInjective
<1>4. \A i \in 1 .. Len(s) - 1 : t[i] # s[1]
  BY <1>1, <1>2 DEF IsInjective
<1> QED BY <1>1, <1>2, <1>3, <1>4 DEF IsInjective, ToSet, t

(* A sequence in two parts.                                                 *)
LEMMA ElementsOfBoth ==
  ASSUME NEW S, NEW s \in Seq(S), NEW t \in Seq(S)
  PROVE  s \o t \in Seq(S) /\ ToSet(s \o t) = ToSet(s) \cup ToSet(t)
<1> DEFINE u == s \o t
<1>1. /\ u \in Seq(S) /\ DOMAIN u = 1 .. Len(s) + Len(t) /\ DOMAIN s = 1 .. Len(s)
      /\ DOMAIN t = 1 .. Len(t) /\ Len(s) \in Nat /\ Len(t) \in Nat
  OBVIOUS
<1>2. /\ \A i \in 1 .. Len(s) : u[i] = s[i]
      /\ \A i \in 1 .. Len(t) : u[Len(s) + i] = t[i]
      /\ \A i \in Len(s) + 1 .. Len(s) + Len(t) : u[i] = t[i - Len(s)]
  BY <1>1
<1> HIDE DEF u
<1>3. ASSUME NEW e \in ToSet(u) PROVE e \in ToSet(s) \cup ToSet(t)
  <2>1. PICK i \in 1 .. Len(s) + Len(t) : u[i] = e
    BY <1>1, <1>3 DEF ToSet
  <2>2. CASE i <= Len(s)
    BY <1>1, <1>2, <2>1, <2>2 DEF ToSet
  <2>3. CASE i > Len(s)
    <3>1. i - Len(s) \in 1 .. Len(t) /\ t[i - Len(s)] = e
      BY <1>1, <1>2, <2>1, <2>3
    <3> QED BY <1>1, <3>1 DEF ToSet
  <2> QED BY <1>1, <2>1, <2>2, <2>3
<1>4. ASSUME NEW e \in ToSet(s) PROVE e \in ToSet(u)
  <2>1. PICK i \in 1 .. Len(s) : s[i] = e
    BY <1>1, <1>4 DEF ToSet
  <2>2. i \in DOMAIN u /\ u[i] = e
    BY <1>1, <1>2, <2>1
  <2> QED BY <2>2 DEF ToSet
<1>5. ASSUME NEW e \in ToSet(t) PROVE e \in ToSet(u)
  <2>1. PICK i \in 1 .. Len(t) : t[i] = e
    BY <1>1, <1>5 DEF ToSet
  <2>2. Len(s) + i \in DOMAIN u /\ u[Len(s) + i] = e
    BY <1>1, <1>2, <2>1
  <2> QED BY <2>2 DEF ToSet
<1> QED BY <1>1, <1>3, <1>4, <1>5 DEF u

LEMMA BothInjective ==
  ASSUME NEW S, NEW s \in Seq(S), NEW t \in Seq(S), IsInjective(s), IsInjective(t),
         ToSet(s) \cap ToSet(t) = {}
  PROVE  IsInjective(s \o t)
<1> DEFINE u == s \o t
<1>1. /\ DOMAIN u = 1 .. Len(s) + Len(t) /\ DOMAIN s = 1 .. Len(s)
      /\ DOMAIN t = 1 .. Len(t) /\ Len(s) \in Nat /\ Len(t) \in Nat
  OBVIOUS
<1>2. /\ \A i \in 1 .. Len(s) : u[i] = s[i]
      /\ \A i \in Len(s) + 1 .. Len(s) + Len(t) : u[i] = t[i - Len(s)]
  BY <1>1
<1>3. \A i \in 1 .. Len(s), j \in 1 .. Len(t) : s[i] # t[j]
  BY <1>1 DEF ToSet
<1> HIDE DEF u
<1>4. ASSUME NEW i \in DOMAIN u, NEW j \in DOMAIN u, u[i] = u[j] PROVE i = j
  <2>1. CASE i <= Len(s) /\ j <= Len(s)
    BY <1>1, <1>2, <1>4, <2>1 DEF IsInjective
  <2>2. CASE i <= Len(s) /\ j > Len(s)
    <3>1. i \in 1 .. Len(s) /\ j - Len(s) \in 1 .. Len(t) /\ u[i] = s[i] /\ u[j] = t[j - Len(s)]
      BY <1>1, <1>2, <1>4, <2>2
    <3> QED BY <3>1, <1>3, <1>4
  <2>3. CASE i > Len(s) /\ j <= Len(s)
    <3>1. j \in 1 .. Len(s) /\ i - Len(s) \in 1 .. Len(t) /\ u[j] = s[j] /\ u[i] = t[i - Len(s)]
      BY <1>1, <1>2, <1>4, <2>3
    <3> QED BY <3>1, <1>3, <1>4
  <2>4. CASE i > Len(s) /\ j > Len(s)
    <3>1. /\ i - Len(s) \in DOMAIN t /\ j - Len(s) \in DOMAIN t
          /\ t[i - Len(s)] = t[j - Len(s)]
      BY <1>1, <1>2, <1>4, <2>4
    <3>2. i - Len(s) = j - Len(s)
      BY <3>1 DEF IsInjective
    <3> QED BY <3>2, <1>1, <1>4
  <2> QED BY <1>1, <1>4, <2>1, <2>2, <2>3, <2>4
<1> QED BY <1>4 DEF IsInjective, u

(* The parts of a sequence before and after a place.                        *)
LEMMA PartsOf ==
  ASSUME NEW S, NEW s \in Seq(S), NEW n \in 0 .. Len(s)
  PROVE  LET before == SubSeq(s, 1, n)
             after == SubSeq(s, n + 1, Len(s))
         IN /\ before \in Seq(S) /\ after \in Seq(S) /\ Len(before) = n
            /\ ToSet(s) = ToSet(before) \cup ToSet(after)
            /\ IsInjective(s) => /\ IsInjective(before) /\ IsInjective(after)
                                 /\ ToSet(before) \cap ToSet(after) = {}
<1> DEFINE before == SubSeq(s, 1, n)
           after == SubSeq(s, n + 1, Len(s))
<1>0. DOMAIN s = 1 .. Len(s) /\ Len(s) \in Nat /\ n \in Nat
  OBVIOUS
<1>1. before \in Seq(S) /\ Len(before) = n /\ DOMAIN before = 1 .. n
      /\ \A i \in 1 .. n : before[i] = s[i]
  OBVIOUS
<1>2. after \in Seq(S) /\ Len(after) = Len(s) - n /\ DOMAIN after = 1 .. Len(s) - n
      /\ \A i \in 1 .. Len(s) - n : after[i] = s[n + i]
  OBVIOUS
<1> HIDE DEF before, after
<1>3. ToSet(s) = ToSet(before) \cup ToSet(after)
  <2>1. ASSUME NEW i \in 1 .. Len(s) PROVE s[i] \in ToSet(before) \cup ToSet(after)
    <3>1. CASE i <= n
      BY <1>0, <1>1, <3>1 DEF ToSet
    <3>2. CASE i > n
      <4>1. i - n \in 1 .. Len(s) - n /\ after[i - n] = s[i]
        BY <1>0, <1>2, <3>2
      <4> QED BY <1>2, <4>1 DEF ToSet
    <3> QED BY <1>0, <3>1, <3>2
  <2>2. \A i \in 1 .. n : before[i] \in ToSet(s)
    BY <1>0, <1>1 DEF ToSet
  <2>3. \A i \in 1 .. Len(s) - n : after[i] \in ToSet(s)
    BY <1>0, <1>2 DEF ToSet
  <2>4. ToSet(before) \subseteq ToSet(s) /\ ToSet(after) \subseteq ToSet(s)
    BY <2>2, <2>3, <1>1, <1>2, ZenonT(40) DEF ToSet
  <2>5. ToSet(s) \subseteq ToSet(before) \cup ToSet(after)
    BY <2>1, <1>0 DEF ToSet
  <2> QED BY <2>4, <2>5
<1>4. ASSUME IsInjective(s)
      PROVE  IsInjective(before) /\ IsInjective(after) /\ ToSet(before) \cap ToSet(after) = {}
  <2>1. IsInjective(before)
    BY <1>0, <1>1, <1>4 DEF IsInjective
  <2>2. IsInjective(after)
    <3>1. ASSUME NEW i \in 1 .. Len(s) - n, NEW j \in 1 .. Len(s) - n, after[i] = after[j] PROVE i = j
      <4>1. n + i \in DOMAIN s /\ n + j \in DOMAIN s /\ s[n + i] = s[n + j]
        BY <1>0, <1>2, <3>1
      <4>2. n + i = n + j
        BY <4>1, <1>4 DEF IsInjective
      <4> QED BY <4>2, <1>0
    <3> QED BY <3>1, <1>2 DEF IsInjective
  <2>3. ASSUME NEW i \in 1 .. n, NEW j \in 1 .. Len(s) - n PROVE before[i] # after[j]
    <3>1. i \in DOMAIN s /\ n + j \in DOMAIN s /\ i # n + j
      BY <1>0
    <3>2. s[i] # s[n + j]
      BY <3>1, <1>4 DEF IsInjective
    <3> QED BY <3>2, <1>1, <1>2
  <2> QED BY <2>1, <2>2, <2>3, <1>1, <1>2 DEF ToSet
<1> QED BY <1>1, <1>2, <1>3, <1>4 DEF before, after
=============================================================================
