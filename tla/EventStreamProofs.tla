-------------------------- MODULE EventStreamProofs --------------------------
(***************************************************************************)
(* What TLAPS proves about the event fan-out, for any number of publishing *)
(* threads and clients, any size of the replay log and any number of       *)
(* events.                                                                 *)
(***************************************************************************)
EXTENDS MCEventStream, PickingProofs, FiniteSetTheorems

Publication == [stage : Stages, event : Event, i : Nat \ {0}]

(* Numbers are handed out in increasing order: whatever is in the log or on *)
(* its way to it has a number that was taken.                               *)
Taken ==
  /\ seq \in 0 .. MaxEvents
  /\ log \in Seq(Event)
  /\ pub \in [Publishers -> Publication]
  /\ \A i \in DOMAIN log : log[i].seq <= seq
  /\ \A p \in Publishers : pub[p].stage # "idle" => pub[p].event.seq <= seq

(* SeqIsUnique, in terms of positions.                                      *)
LogUnique == \A i, j \in DOMAIN log : log[i].seq = log[j].seq => i = j
PubUnique ==
  \A p, r \in Publishers :
    p # r /\ pub[p].stage # "idle" /\ pub[r].stage # "idle"
      => pub[p].event.seq # pub[r].event.seq
PubNotLogged ==
  \A p \in Publishers : pub[p].stage = "log" =>
    \A i \in DOMAIN log : log[i].seq # pub[p].event.seq

SeqInv == Taken /\ LogUnique /\ PubUnique /\ PubNotLogged

LEMMA UniqueFromInv == SeqInv => SeqIsUnique
  <1> SUFFICES ASSUME SeqInv PROVE SeqIsUnique
    OBVIOUS
  <1>1. IsInjective([i \in DOMAIN log |-> log[i].seq])
    BY DEF SeqInv, LogUnique, IsInjective
  <1>2. \A p \in Publishers : pub[p].stage = "log" => pub[p].event.seq \notin Numbers(log)
    BY DEF SeqInv, PubNotLogged, Numbers
  <1> QED
    BY <1>1, <1>2 DEF SeqInv, PubUnique, SeqIsUnique

LEMMA InitNumbers == Init => SeqInv
  <1> SUFFICES ASSUME Init PROVE SeqInv
    OBVIOUS
  <1>1. seq = 0 /\ log = <<>> /\ pub = [p \in Publishers |-> Idle]
    BY DEF Init
  <1>2. Idle \in Publication /\ Idle.stage = "idle"
    <2>1. (CHOOSE k \in Tasks : TRUE) \in Tasks
      BY StreamAssumption
    <2>2. 1 \in Seqs
      BY StreamAssumption DEF Seqs
    <2> QED
      BY <2>1, <2>2 DEF Idle, Publication, Event, Stages
  <1>3. Taken
    BY <1>1, <1>2, StreamAssumption DEF Taken
  <1> QED
    BY <1>1, <1>2, <1>3 DEF SeqInv, LogUnique, PubUnique, PubNotLogged

(* A step that takes no number and leaves the log alone keeps SeqInv, as    *)
(* long as no publisher changes its event or goes back to the log.          *)
LEMMA QuietStep ==
  ASSUME SeqInv, seq' = seq, log' = log, pub' \in [Publishers -> Publication],
         \A p \in Publishers : pub'[p].stage # "idle" =>
            pub[p].stage # "idle" /\ pub'[p].event = pub[p].event,
         \A p \in Publishers : pub'[p].stage = "log" => pub[p].stage = "log"
  PROVE  SeqInv'
  <1>1. Taken'
    BY DEF SeqInv, Taken
  <1>2. LogUnique'
    BY DEF SeqInv, LogUnique
  <1>3. PubUnique'
    BY DEF SeqInv, PubUnique
  <1>4. PubNotLogged'
    BY DEF SeqInv, PubNotLogged
  <1> QED
    BY <1>1, <1>2, <1>3, <1>4 DEF SeqInv

(* A publisher takes the next number, which nothing carries yet.            *)
LEMMA TakeSeqStep ==
  ASSUME SeqInv, NEW p \in Publishers, TakeSeq(p)
  PROVE  SeqInv'
  <1>1. PICK k \in Tasks, final \in Finals :
          pub' = [pub EXCEPT ![p] = [stage |-> "log", i |-> 1,
                    event |-> [seq |-> seq + 1, task |-> k, final |-> final]]]
    BY DEF TakeSeq
  <1>2. /\ seq \in 0 .. MaxEvents /\ seq < MaxEvents /\ seq' = seq + 1 /\ log' = log
        /\ pub \in [Publishers -> Publication] /\ MaxEvents \in Nat
    BY StreamAssumption DEF TakeSeq, SeqInv, Taken
  <1>3. \A i \in DOMAIN log : log[i] \in Event /\ log[i].seq \in Nat /\ log[i].seq <= seq
    <2>1. log \in Seq(Event) /\ \A i \in DOMAIN log : log[i].seq <= seq
      BY DEF SeqInv, Taken
    <2>2. \A i \in DOMAIN log : log[i] \in Event
      BY <2>1
    <2>3. \A e \in Event : e.seq \in Nat
      BY <1>2 DEF Event, Seqs
    <2> QED
      BY <2>1, <2>2, <2>3
  <1>4. \A r \in Publishers : pub[r].event.seq \in Nat
    BY <1>2 DEF Publication, Event, Seqs
  <1>5. [seq |-> seq + 1, task |-> k, final |-> final] \in Event
    BY <1>2, StreamAssumption DEF Event, Seqs
  <1>6. pub' \in [Publishers -> Publication]
    BY <1>1, <1>2, <1>5 DEF Publication, Stages
  <1>7. /\ pub'[p].stage = "log" /\ pub'[p].event.seq = seq + 1
        /\ \A r \in Publishers \ {p} : pub'[r] = pub[r]
    BY <1>1, <1>2
  <1>8. Taken'
    <2>1. \A r \in Publishers : pub'[r].stage # "idle" => pub'[r].event.seq <= seq'
      BY <1>2, <1>4, <1>7 DEF SeqInv, Taken
    <2>2. seq' \in 0 .. MaxEvents
      BY <1>2
    <2>3. \A i \in DOMAIN log' : log'[i].seq <= seq'
      BY <1>2, <1>3
    <2> QED
      BY <1>2, <1>6, <2>1, <2>2, <2>3 DEF SeqInv, Taken
  <1>9. LogUnique'
    BY <1>2 DEF SeqInv, LogUnique
  <1>10. PubUnique'
    BY <1>2, <1>4, <1>7, SMTT(30) DEF SeqInv, Taken, PubUnique
  <1>11. PubNotLogged'
    BY <1>2, <1>3, <1>7 DEF SeqInv, PubNotLogged
  <1> QED
    BY <1>8, <1>9, <1>10, <1>11 DEF SeqInv

(* The event goes into the log, whose oldest event may go.                  *)
LEMMA AppendLogStep ==
  ASSUME SeqInv, NEW p \in Publishers, AppendLog(p)
  PROVE  SeqInv'
  <1> DEFINE e == pub[p].event
             l == Append(log, e)
  <1>1. /\ pub[p].stage = "log" /\ seq' = seq
        /\ log' = l \/ log' = Tail(l)
        /\ pub' = [pub EXCEPT ![p].stage = "fan"]
    BY DEF AppendLog
  <1>2. /\ log \in Seq(Event) /\ pub \in [Publishers -> Publication] /\ e \in Event
        /\ seq \in 0 .. MaxEvents
    BY DEF SeqInv, Taken, Publication
  <1>3. /\ pub' \in [Publishers -> Publication]
        /\ pub'[p].stage = "fan"
        /\ \A r \in Publishers \ {p} : pub'[r] = pub[r]
        /\ \A r \in Publishers : pub'[r].event = pub[r].event
    BY <1>1, <1>2 DEF Publication, Stages
  <1>4. /\ l \in Seq(Event) /\ Len(l) = Len(log) + 1
        /\ \A i \in 1 .. Len(log) : l[i] = log[i]
        /\ l[Len(log) + 1] = e
    BY <1>2
  <1>5. \A i \in DOMAIN l : l[i] = e \/ \E j \in DOMAIN log : j = i /\ l[i] = log[j]
    BY <1>2, <1>4
  <1>6. \A i, j \in DOMAIN l : l[i].seq = l[j].seq => i = j
    BY <1>1, <1>2, <1>4 DEF SeqInv, LogUnique, PubNotLogged
  <1>7. \A i \in DOMAIN l : l[i].seq <= seq
    BY <1>1, <1>5 DEF SeqInv, Taken
  <1>8. /\ log' \in Seq(Event)
        /\ \E d \in {0, 1} : \A i \in DOMAIN log' : i + d \in DOMAIN l /\ log'[i] = l[i + d]
    <2>1. CASE log' = l
      <3>1. \A i \in DOMAIN log' : i + 0 \in DOMAIN l /\ log'[i] = l[i + 0]
        BY <2>1, <1>4
      <3> QED
        BY <2>1, <3>1, <1>4
    <2>2. CASE log' = Tail(l)
      <3>1. \A i \in DOMAIN log' : i + 1 \in DOMAIN l /\ log'[i] = l[i + 1]
        BY <2>2, <1>2, <1>4
      <3>2. log' \in Seq(Event)
        BY <2>2, <1>2, <1>4
      <3> QED
        BY <3>1, <3>2
    <2> QED
      BY <1>1, <2>1, <2>2
  <1>9. PICK d \in {0, 1} : \A i \in DOMAIN log' : i + d \in DOMAIN l /\ log'[i] = l[i + d]
    BY <1>8
  <1>10. Taken'
    <2>1. \A i \in DOMAIN log' : log'[i].seq <= seq'
      BY <1>1, <1>7, <1>9
    <2>2. \A r \in Publishers : pub'[r].stage # "idle" => pub'[r].event.seq <= seq'
      BY <1>1, <1>3 DEF SeqInv, Taken
    <2> QED
      BY <1>1, <1>2, <1>3, <1>8, <2>1, <2>2 DEF Taken
  <1>11. LogUnique'
    <2>1. \A i \in DOMAIN log' : i \in Nat
      BY <1>8
    <2> QED
      BY <1>6, <1>9, <2>1, SMTT(30) DEF LogUnique
  <1>12. PubUnique'
    BY <1>1, <1>3 DEF SeqInv, PubUnique
  <1>13. PubNotLogged'
    <2> SUFFICES ASSUME NEW r \in Publishers, pub'[r].stage = "log", NEW i \in DOMAIN log'
                 PROVE  log'[i].seq # pub'[r].event.seq
      BY DEF PubNotLogged
    <2>1. r # p /\ pub[r].stage = "log" /\ pub'[r].event = pub[r].event
      BY <1>3
    <2>2. e.seq # pub[r].event.seq
      BY <1>1, <2>1 DEF SeqInv, PubUnique
    <2>3. log'[i] = e \/ \E j \in DOMAIN log : log'[i] = log[j]
      BY <1>5, <1>9
    <2> QED
      BY <2>1, <2>2, <2>3 DEF SeqInv, PubNotLogged
  <1> QED
    BY <1>10, <1>11, <1>12, <1>13 DEF SeqInv

LEMMA SeqStep == SeqInv /\ [Next]_vars => SeqInv'
  <1> SUFFICES ASSUME SeqInv, [Next]_vars PROVE SeqInv'
    OBVIOUS
  <1>0. pub \in [Publishers -> Publication]
    BY DEF SeqInv, Taken
  <1>1. ASSUME NEW p \in Publishers, FanOut(p) PROVE SeqInv'
    <2>1. \/ pub' = [pub EXCEPT ![p].i = pub[p].i + 1]
          \/ pub' = [pub EXCEPT ![p].stage = "notify"]
      BY <1>1 DEF FanOut
    <2>2. PICK y : /\ y \in Publication /\ y.event = pub[p].event /\ y.stage \in {"fan", "notify"}
                   /\ pub' = [pub EXCEPT ![p] = y]
      <3>1. pub[p] \in Publication /\ pub[p].stage = "fan"
        BY <1>0, <1>1 DEF FanOut
      <3>2. CASE pub' = [pub EXCEPT ![p].i = pub[p].i + 1]
        <4>1. pub' = [pub EXCEPT ![p] = [pub[p] EXCEPT !.i = pub[p].i + 1]]
          BY <3>2
        <4>2. [pub[p] EXCEPT !.i = pub[p].i + 1] \in Publication
          BY <3>1 DEF Publication
        <4> QED
          BY <3>1, <4>1, <4>2 DEF Publication
      <3>3. CASE pub' = [pub EXCEPT ![p].stage = "notify"]
        <4>1. pub' = [pub EXCEPT ![p] = [pub[p] EXCEPT !.stage = "notify"]]
          BY <3>3
        <4>2. [pub[p] EXCEPT !.stage = "notify"] \in Publication
          BY <3>1 DEF Publication, Stages
        <4> QED
          BY <3>1, <4>1, <4>2 DEF Publication
      <3> QED
        BY <2>1, <3>2, <3>3
    <2>3. seq' = seq /\ log' = log
      BY <1>1 DEF FanOut
    <2>4. pub' \in [Publishers -> Publication] /\ pub'[p] = y /\ pub[p].stage = "fan"
      BY <1>0, <1>1, <2>2 DEF FanOut
    <2>5. \A r \in Publishers : pub'[r].stage # "idle" =>
            pub[r].stage # "idle" /\ pub'[r].event = pub[r].event
      BY <1>0, <2>2, <2>4
    <2>6. \A r \in Publishers : pub'[r].stage = "log" => pub[r].stage = "log"
      BY <1>0, <2>2, <2>4
    <2> QED
      BY <2>3, <2>4, <2>5, <2>6, QuietStep
  <1>2. ASSUME NEW p \in Publishers, Notify(p) PROVE SeqInv'
    <2>1. Idle \in Publication /\ Idle.stage = "idle"
      <3>1. (CHOOSE k \in Tasks : TRUE) \in Tasks /\ 1 \in Seqs
        BY StreamAssumption DEF Seqs
      <3> QED
        BY <3>1 DEF Idle, Publication, Event, Stages
    <2>2. /\ pub' \in [Publishers -> Publication]
          /\ pub'[p].stage = "idle"
          /\ \A r \in Publishers \ {p} : pub'[r] = pub[r]
      BY <1>0, <1>2, <2>1 DEF Notify
    <2>3. seq' = seq /\ log' = log /\ \A r \in Publishers : pub'[r].stage # "idle" => r # p
      BY <1>2, <2>2 DEF Notify
    <2> QED
      BY <2>2, <2>3, QuietStep
  <1>3. ASSUME NEW c \in Clients, OpenStream(c) \/ OpenTask(c) \/ Serve(c) \/ GoAway(c)
        PROVE  seq' = seq /\ log' = log /\ pub' = pub
    BY <1>3 DEF OpenStream, OpenTask, Serve, GoAway, Replay, Subscribe, TakeOne, FindEmpty,
                EnterWait, TimeOut, Clear, Unsubscribe
  <1>4. ASSUME seq' = seq, log' = log, pub' = pub PROVE SeqInv'
    BY <1>0, <1>4, QuietStep
  <1>5. CASE UNCHANGED vars
    BY <1>4, <1>5 DEF vars
  <1>6. CASE \E p \in Publishers : Publish(p)
    BY <1>1, <1>2, <1>6, TakeSeqStep, AppendLogStep DEF Publish
  <1>7. CASE \E c \in Clients : OpenStream(c) \/ OpenTask(c) \/ Serve(c) \/ GoAway(c)
    BY <1>3, <1>4, <1>7
  <1> QED
    BY <1>5, <1>6, <1>7 DEF Next

(* The number of an event is taken under _sse_seq_lock and its place in the *)
(* log under _event_log_lock, by any number of threads in any order: no two *)
(* events in the log or on their way to it ever carry the same number.      *)
THEOREM NumbersAreUnique == Spec => []SeqIsUnique
  <1> QED
    BY InitNumbers, SeqStep, UniqueFromInv, PTL DEF Spec

-----------------------------------------------------------------------------
(* Type correctness.                                                        *)

(* A list without its place k.                                              *)
Cut(s, k) == SubSeq(s, 1, k - 1) \o SubSeq(s, k + 1, Len(s))

LEMMA Joined ==
  ASSUME NEW S, NEW a \in Seq(S), NEW b \in Seq(S)
  PROVE  /\ a \o b \in Seq(S) /\ Len(a \o b) = Len(a) + Len(b)
         /\ \A i \in 1 .. Len(a) + Len(b) : (a \o b)[i] = IF i <= Len(a) THEN a[i] ELSE b[i - Len(a)]
BY ConcatProperties

LEMMA CutAt ==
  ASSUME NEW S, NEW s \in Seq(S), NEW k \in 1 .. Len(s)
  PROVE  /\ Cut(s, k) \in Seq(S) /\ DOMAIN Cut(s, k) = 1 .. Len(s) - 1
         /\ \A i \in 1 .. Len(s) - 1 : Cut(s, k)[i] = IF i < k THEN s[i] ELSE s[i + 1]
<1>1. Len(s) \in Nat /\ k \in Nat /\ k <= Len(s) /\ k >= 1
  OBVIOUS
<1> DEFINE f == SubSeq(s, 1, k - 1)
           g == SubSeq(s, k + 1, Len(s))
<1>f. f \in Seq(S) /\ Len(f) = k - 1 /\ \A i \in 1 .. k - 1 : f[i] = s[i]
  BY <1>1
<1>g. g \in Seq(S) /\ Len(g) = Len(s) - k /\ \A i \in 1 .. Len(s) - k : g[i] = s[i + k]
  BY <1>1
<1>d. Cut(s, k) = f \o g
  BY DEF Cut
<1> HIDE DEF f, g
<1>2. PICK a \in Seq(S) : a = f /\ Len(a) = k - 1 /\ \A i \in 1 .. k - 1 : a[i] = s[i]
  BY <1>f
<1>3. PICK b \in Seq(S) : b = g /\ Len(b) = Len(s) - k /\ \A i \in 1 .. Len(s) - k : b[i] = s[i + k]
  BY <1>g
<1>4. Cut(s, k) = a \o b
  BY <1>2, <1>3, <1>d
<1>5. Len(a) + Len(b) = Len(s) - 1
  <2>1. Len(a) = k - 1 /\ Len(b) = Len(s) - k
    BY <1>2, <1>3
  <2> QED BY <2>1, <1>1
<1>6. /\ a \o b \in Seq(S) /\ Len(a \o b) = Len(a) + Len(b)
      /\ \A i \in 1 .. Len(a) + Len(b) : (a \o b)[i] = IF i <= Len(a) THEN a[i] ELSE b[i - Len(a)]
  BY Joined
<1>7. Cut(s, k) \in Seq(S) /\ Len(Cut(s, k)) = Len(s) - 1
  BY <1>4, <1>5, <1>6
<1>8. ASSUME NEW i \in 1 .. Len(s) - 1 PROVE Cut(s, k)[i] = IF i < k THEN s[i] ELSE s[i + 1]
  <2>0. Cut(s, k)[i] = IF i <= k - 1 THEN a[i] ELSE b[i - (k - 1)]
    BY <1>2, <1>4, <1>5, <1>6
  <2>1. CASE i < k
    <3>1. i \in 1 .. k - 1
      BY <2>1, <1>1
    <3> QED BY <3>1, <2>0, <2>1, <1>2
  <2>2. CASE ~(i < k)
    <3>1. i - (k - 1) \in 1 .. Len(s) - k /\ (i - (k - 1)) + k = i + 1 /\ ~(i <= k - 1)
      BY <2>2, <1>1
    <3> QED BY <3>1, <2>0, <2>2, <1>3
  <2> QED BY <2>1, <2>2
<1>9. DOMAIN Cut(s, k) = 1 .. Len(s) - 1
  BY <1>7
<1> QED BY <1>7, <1>8, <1>9

(* What list.remove leaves: the list without one place, if any is equal.    *)
LEMMA OneOut ==
  ASSUME TypeOK, NEW c \in Clients, Unsubscribe(c)
  PROVE  \/ subs' = subs /\ skips' = skips
         \/ \E k \in 1 .. Len(subs) : subs' = Cut(subs, k) /\ skips' = skips \cup Past(k)
<1> DEFINE I == {i \in DOMAIN subs : queue[subs[i]] = queue[c]}
<1>1. CASE I = {}
  BY <1>1 DEF Unsubscribe
<1>2. CASE I # {}
  <2>1. DOMAIN subs = 1 .. Len(subs) /\ Len(subs) \in Nat
    BY DEF TypeOK
  <2>2. I \in SUBSET Nat /\ I \subseteq 1 .. Len(subs)
    BY <2>1
  <2>3. subs' = RemoveAt(subs, Min(I)) /\ skips' = skips \cup Past(Min(I))
    BY <1>2 DEF Unsubscribe
  <2> HIDE DEF I
  <2>4. \E m \in I : \A k \in I : m <= k
    BY <1>2, <2>2, Least
  <2>5. Min(I) \in I
    BY <2>4 DEF Min
  <2>6. RemoveAt(subs, Min(I)) = Cut(subs, Min(I))
    BY DEF RemoveAt, Cut
  <2> QED BY <2>2, <2>3, <2>5, <2>6
<1> QED BY <1>1, <1>2

LEMMA StreamTypeStep == TypeOK /\ [Next]_vars => TypeOK'
  <1> SUFFICES ASSUME TypeOK, [Next]_vars PROVE TypeOK'
    OBVIOUS
  <1>T. /\ seq \in 0 .. MaxEvents
        /\ log \in Seq(Event) /\ Len(log) <= LogMax
        /\ subs \in Seq(Clients) /\ queue \in [Clients -> Seq(Event)] /\ flag \in BOOLEAN
        /\ pub \in [Publishers -> Publication] /\ at \in [Clients -> Places]
        /\ seen \in [Clients -> Seq(Seqs)] /\ joined \in [Streams -> 0 .. MaxEvents]
        /\ leaves \in Nat /\ skips \subseteq Seqs
    BY DEF TypeOK, Publication
  <1>Q. ASSUME /\ seq' \in 0 .. MaxEvents
               /\ log' \in Seq(Event) /\ Len(log') <= LogMax
               /\ subs' \in Seq(Clients) /\ queue' \in [Clients -> Seq(Event)] /\ flag' \in BOOLEAN
               /\ pub' \in [Publishers -> Publication] /\ at' \in [Clients -> Places]
               /\ seen' \in [Clients -> Seq(Seqs)] /\ joined' \in [Streams -> 0 .. MaxEvents]
               /\ leaves' \in Nat /\ skips' \subseteq Seqs
        PROVE  TypeOK'
    BY <1>Q DEF TypeOK, Publication
  <1>I. Idle \in Publication
    <2>1. (CHOOSE k \in Tasks : TRUE) \in Tasks /\ 1 \in Seqs
      BY StreamAssumption DEF Seqs
    <2> QED
      BY <2>1 DEF Idle, Publication, Event, Stages
  <1>M. \A c \in Clients, p \in Places : Move(c, p) => at' \in [Clients -> Places]
    BY <1>T DEF Move
  <1>1. ASSUME NEW p \in Publishers, TakeSeq(p) PROVE TypeOK'
    <2>1. PICK k \in Tasks, final \in Finals :
            pub' = [pub EXCEPT ![p] = [stage |-> "log", i |-> 1,
                      event |-> [seq |-> seq + 1, task |-> k, final |-> final]]]
      BY <1>1 DEF TakeSeq
    <2>2. seq + 1 \in Seqs /\ seq' = seq + 1 /\ seq' \in 0 .. MaxEvents
      BY <1>1, <1>T, StreamAssumption DEF TakeSeq, Seqs
    <2>3. [seq |-> seq + 1, task |-> k, final |-> final] \in Event
      BY <2>2, StreamAssumption DEF Event
    <2>4. pub' \in [Publishers -> Publication]
      BY <1>T, <2>1, <2>3 DEF Publication, Stages
    <2> QED
      BY <1>1, <1>T, <1>Q, <2>2, <2>4 DEF TakeSeq
  <1>2. ASSUME NEW p \in Publishers, AppendLog(p) PROVE TypeOK'
    <2> DEFINE l == Append(log, pub[p].event)
    <2>1. pub[p].event \in Event
      BY <1>T DEF Publication
    <2>2. l \in Seq(Event) /\ Len(l) = Len(log) + 1 /\ Len(log) \in Nat
      BY <1>T, <2>1
    <2>a. l # <<>> /\ LogMax \in Nat
      BY <2>2, StreamAssumption
    <2>3. Tail(l) \in Seq(Event) /\ Len(Tail(l)) = Len(log)
      BY <2>2, <2>a
    <2>4. log' = IF Len(l) > LogMax THEN Tail(l) ELSE l
      BY <1>2 DEF AppendLog
    <2> HIDE DEF l
    <2>5. log' \in Seq(Event) /\ Len(log') <= LogMax
      BY <1>T, <2>2, <2>a, <2>3, <2>4
    <2>6. pub' \in [Publishers -> Publication]
      BY <1>2, <1>T DEF AppendLog, Publication, Stages
    <2> QED
      BY <1>2, <1>T, <1>Q, <2>5, <2>6 DEF AppendLog
  <1>3. ASSUME NEW p \in Publishers, FanOut(p) PROVE TypeOK'
    <2>1. pub[p].event \in Event /\ pub[p].i \in Nat \ {0}
      BY <1>T DEF Publication
    <2>2. pub' \in [Publishers -> Publication]
      <3>1. \/ pub' = [pub EXCEPT ![p].i = pub[p].i + 1]
            \/ pub' = [pub EXCEPT ![p].stage = "notify"]
        BY <1>3 DEF FanOut
      <3>2. pub[p].i + 1 \in Nat \ {0} /\ "notify" \in Stages
        BY <2>1 DEF Stages
      <3>3. \A q \in Publication, n \in Nat \ {0}, s \in Stages :
              [q EXCEPT !.i = n] \in Publication /\ [q EXCEPT !.stage = s] \in Publication
        BY DEF Publication
      <3>4. \/ pub' = [pub EXCEPT ![p] = [pub[p] EXCEPT !.i = pub[p].i + 1]]
            \/ pub' = [pub EXCEPT ![p] = [pub[p] EXCEPT !.stage = "notify"]]
        BY <3>1
      <3>5. pub[p] \in Publication
        BY <1>T
      <3> QED
        BY <1>T, <3>2, <3>3, <3>4, <3>5
    <2>3. queue' \in [Clients -> Seq(Event)]
      <3>1. CASE pub[p].i <= Len(subs)
        <4>1. subs[pub[p].i] \in Clients
          BY <1>T, <2>1, <3>1
        <4>2. queue' = [queue EXCEPT ![subs[pub[p].i]] = Append(@, pub[p].event)]
          BY <1>3, <3>1 DEF FanOut
        <4> QED
          BY <1>T, <2>1, <4>1, <4>2
      <3>2. CASE ~(pub[p].i <= Len(subs))
        BY <1>3, <1>T, <3>2 DEF FanOut
      <3> QED
        BY <3>1, <3>2
    <2> QED
      BY <1>3, <1>T, <1>Q, <2>2, <2>3 DEF FanOut
  <1>4. ASSUME NEW p \in Publishers, Notify(p) PROVE TypeOK'
    <2>1. at' \in [Clients -> Places]
      BY <1>4, <1>T DEF Notify, Places
    <2>2. pub' \in [Publishers -> Publication]
      BY <1>4, <1>T, <1>I DEF Notify
    <2> QED
      BY <1>4, <1>T, <1>Q, <2>1, <2>2 DEF Notify
  <1>5. ASSUME NEW c \in Clients,
               OpenStream(c) \/ OpenTask(c) \/ FindEmpty(c) \/ EnterWait(c) \/ TimeOut(c)
               \/ Clear(c) \/ GoAway(c)
        PROVE  TypeOK'
    <2>1. at' \in [Clients -> Places]
      BY <1>5, <1>M DEF OpenStream, OpenTask, FindEmpty, EnterWait, TimeOut, Clear, GoAway, Places
    <2>2. flag' \in BOOLEAN
      BY <1>5, <1>T DEF OpenStream, OpenTask, FindEmpty, EnterWait, TimeOut, Clear, GoAway
    <2>3. /\ UNCHANGED <<seq, log, subs, queue, pub, seen, joined, skips>>
          /\ leaves' \in Nat
      BY <1>5, <1>T DEF OpenStream, OpenTask, FindEmpty, EnterWait, TimeOut, Clear, GoAway
    <2> QED
      BY <1>T, <1>Q, <2>1, <2>2, <2>3
  <1>6. ASSUME NEW c \in Clients, Replay(c) PROVE TypeOK'
    <2>0. PICK since \in 0 .. seq :
            LET picked == Pick(log, {e \in ToSet(log) : e.seq > since})
            IN  seen' = [seen EXCEPT ![c] = @ \o [i \in DOMAIN picked |-> picked[i].seq]]
      BY <1>6 DEF Replay
    <2> DEFINE missed == Pick(log, {e \in ToSet(log) : e.seq > since})
               sent == [i \in DOMAIN missed |-> missed[i].seq]
    <2>1. missed \in Seq(Event)
      BY <1>T, ElementsOfPick
    <2>2. seen' = [seen EXCEPT ![c] = @ \o sent] /\ Move(c, "subscribe")
          /\ UNCHANGED <<seq, log, subs, queue, flag, pub, joined, leaves, skips>>
      BY <1>6, <2>0 DEF Replay
    <2> HIDE DEF missed
    <2>3. sent \in Seq(Seqs)
      <3>1. Len(missed) \in Nat /\ DOMAIN missed = 1 .. Len(missed)
        BY <2>1
      <3>2. \A i \in DOMAIN missed : missed[i].seq \in Seqs
        <4>1. \A i \in DOMAIN missed : missed[i] \in Event
          BY <2>1
        <4> QED
          BY <4>1 DEF Event
      <3>3. sent \in [1 .. Len(missed) -> Seqs]
        BY <3>1, <3>2
      <3> HIDE DEF sent
      <3> QED
        BY <3>1, <3>3, FunctionIsSeq
    <2> HIDE DEF sent
    <2>4. seen' \in [Clients -> Seq(Seqs)]
      BY <1>T, <2>2, <2>3
    <2>5. at' \in [Clients -> Places]
      BY <1>M, <2>2 DEF Places
    <2> QED
      BY <1>T, <1>Q, <2>2, <2>4, <2>5
  <1>7. ASSUME NEW c \in Clients, Subscribe(c) PROVE TypeOK'
    <2>1. subs' \in Seq(Clients) /\ queue' \in [Clients -> Seq(Event)]
          /\ joined' \in [Streams -> 0 .. MaxEvents]
      BY <1>7, <1>T DEF Subscribe
    <2>2. at' \in [Clients -> Places]
      BY <1>7, <1>M DEF Subscribe, Places
    <2> QED
      BY <1>7, <1>T, <1>Q, <2>1, <2>2 DEF Subscribe
  <1>8. ASSUME NEW c \in Clients, TakeOne(c) PROVE TypeOK'
    <2>1. queue[c] \in Seq(Event) /\ queue[c] # <<>> /\ Head(queue[c]) \in Event
      BY <1>8, <1>T DEF TakeOne
    <2>2. queue' \in [Clients -> Seq(Event)]
      BY <1>8, <1>T, <2>1 DEF TakeOne
    <2>3. Head(queue[c]).seq \in Seqs
      BY <2>1 DEF Event
    <2>4. seen' \in [Clients -> Seq(Seqs)]
      BY <1>8, <1>T, <2>3 DEF TakeOne
    <2>5. at' \in [Clients -> Places]
      BY <1>8, <1>M DEF TakeOne, Places
    <2> QED
      BY <1>8, <1>T, <1>Q, <2>2, <2>4, <2>5 DEF TakeOne
  <1>9. ASSUME NEW c \in Clients, Unsubscribe(c) PROVE TypeOK'
    <2>1. subs' \in Seq(Clients) /\ skips' \subseteq Seqs
      <3>1. \A k \in 1 .. Len(subs) : Past(k) \subseteq Seqs /\ Cut(subs, k) \in Seq(Clients)
        BY <1>T, CutAt DEF Past, Publication, Event
      <3> QED BY <1>9, <1>T, <3>1, OneOut
    <2>2. at' \in [Clients -> Places]
      BY <1>9, <1>M DEF Unsubscribe, Places
    <2>3. queue' \in [Clients -> Seq(Event)] /\ leaves' \in Nat
      BY <1>9, <1>T DEF Unsubscribe
    <2> QED
      BY <1>9, <1>T, <1>Q, <2>1, <2>2, <2>3 DEF Unsubscribe
  <1>10. CASE UNCHANGED vars
    BY <1>10 DEF vars, TypeOK
  <1> QED
    BY <1>1, <1>2, <1>3, <1>4, <1>5, <1>6, <1>7, <1>8, <1>9, <1>10 DEF Next, Publish, Serve

LEMMA InitTypes == Init => TypeOK
  <1> SUFFICES ASSUME Init PROVE TypeOK
    OBVIOUS
  <1>1. (CHOOSE k \in Tasks : TRUE) \in Tasks /\ 1 \in Seqs
    BY StreamAssumption DEF Seqs
  <1>2. Idle \in Publication
    BY <1>1 DEF Idle, Publication, Event, Stages
  <1>3. pub \in [Publishers -> [stage : Stages, event : Event, i : Nat \ {0}]]
    BY <1>2 DEF Init, Publication
  <1>4. log \in Seq(Event) /\ Len(log) = 0 /\ subs \in Seq(Clients) /\ LogMax \in Nat
    BY StreamAssumption DEF Init
  <1>5. queue \in [Clients -> Seq(Event)] /\ seen \in [Clients -> Seq(Seqs)]
    BY DEF Init
  <1>6. at \in [Clients -> Places] /\ joined \in [Streams -> 0 .. MaxEvents] /\ seq \in 0 .. MaxEvents
    BY StreamAssumption DEF Init, Places
  <1>7. flag \in BOOLEAN /\ leaves \in Nat /\ skips \subseteq Seqs
    BY DEF Init
  <1>8. Len(log) <= LogMax
    BY <1>4
  <1> QED
    BY <1>3, <1>4, <1>5, <1>6, <1>7, <1>8 DEF TypeOK

(* The replay log never holds more than LogMax events, and every thread,    *)
(* queue and counter of the fan-out keeps its type.                         *)
THEOREM StreamTypes == Spec => []TypeOK
  <1> QED
    BY InitTypes, StreamTypeStep, PTL DEF Spec

-----------------------------------------------------------------------------
(* A connected stream gets every event once.                                *)

(* What client c was told or will be: the numbers written, then the queue.  *)
Told(c) ==
  [k \in 1 .. Len(seen[c]) + Len(queue[c]) |->
     IF k <= Len(seen[c]) THEN seen[c][k] ELSE queue[c][k - Len(seen[c])].seq]

(* The publisher of event n is past place i of the subscriber list.         *)
Offered(i, n) ==
  /\ n <= seq
  /\ \A p \in Publishers : pub[p].stage \in {"log", "fan"} /\ pub[p].event.seq = n =>
       pub[p].stage = "fan" /\ i < pub[p].i

InList(c) == at[c] \notin {"off", "replay", "subscribe"}

(* StreamIsComplete is not inductive: an event in the middle of its way     *)
(* through the list has reached the places before the publisher and no      *)
(* other.  A place is one client's, but a queue that is taken out by value  *)
(* may be another's, and then a loop that had come past it skips one.       *)
StartsAtFirst == \A p \in Publishers : pub[p].stage = "log" => pub[p].i = 1
SubscribedOnce ==
  /\ \A i \in DOMAIN subs : InList(subs[i])
  /\ \A i, j \in DOMAIN subs : subs[i] = subs[j] => i = j
SeenTaken == \A c \in Clients : \A k \in DOMAIN seen[c] : seen[c][k] <= seq
QueuedTaken == \A c \in Clients : \A k \in DOMAIN queue[c] : queue[c][k].seq <= seq
Once(c, n) == \A k, l \in DOMAIN Told(c) : Told(c)[k] = n /\ Told(c)[l] = n => k = l
Among(c, n) == \E k \in DOMAIN Told(c) : Told(c)[k] = n
Matches(i, c, n) ==
  /\ Among(c, n) => Offered(i, n)
  /\ n \notin skips => (Offered(i, n) => Among(c, n))
ToldOnce ==
  \A c \in Streams : InList(c) => \A n \in Seqs : n > joined[c] => Once(c, n)
OfferedOnce ==
  \A i \in DOMAIN subs, c \in Streams : subs[i] = c =>
    \A n \in Seqs : n > joined[c] => Matches(i, c, n)
FanInv ==
  StartsAtFirst /\ SubscribedOnce /\ SeenTaken /\ QueuedTaken /\ ToldOnce /\ OfferedOnce

LEMMA StreamsAreClients == \A c \in Streams : c \in Clients
  BY DEF Clients

(* A number is counted once where it occurs once.                           *)
LEMMA CountOnce ==
  ASSUME TypeOK, NEW c \in Clients, NEW n \in Seqs, Once(c, n), Among(c, n)
  PROVE  Times(n, seen[c]) + Cardinality({i \in DOMAIN queue[c] : queue[c][i].seq = n}) = 1
  <1> DEFINE s == seen[c]
             q == queue[c]
             A == {i \in DOMAIN s : s[i] = n}
             B == {i \in DOMAIN q : q[i].seq = n}
  <1>1. /\ DOMAIN s = 1 .. Len(s) /\ Len(s) \in Nat
        /\ DOMAIN q = 1 .. Len(q) /\ Len(q) \in Nat
    <2>1. s \in Seq(Seqs) /\ q \in Seq(Event)
      BY DEF TypeOK
    <2> HIDE DEF s, q
    <2> QED
      BY <2>1
  <1>2. PICK k \in 1 .. Len(s) + Len(q) : Told(c)[k] = n
    BY DEF Among, Told
  <1>3. /\ \A i \in A : i \in 1 .. Len(s) + Len(q) /\ Told(c)[i] = n
        /\ \A i \in B : i + Len(s) \in 1 .. Len(s) + Len(q) /\ Told(c)[i + Len(s)] = n
    <2>1. Told(c) = [j \in 1 .. Len(s) + Len(q) |-> IF j <= Len(s) THEN s[j] ELSE q[j - Len(s)].seq]
      BY DEF Told
    <2> HIDE DEF s, q
    <2>2. ASSUME NEW i \in A PROVE i \in 1 .. Len(s) + Len(q) /\ Told(c)[i] = n
      BY <1>1, <2>1
    <2>3. ASSUME NEW i \in B PROVE i + Len(s) \in 1 .. Len(s) + Len(q) /\ Told(c)[i + Len(s)] = n
      <3>1. i \in 1 .. Len(q) /\ q[i].seq = n
        BY <1>1
      <3>2. i + Len(s) \in 1 .. Len(s) + Len(q) /\ ~(i + Len(s) <= Len(s)) /\ (i + Len(s)) - Len(s) = i
        BY <1>1, <3>1
      <3> QED
        BY <2>1, <3>1, <3>2
    <2> QED
      BY <2>2, <2>3
  <1>4. \A j \in 1 .. Len(s) + Len(q) : Told(c)[j] = n => j = k
    <2>1. DOMAIN Told(c) = 1 .. Len(s) + Len(q)
      BY DEF Told
    <2> QED
      BY <1>2, <2>1 DEF Once
  <1>5. CASE k <= Len(s)
    <2>1. s[k] = n
      BY <1>2, <1>5 DEF Told
    <2> HIDE DEF s, q
    <2>2. A = {k}
      BY <1>1, <1>2, <1>3, <1>4, <1>5, <2>1
    <2>3. B = {}
      <3> SUFFICES ASSUME NEW i \in B PROVE FALSE
        OBVIOUS
      <3>1. i + Len(s) = k /\ i \in 1 .. Len(q)
        BY <1>1, <1>3, <1>4
      <3> QED
        BY <1>1, <1>5, <3>1
    <2>4. Cardinality(A) = 1 /\ Cardinality(B) = 0
      BY <2>2, <2>3, FS_Singleton, FS_EmptySet
    <2> QED
      BY <2>4 DEF Times, s, q
  <1>6. CASE ~(k <= Len(s))
    <2>1. q[k - Len(s)].seq = n
      BY <1>2, <1>6 DEF Told
    <2> HIDE DEF s, q
    <2>2. A = {}
      <3> SUFFICES ASSUME NEW i \in A PROVE FALSE
        OBVIOUS
      <3>1. i = k /\ i \in 1 .. Len(s)
        BY <1>1, <1>3, <1>4
      <3> QED
        BY <1>1, <1>6, <3>1
    <2>3. B = {k - Len(s)}
      <3>1. k - Len(s) \in 1 .. Len(q)
        BY <1>1, <1>2, <1>6
      <3>2. \A i \in B : i = k - Len(s)
        BY <1>1, <1>2, <1>3, <1>4
      <3> QED
        BY <1>1, <2>1, <3>1, <3>2
    <2>4. Cardinality(A) = 0 /\ Cardinality(B) = 1
      BY <2>2, <2>3, FS_Singleton, FS_EmptySet
    <2> QED
      BY <2>4 DEF Times, s, q
  <1> QED
    BY <1>5, <1>6

LEMMA CountNone ==
  ASSUME TypeOK, NEW c \in Clients, NEW n \in Seqs, ~Among(c, n)
  PROVE  Times(n, seen[c]) + Cardinality({i \in DOMAIN queue[c] : queue[c][i].seq = n}) = 0
  <1>1. PICK s \in Seq(Seqs), q \in Seq(Event) : s = seen[c] /\ q = queue[c]
    BY DEF TypeOK
  <1>2. Told(c) = [j \in 1 .. Len(s) + Len(q) |-> IF j <= Len(s) THEN s[j] ELSE q[j - Len(s)].seq]
    BY <1>1 DEF Told
  <1>3. ASSUME NEW i \in DOMAIN s PROVE s[i] # n
    <2>1. i \in 1 .. Len(s) + Len(q) /\ i <= Len(s)
      OBVIOUS
    <2> QED BY <1>2, <2>1 DEF Among
  <1>4. ASSUME NEW i \in DOMAIN q PROVE q[i].seq # n
    <2>1. i + Len(s) \in 1 .. Len(s) + Len(q) /\ ~(i + Len(s) <= Len(s)) /\ (i + Len(s)) - Len(s) = i
      OBVIOUS
    <2> QED BY <1>2, <2>1 DEF Among
  <1>5. {i \in DOMAIN s : s[i] = n} = {} /\ {i \in DOMAIN q : q[i].seq = n} = {}
    BY <1>3, <1>4
  <1>6. Times(n, s) = 0 /\ Cardinality({i \in DOMAIN q : q[i].seq = n}) = 0
    BY <1>5, FS_EmptySet DEF Times
  <1> QED BY <1>1, <1>6

LEMMA CompleteFromInv == TypeOK /\ FanInv => StreamIsComplete
  <1> SUFFICES ASSUME TypeOK, FanInv, NEW c \in Streams, Connected(c),
                      NEW n \in Spread, n > joined[c]
               PROVE  /\ Offers(n, c) <= 1
                      /\ c \in ToSet(subs) /\ n \notin skips => Offers(n, c) = 1
    BY DEF StreamIsComplete
  <1>1. c \in Clients /\ InList(c)
    BY StreamsAreClients DEF Connected, InList
  <1>2. n \in Seqs /\ n <= seq
    BY StreamAssumption DEF Spread, TypeOK, Seqs
  <1>3. Once(c, n)
    BY <1>1, <1>2 DEF FanInv, ToldOnce
  <1>4. Among(c, n) => Offers(n, c) = 1
    BY <1>1, <1>2, <1>3, CountOnce DEF Offers
  <1>5. ~Among(c, n) => Offers(n, c) = 0
    BY <1>1, <1>2, CountNone DEF Offers
  <1>6. ASSUME c \in ToSet(subs), n \notin skips PROVE Among(c, n)
    <2>1. PICK i \in DOMAIN subs : subs[i] = c
      BY <1>6 DEF ToSet
    <2>2. Offered(i, n)
      BY <1>2 DEF Spread, Offered
    <2>3. Matches(i, c, n)
      BY <1>2, <2>1 DEF FanInv, OfferedOnce
    <2> QED BY <1>6, <2>2, <2>3 DEF Matches
  <1> QED
    BY <1>4, <1>5, <1>6

(* A step that tells no stream anything new and offers no event further     *)
(* keeps what every place was offered.                                      *)
LEMMA PlacesKept ==
  ASSUME SubscribedOnce, ToldOnce, OfferedOnce, subs \in Seq(Clients),
         subs' = subs, joined' = joined, skips' = skips,
         \A c \in Clients : InList(c)' <=> InList(c),
         \A c \in Streams : InList(c) => Told(c)' = Told(c),
         \A i \in DOMAIN subs, n \in Seqs : Offered(i, n)' <=> Offered(i, n)
  PROVE  SubscribedOnce' /\ ToldOnce' /\ OfferedOnce'
  <1>1. SubscribedOnce'
    <2>1. \A i \in DOMAIN subs : InList(subs[i])'
      <3> SUFFICES ASSUME NEW i \in DOMAIN subs PROVE InList(subs[i])'
        OBVIOUS
      <3>1. PICK c \in Clients : c = subs[i] /\ InList(c)
        BY DEF SubscribedOnce
      <3>2. InList(c)' /\ subs'[i] = c
        BY <3>1
      <3> QED BY <3>2 DEF InList
    <2> QED BY <2>1 DEF SubscribedOnce
  <1>2. ToldOnce'
    BY StreamsAreClients DEF ToldOnce, Once
  <1>3. OfferedOnce'
    <2> SUFFICES ASSUME NEW i \in DOMAIN subs, NEW c \in Streams, subs[i] = c,
                        NEW n \in Seqs, n > joined[c]
                 PROVE  Matches(i, c, n)'
      BY DEF OfferedOnce
    <2>1. Told(c)' = Told(c)
      BY DEF SubscribedOnce
    <2>2. Matches(i, c, n)
      BY DEF OfferedOnce
    <2> QED
      BY <2>1, <2>2 DEF Matches, Among
  <1> QED
    BY <1>1, <1>2, <1>3

(* The publisher of an event passes a place: the queue there gets it.       *)
LEMMA FanOutStep ==
  ASSUME TypeOK, SeqInv, SubscribedOnce, ToldOnce, OfferedOnce, NEW p \in Publishers, FanOut(p)
  PROVE  SubscribedOnce' /\ ToldOnce' /\ OfferedOnce'
  <1>0. /\ pub \in [Publishers -> Publication] /\ pub[p].stage = "fan"
        /\ pub[p].event \in Event /\ pub[p].i \in Nat \ {0}
        /\ subs \in Seq(Clients) /\ queue \in [Clients -> Seq(Event)] /\ Len(subs) \in Nat
        /\ UNCHANGED <<seq, log, subs, flag, at, seen, joined, leaves, skips>>
    BY DEF TypeOK, Publication, FanOut
  <1>1. /\ \A r \in Publishers \ {p} : pub'[r] = pub[r]
        /\ pub'[p].event = pub[p].event
        /\ pub'[p].stage = IF pub[p].i <= Len(subs) THEN "fan" ELSE "notify"
        /\ pub'[p].i = IF pub[p].i <= Len(subs) THEN pub[p].i + 1 ELSE pub[p].i
    <2>1. pub' = IF pub[p].i <= Len(subs) THEN [pub EXCEPT ![p].i = pub[p].i + 1]
                 ELSE [pub EXCEPT ![p].stage = "notify"]
      BY DEF FanOut
    <2> QED
      BY <1>0, <2>1 DEF Publication
  <1>2. PICK m \in Nat, e \in Event : m = pub[p].i /\ e = pub[p].event
    BY <1>0
  <1>3. \A r \in Publishers \ {p} : pub[r].stage \in {"log", "fan"} => pub[r].event.seq # e.seq
    BY <1>0, <1>2 DEF SeqInv, PubUnique
  <1>4. ASSUME NEW i \in DOMAIN subs, NEW n \in Seqs, n # e.seq \/ i # m
        PROVE  Offered(i, n)' <=> Offered(i, n)
    <2>1. i \in 1 .. Len(subs) /\ i \in Nat
      BY <1>0
    <2>2. ASSUME n = e.seq PROVE i # m /\ ((pub[p].stage = "fan" /\ i < pub[p].i)
                 <=> (pub'[p].stage \in {"log", "fan"} => pub'[p].stage = "fan" /\ i < pub'[p].i))
      BY <1>0, <1>1, <1>2, <1>4, <2>1, <2>2
    <2> QED
      BY <1>0, <1>1, <1>2, <2>1, <2>2 DEF Offered
  <1>5. CASE ~(m <= Len(subs))
    <2>1. queue' = queue
      BY <1>2, <1>5 DEF FanOut
    <2>2. \A i \in DOMAIN subs : i # m
      BY <1>0, <1>5
    <2>3. \A i \in DOMAIN subs, n \in Seqs : Offered(i, n)' <=> Offered(i, n)
      BY <1>4, <2>2
    <2>4. \A c \in Clients : Told(c)' = Told(c) /\ (InList(c)' <=> InList(c))
      BY <1>0, <2>1 DEF Told, InList
    <2> QED
      BY <1>0, <2>3, <2>4, PlacesKept, StreamsAreClients
  <1>6. CASE m <= Len(subs)
    <2>1. PICK d \in Clients : d = subs[m] /\ m \in DOMAIN subs
      BY <1>0, <1>2, <1>6
    <2>2. queue' = [queue EXCEPT ![d] = Append(@, e)]
      BY <1>2, <1>6, <2>1 DEF FanOut
    <2>3. \A c \in Clients : InList(c)' <=> InList(c)
      BY <1>0 DEF InList
    <2>4. SubscribedOnce'
      <3>1. \A i \in DOMAIN subs : subs[i] \in Clients /\ InList(subs[i])
        BY <1>0 DEF SubscribedOnce
      <3> QED BY <1>0, <3>1 DEF SubscribedOnce, InList
    <2>a. \A c \in Clients : c # d => Told(c)' = Told(c)
      BY <1>0, <2>2 DEF Told
    <2>b. ASSUME NEW c \in Streams, c = d, NEW n \in Seqs, n > joined[c]
          PROVE  Once(c, n)' /\ (Among(c, n)' <=> Among(c, n) \/ n = e.seq)
      <3>1. /\ Once(c, n) /\ Matches(m, c, n) /\ c \in Clients /\ m \in DOMAIN subs /\ subs[m] = c
        <4>1. InList(c) /\ c \in Clients
          BY <2>1, <2>b DEF SubscribedOnce
        <4> QED BY <4>1, <2>1, <2>b DEF ToldOnce, OfferedOnce
      <3>2. n = e.seq => ~Among(c, n)
        <4>1. n = e.seq => ~Offered(m, n)
          BY <1>0, <1>2 DEF Offered
        <4> QED BY <3>1, <4>1 DEF Matches
      <3> QED
        <4>2. /\ seen[c] \in Seq(Seqs) /\ queue[c] \in Seq(Event) /\ queue'[c] = Append(queue[c], e)
              /\ seen' = seen
          BY <1>0, <2>2, <2>b, <3>1 DEF TypeOK
        <4>a. PICK a \in Nat, b \in Nat : a = Len(seen[c]) /\ b = Len(queue[c])
          BY <4>2
        <4>3. /\ DOMAIN Told(c) = 1 .. a + b /\ DOMAIN Told(c)' = 1 .. a + b + 1
              /\ Told(c)'[a + b + 1] = e.seq
              /\ \A k \in 1 .. a + b : Told(c)'[k] = Told(c)[k]
          <5>1. /\ Len(queue'[c]) = b + 1
                /\ \A k \in 1 .. b : queue'[c][k] = queue[c][k]
                /\ queue'[c][b + 1] = e
            BY <4>2, <4>a
          <5>2. Told(c) = [k \in 1 .. a + b |->
                  IF k <= a THEN seen[c][k] ELSE queue[c][k - a].seq]
            BY <4>a DEF Told
          <5>3. Told(c)' = [k \in 1 .. a + b + 1 |->
                  IF k <= a THEN seen[c][k] ELSE queue'[c][k - a].seq]
            <6>1. a + Len(queue'[c]) = a + b + 1
              BY <5>1
            <6>2. Told(c)' = [k \in 1 .. a + Len(queue'[c]) |->
                    IF k <= a THEN seen[c][k] ELSE queue'[c][k - a].seq]
              BY <4>2, <4>a DEF Told
            <6> QED
              BY <6>1, <6>2
          <5>4. /\ ~(a + b + 1 <= a) /\ (a + b + 1) - a = b + 1
                /\ \A k \in 1 .. a + b : k <= a \/ k - a \in 1 .. b
                /\ a + b + 1 \in 1 .. a + b + 1 /\ \A k \in 1 .. a + b : k \in 1 .. a + b + 1
            OBVIOUS
          <5>5. DOMAIN Told(c) = 1 .. a + b /\ DOMAIN Told(c)' = 1 .. a + b + 1
            BY <5>2, <5>3
          <5>6. Told(c)'[a + b + 1] = queue'[c][b + 1].seq
            BY <5>3, <5>4
          <5>7. ASSUME NEW k \in 1 .. a + b PROVE Told(c)'[k] = Told(c)[k]
            <6>1. /\ Told(c)[k] = IF k <= a THEN seen[c][k] ELSE queue[c][k - a].seq
                  /\ Told(c)'[k] = IF k <= a THEN seen[c][k] ELSE queue'[c][k - a].seq
              BY <5>2, <5>3, <5>4
            <6>2. k <= a \/ k - a \in 1 .. b
              BY <5>4
            <6>3. k <= a \/ queue'[c][k - a] = queue[c][k - a]
              BY <6>2, <5>1
            <6> QED
              BY <6>1, <6>3
          <5> QED
            BY <5>1, <5>5, <5>6, <5>7
        <4> QED
          BY <3>1, <3>2, <4>3 DEF Once, Among
    <2>5. ToldOnce'
      <3> SUFFICES ASSUME NEW c \in Streams, InList(c)', NEW n \in Seqs, n > joined[c]
                   PROVE  Once(c, n)'
        BY <1>0 DEF ToldOnce
      <3>1. InList(c) /\ c \in Clients
        BY <2>3, StreamsAreClients
      <3>2. CASE c = d
        BY <2>b, <3>2
      <3>3. CASE c # d
        BY <2>a, <3>1, <3>3 DEF ToldOnce, Once
      <3> QED BY <3>2, <3>3
    <2>6. OfferedOnce'
      <3> SUFFICES ASSUME NEW i \in DOMAIN subs, NEW c \in Streams, subs[i] = c,
                          NEW n \in Seqs, n > joined[c]
                   PROVE  Matches(i, c, n)'
        BY <1>0 DEF OfferedOnce
      <3>1. Matches(i, c, n) /\ c \in Clients
        BY StreamsAreClients DEF OfferedOnce
      <3>2. CASE c # d
        <4>1. Told(c)' = Told(c)
          BY <2>a, <3>1, <3>2
        <4>2. Offered(i, n)' <=> Offered(i, n)
          BY <1>4, <2>1, <3>2
        <4> QED
          BY <1>0, <3>1, <4>1, <4>2 DEF Matches, Among
      <3>3. CASE c = d
        <4>1. i = m
          BY <2>1, <3>3 DEF SubscribedOnce
        <4>2. Among(c, n)' <=> Among(c, n) \/ n = e.seq
          BY <2>b, <3>3
        <4>3. CASE n # e.seq
          <5>1. Offered(i, n)' <=> Offered(i, n)
            BY <1>4, <4>3
          <5> QED
            BY <1>0, <3>1, <4>2, <4>3, <5>1 DEF Matches
        <4>4. CASE n = e.seq
          <5>1. n <= seq
            BY <1>0, <1>2, <4>4 DEF SeqInv, Taken
          <5>2. pub'[p].stage = "fan" /\ i < pub'[p].i
            BY <1>1, <1>2, <1>6, <4>1
          <5>3. Offered(i, n)'
            BY <1>0, <1>1, <1>3, <4>4, <5>1, <5>2 DEF Offered
          <5> QED
            BY <4>2, <4>4, <5>3 DEF Matches
        <4> QED BY <4>3, <4>4
      <3> QED BY <3>2, <3>3
    <2> QED
      BY <2>4, <2>5, <2>6
  <1> QED
    BY <1>2, <1>5, <1>6

(* A client subscribes: it has been told nothing yet of what will come.     *)
LEMMA SubscribeStep ==
  ASSUME TypeOK, SubscribedOnce, SeenTaken, ToldOnce, OfferedOnce, NEW d \in Clients, Subscribe(d)
  PROVE  SubscribedOnce' /\ ToldOnce' /\ OfferedOnce'
  <1>0. /\ at[d] = "subscribe" /\ subs' = Append(subs, d)
        /\ queue' = [queue EXCEPT ![d] = <<>>]
        /\ joined' = [c \in Streams |-> IF c = d THEN seq ELSE joined[c]]
        /\ at' = [at EXCEPT ![d] = "loop"]
        /\ UNCHANGED <<seq, log, flag, pub, seen, leaves, skips>>
    BY DEF Subscribe, Move
  <1>1. /\ subs \in Seq(Clients) /\ Len(subs) \in Nat /\ DOMAIN subs = 1 .. Len(subs)
        /\ at \in [Clients -> Places] /\ queue \in [Clients -> Seq(Event)] /\ seq \in 0 .. MaxEvents
        /\ seen \in [Clients -> Seq(Seqs)]
    BY DEF TypeOK
  <1>2. PICK m \in Nat : m = Len(subs)
    BY <1>1
  <1>3. /\ DOMAIN subs' = 1 .. m + 1 /\ subs'[m + 1] = d
        /\ \A i \in 1 .. m : subs'[i] = subs[i]
    BY <1>0, <1>1, <1>2
  <1>4. ~InList(d) /\ \A i \in 1 .. m : subs[i] # d /\ subs[i] \in Clients /\ InList(subs[i])
    <2>1. ~InList(d)
      BY <1>0 DEF InList
    <2>2. ASSUME NEW i \in 1 .. m PROVE subs[i] # d /\ subs[i] \in Clients /\ InList(subs[i])
      <3>1. i \in DOMAIN subs /\ subs[i] \in Clients
        BY <1>1, <1>2
      <3>2. PICK c \in Clients : c = subs[i] /\ InList(c)
        BY <3>1 DEF SubscribedOnce
      <3>3. c # d
        BY <2>1, <3>2
      <3> QED BY <3>2, <3>3
    <2> QED BY <2>1, <2>2
  <1>5. \A c \in Clients : at'[c] = IF c = d THEN "loop" ELSE at[c]
    BY <1>0, <1>1
  <1>i. \A c \in Clients : InList(c)' <=> c = d \/ InList(c)
    BY <1>5 DEF InList
  <1>6. SubscribedOnce'
    <2>3. ASSUME NEW i \in DOMAIN subs' PROVE at'[subs'[i]] \notin {"off", "replay", "subscribe"}
      <3>1. PICK c \in Clients : c = subs'[i] /\ (c = d \/ InList(c))
        BY <1>3, <1>4
      <3>2. at'[c] \notin {"off", "replay", "subscribe"}
        BY <1>5, <3>1 DEF InList
      <3> QED BY <3>1, <3>2
    <2>4. \A i, j \in DOMAIN subs' : subs'[i] = subs'[j] => i = j
      <3>1. \A i, j \in 1 .. m : subs[i] = subs[j] => i = j
        BY <1>1, <1>2 DEF SubscribedOnce
      <3> QED
        BY <1>3, <1>4, <3>1
    <2> QED
      BY <2>3, <2>4 DEF SubscribedOnce, InList
  <1>7. ASSUME NEW n \in Seqs, n > seq, d \in Streams PROVE \A k \in DOMAIN Told(d)' : Told(d)'[k] # n
    <2>1. PICK a \in Seq(Seqs) : a = seen[d] /\ seen'[d] = a /\ queue'[d] = <<>>
      BY <1>0, <1>1
    <2>2. Told(d)' = [k \in 1 .. Len(a) + Len(queue'[d]) |-> IF k <= Len(a) THEN a[k] ELSE queue'[d][k - Len(a)].seq]
      BY <2>1 DEF Told
    <2>3. Len(queue'[d]) = 0 /\ Len(a) + 0 = Len(a)
      BY <2>1
    <2>4. \A k \in 1 .. Len(a) : a[k] <= seq /\ a[k] \in Nat
      <3>1. \A k \in 1 .. Len(a) : k \in DOMAIN seen[d] /\ a[k] \in Seqs
        BY <2>1
      <3>2. \A e \in Seqs : e \in Nat
        BY DEF Seqs
      <3> QED BY <2>1, <3>1, <3>2 DEF SeenTaken
    <2>5. n \in Nat /\ seq \in Nat
      BY <1>1 DEF Seqs
    <2> QED
      BY <1>7, <2>2, <2>3, <2>4, <2>5
  <1>8. \A c \in Streams : c # d => Told(c)' = Told(c) /\ joined'[c] = joined[c]
    BY <1>0, <1>1, StreamsAreClients DEF Told
  <1>9. ToldOnce'
    <2> SUFFICES ASSUME NEW c \in Streams, InList(c)', NEW n \in Seqs, n > joined'[c]
                 PROVE  Once(c, n)'
      BY DEF ToldOnce
    <2>1. CASE c = d
      <3>1. n > seq
        BY <1>0, <2>1
      <3> QED BY <1>7, <2>1, <3>1 DEF Once
    <2>2. CASE c # d
      BY <1>i, <1>8, <2>2, StreamsAreClients DEF ToldOnce, Once
    <2> QED BY <2>1, <2>2
  <1>10. OfferedOnce'
    <2> SUFFICES ASSUME NEW i \in DOMAIN subs', NEW c \in Streams, subs'[i] = c,
                        NEW n \in Seqs, n > joined'[c]
                 PROVE  Matches(i, c, n)'
      BY DEF OfferedOnce
    <2>1. CASE c = d
      <3>1. n > seq
        BY <1>0, <2>1
      <3>2. ~Offered(i, n)'
        <4>1. n \in Nat /\ seq \in Nat
          BY <1>1 DEF Seqs
        <4> QED
          BY <1>0, <3>1, <4>1 DEF Offered
      <3>3. ~Among(c, n)'
        BY <1>7, <2>1, <3>1 DEF Among
      <3> QED
        BY <3>2, <3>3 DEF Matches
    <2>2. CASE c # d
      <3>1. i \in DOMAIN subs /\ subs[i] = c /\ n > joined[c]
        BY <1>1, <1>2, <1>3, <1>8, <2>2
      <3>2. Matches(i, c, n)
        BY <3>1 DEF OfferedOnce
      <3>3. Told(c)' = Told(c) /\ (Offered(i, n)' <=> Offered(i, n))
        BY <1>0, <1>8, <2>2 DEF Offered
      <3> QED
        BY <1>0, <3>2, <3>3 DEF Matches, Among
    <2> QED
      BY <2>1, <2>2
  <1> QED
    BY <1>6, <1>9, <1>10

(* An event goes from the queue of a stream to what it was told.            *)
LEMMA TakeOneKeeps ==
  ASSUME TypeOK, NEW c \in Streams, TakeOne(c)
  PROVE  Told(c)' = Told(c)
  <1> DEFINE q == queue[c]
  <1>1. /\ c \in Clients /\ seen[c] \in Seq(Seqs) /\ q \in Seq(Event) /\ q # <<>>
        /\ queue'[c] = Tail(q) /\ seen'[c] = Append(seen[c], Head(q).seq)
        /\ Head(q).seq \in Seqs
    <2>1. c \in Clients /\ queue[c] \in Seq(Event) /\ queue[c] # <<>>
      BY StreamsAreClients DEF TypeOK, TakeOne
    <2>2. Head(queue[c]) \in Event
      BY <2>1
    <2> QED
      BY <2>1, <2>2 DEF TypeOK, TakeOne, Event
  <1> HIDE DEF q
  <1>2. PICK a \in Nat, b \in Nat : a = Len(seen[c]) /\ b + 1 = Len(q)
    <2>1. Len(q) \in Nat /\ Len(q) # 0 /\ Len(seen[c]) \in Nat
      BY <1>1
    <2>2. Len(q) - 1 \in Nat /\ (Len(q) - 1) + 1 = Len(q)
      BY <2>1
    <2> QED
      BY <2>1, <2>2
  <1>3. /\ Len(seen'[c]) = a + 1 /\ Len(queue'[c]) = b
        /\ \A k \in 1 .. a : seen'[c][k] = seen[c][k]
        /\ seen'[c][a + 1] = q[1].seq
        /\ \A k \in 1 .. b : queue'[c][k] = q[k + 1]
    BY <1>1, <1>2
  <1>4. Told(c) = [k \in 1 .. a + (b + 1) |-> IF k <= a THEN seen[c][k] ELSE q[k - a].seq]
    BY <1>2 DEF Told, q
  <1>5. Told(c)' = [k \in 1 .. (a + 1) + b |-> IF k <= a + 1 THEN seen'[c][k] ELSE queue'[c][k - (a + 1)].seq]
    BY <1>3 DEF Told
  <1>6. a + (b + 1) = (a + 1) + b
    OBVIOUS
  <1>7. ASSUME NEW k \in 1 .. a + (b + 1)
        PROVE  (IF k <= a THEN seen[c][k] ELSE q[k - a].seq)
                 = (IF k <= a + 1 THEN seen'[c][k] ELSE queue'[c][k - (a + 1)].seq)
    <2>1. CASE k <= a
      BY <1>3, <2>1
    <2>2. CASE k = a + 1
      <3>1. ~(k <= a) /\ k <= a + 1 /\ k - a = 1
        BY <2>2
      <3> QED
        BY <1>3, <2>2, <3>1
    <2>3. CASE k > a + 1
      <3>1. ~(k <= a) /\ ~(k <= a + 1) /\ k - (a + 1) \in 1 .. b /\ (k - (a + 1)) + 1 = k - a
        BY <2>3
      <3> QED
        BY <1>3, <3>1
    <2> QED
      BY <2>1, <2>2, <2>3
  <1> QED
    BY <1>4, <1>5, <1>6, <1>7

(* A queue leaves the list: what follows it moves up one place.             *)
LEMMA UnsubscribeStep ==
  ASSUME TypeOK, SubscribedOnce, ToldOnce, OfferedOnce, NEW d \in Clients, Unsubscribe(d)
  PROVE  SubscribedOnce' /\ ToldOnce' /\ OfferedOnce'
  <1>0. /\ at[d] = "leave" /\ at' = [at EXCEPT ![d] = "gone"]
        /\ UNCHANGED <<seq, log, queue, flag, pub, seen, joined, leaves>>
    BY DEF Unsubscribe, Move
  <1>1. /\ subs \in Seq(Clients) /\ Len(subs) \in Nat /\ DOMAIN subs = 1 .. Len(subs)
        /\ at \in [Clients -> Places] /\ pub \in [Publishers -> Publication]
    BY DEF TypeOK, Publication
  <1>2. \A c \in Clients : InList(c)' <=> InList(c)
    BY <1>0, <1>1 DEF InList
  <1>3. \A c \in Streams : Told(c)' = Told(c)
    BY <1>0 DEF Told
  <1>4. \A i, n : Offered(i, n)' <=> Offered(i, n)
    BY <1>0 DEF Offered
  <1>5. CASE subs' = subs /\ skips' = skips
    BY <1>0, <1>1, <1>2, <1>3, <1>4, <1>5, PlacesKept
  <1>6. ASSUME NEW j \in 1 .. Len(subs), subs' = Cut(subs, j), skips' = skips \cup Past(j)
        PROVE  SubscribedOnce' /\ ToldOnce' /\ OfferedOnce'
    <2>0. Len(subs) - 1 \in Nat /\ Len(subs) = (Len(subs) - 1) + 1
      BY <1>1
    <2>1. PICK m \in Nat : m = Len(subs) - 1 /\ Len(subs) = m + 1
      BY <2>0
    <2>2. /\ DOMAIN subs' = 1 .. m
          /\ \A i \in 1 .. m : subs'[i] = IF i < j THEN subs[i] ELSE subs[i + 1]
      BY <1>1, <1>6, <2>1, CutAt
    <2>3. \A i \in 1 .. m : i \in Nat /\ i \in 1 .. Len(subs) /\ i + 1 \in 1 .. Len(subs)
      BY <2>1
    <2>4. ASSUME NEW i \in DOMAIN subs'
          PROVE  \E h \in DOMAIN subs : subs'[i] = subs[h] /\ h = IF i < j THEN i ELSE i + 1
      <3>1. i \in 1 .. m
        BY <2>2
      <3>2. i \in DOMAIN subs /\ i + 1 \in DOMAIN subs
        BY <1>1, <2>3, <3>1
      <3>3. subs'[i] = IF i < j THEN subs[i] ELSE subs[i + 1]
        BY <2>2, <3>1
      <3> QED BY <3>2, <3>3
    <2>5. SubscribedOnce'
      <3>1. ASSUME NEW i \in DOMAIN subs' PROVE at'[subs'[i]] \notin {"off", "replay", "subscribe"}
        <4>1. PICK c \in Clients : c = subs'[i] /\ InList(c)
          BY <1>1, <2>4 DEF SubscribedOnce
        <4>2. InList(c)'
          BY <1>2, <4>1
        <4> QED BY <4>1, <4>2 DEF InList
      <3>2. ASSUME NEW i \in DOMAIN subs', NEW h \in DOMAIN subs', subs'[i] = subs'[h] PROVE i = h
        <4>1. (IF i < j THEN i ELSE i + 1) = (IF h < j THEN h ELSE h + 1)
          BY <2>4, <3>2 DEF SubscribedOnce
        <4>2. i \in Nat /\ h \in Nat /\ j \in Nat
          BY <1>1, <2>2, <2>3
        <4> QED BY <4>1, <4>2
      <3> QED BY <3>1, <3>2 DEF SubscribedOnce, InList
    <2>6. ToldOnce'
      BY <1>0, <1>2, <1>3, StreamsAreClients DEF ToldOnce, Once
    <2>7. OfferedOnce'
      <3> SUFFICES ASSUME NEW i \in DOMAIN subs', NEW c \in Streams, subs'[i] = c,
                          NEW n \in Seqs, n > joined[c]
                   PROVE  Matches(i, c, n)'
        BY <1>0 DEF OfferedOnce
      <3>1. PICK h \in DOMAIN subs : subs[h] = c /\ h = IF i < j THEN i ELSE i + 1
        BY <2>4
      <3>2. Matches(h, c, n)
        BY <3>1 DEF OfferedOnce
      <3>3. i \in Nat /\ j \in Nat /\ h \in Nat
        BY <1>1, <2>2, <2>3, <3>1
      <3>4. \A p \in Publishers : pub[p].i \in Nat
        BY <1>1 DEF Publication
      <3>5. Offered(h, n) => Offered(i, n)
        <4>1. \A p \in Publishers : h < pub[p].i => i < pub[p].i
          BY <3>1, <3>3, <3>4
        <4> QED BY <4>1 DEF Offered
      <3>6. n \notin skips' /\ Offered(i, n) => Offered(h, n)
        <4> SUFFICES ASSUME n \notin skips', Offered(i, n) PROVE Offered(h, n)
          OBVIOUS
        <4>1. \A p \in Publishers : pub[p].stage = "fan" /\ pub[p].event.seq = n => ~(j < pub[p].i)
          BY <1>6 DEF Past
        <4>2. \A p \in Publishers : pub[p].stage = "fan" /\ pub[p].event.seq = n /\ i < pub[p].i => h < pub[p].i
          BY <3>1, <3>3, <3>4, <4>1
        <4> QED BY <4>2 DEF Offered
      <3>7. n \notin skips' => n \notin skips
        BY <1>6
      <3>8. (Among(c, n)' <=> Among(c, n)) /\ (Offered(i, n)' <=> Offered(i, n))
        BY <1>3, <1>4 DEF Among
      <3> QED BY <3>2, <3>5, <3>6, <3>7, <3>8 DEF Matches
    <2> QED BY <2>5, <2>6, <2>7
  <1> QED BY <1>5, <1>6, OneOut

(* What was written or is queued has a number that was taken.               *)
LEMMA NumbersStep ==
  ASSUME TypeOK, SeqInv, SeenTaken, QueuedTaken, [Next]_vars
  PROVE  SeenTaken' /\ QueuedTaken'
  <1>T. /\ pub \in [Publishers -> Publication] /\ seq \in Nat
        /\ seen \in [Clients -> Seq(Seqs)] /\ queue \in [Clients -> Seq(Event)]
        /\ subs \in Seq(Clients) /\ log \in Seq(Event)
    BY DEF TypeOK, Publication
  <1>E. \A e \in Event : e.seq \in Nat
    BY DEF Event, Seqs
  <1>N. \A e \in Seqs : e \in Nat
    BY DEF Seqs
  <1>S. \A c \in Clients : \A k \in DOMAIN seen[c] : seen[c][k] \in Nat
    <2> SUFFICES ASSUME NEW c \in Clients, NEW k \in DOMAIN seen[c] PROVE seen[c][k] \in Nat
      OBVIOUS
    <2>1. seen[c] \in Seq(Seqs)
      BY <1>T
    <2>2. seen[c][k] \in Seqs
      BY <2>1
    <2> QED BY <1>N, <2>2
  <1>Q. \A c \in Clients : \A k \in DOMAIN queue[c] : queue[c][k] \in Event /\ queue[c][k].seq \in Nat
    <2> SUFFICES ASSUME NEW c \in Clients, NEW k \in DOMAIN queue[c]
                 PROVE  queue[c][k] \in Event /\ queue[c][k].seq \in Nat
      OBVIOUS
    <2>1. queue[c] \in Seq(Event)
      BY <1>T
    <2>2. queue[c][k] \in Event
      BY <2>1
    <2> QED BY <1>E, <2>2
  <1>K. ASSUME seen' = seen, queue' = queue, seq' \in {seq, seq + 1} PROVE SeenTaken' /\ QueuedTaken'
    <2>1. \A n \in Nat : n <= seq => n <= seq'
      BY <1>T, <1>K
    <2> QED BY <1>K, <1>S, <1>Q, <2>1 DEF SeenTaken, QueuedTaken
  <1>1. ASSUME NEW p \in Publishers, FanOut(p) PROVE SeenTaken' /\ QueuedTaken'
    <2>1. seen' = seen /\ seq' = seq /\ pub[p].stage = "fan"
      BY <1>1 DEF FanOut
    <2>2. pub[p].event \in Event /\ pub[p].event.seq <= seq /\ pub[p].i \in Nat \ {0}
      BY <1>T, <2>1 DEF Publication, SeqInv, Taken
    <2>3. CASE ~(pub[p].i <= Len(subs))
      BY <1>1, <1>K, <2>1, <2>3 DEF FanOut
    <2>4. CASE pub[p].i <= Len(subs)
      <3>1. PICK d \in Clients : d = subs[pub[p].i]
        BY <1>T, <2>2, <2>4
      <3>2. queue' = [queue EXCEPT ![d] = Append(@, pub[p].event)]
        BY <1>1, <2>4, <3>1 DEF FanOut
      <3>3. ASSUME NEW c \in Clients, NEW k \in DOMAIN queue'[c] PROVE queue'[c][k].seq <= seq
        <4>1. CASE c = d
          <5>1. queue[c] \in Seq(Event) /\ queue'[c] = Append(queue[c], pub[p].event)
            BY <1>T, <3>2, <4>1
          <5>2. (k \in DOMAIN queue[c] /\ queue'[c][k] = queue[c][k]) \/ queue'[c][k] = pub[p].event
            BY <2>2, <3>3, <5>1
          <5> QED BY <2>2, <5>2 DEF QueuedTaken
        <4>2. CASE c # d
          BY <1>T, <3>2, <3>3, <4>2 DEF QueuedTaken
        <4> QED BY <4>1, <4>2
      <3> QED BY <2>1, <3>3 DEF SeenTaken, QueuedTaken
    <2> QED BY <2>3, <2>4
  <1>2. ASSUME NEW c \in Clients, Replay(c) PROVE SeenTaken' /\ QueuedTaken'
    <2>0. PICK since \in 0 .. seq :
            LET picked == Pick(log, {e \in ToSet(log) : e.seq > since})
            IN  seen' = [seen EXCEPT ![c] = @ \o [i \in DOMAIN picked |-> picked[i].seq]]
      BY <1>2 DEF Replay
    <2> DEFINE missed == Pick(log, {e \in ToSet(log) : e.seq > since})
               sent == [i \in DOMAIN missed |-> missed[i].seq]
    <2>1. missed \in Seq(Event) /\ ToSet(missed) \subseteq ToSet(log)
      BY <1>T, ElementsOfPick
    <2>2. seen' = [seen EXCEPT ![c] = @ \o sent] /\ UNCHANGED <<seq, queue>>
      BY <1>2, <2>0 DEF Replay
    <2> HIDE DEF missed
    <2>3. \A i \in DOMAIN missed : missed[i].seq <= seq /\ missed[i].seq \in Nat
      <3> SUFFICES ASSUME NEW i \in DOMAIN missed PROVE missed[i].seq <= seq /\ missed[i].seq \in Nat
        OBVIOUS
      <3>1. missed[i] \in ToSet(missed)
        BY DEF ToSet
      <3>2. PICK h \in DOMAIN log : missed[i] = log[h]
        BY <2>1, <3>1 DEF ToSet
      <3>3. missed[i] \in Event
        BY <2>1
      <3> QED BY <1>E, <3>2, <3>3 DEF SeqInv, Taken
    <2>4. sent \in Seq(Nat) /\ \A k \in DOMAIN sent : sent[k] <= seq
      <3>1. Len(missed) \in Nat /\ DOMAIN missed = 1 .. Len(missed)
        BY <2>1
      <3>2. sent \in [1 .. Len(missed) -> Nat] /\ \A k \in DOMAIN sent : sent[k] <= seq
        BY <2>3, <3>1
      <3> HIDE DEF sent
      <3> QED BY <3>1, <3>2, FunctionIsSeq
    <2> HIDE DEF sent
    <2>5. PICK a \in Seq(Nat) : a = seen[c]
      <3>1. seen[c] \in Seq(Seqs)
        BY <1>T
      <3>2. seen[c] \in Seq(Nat)
        BY <1>N, <3>1
      <3> QED BY <3>2
    <2>6. \A k \in 1 .. Len(a) : a[k] <= seq
      BY <2>5 DEF SeenTaken
    <2>7. /\ a \o sent \in Seq(Nat) /\ Len(a \o sent) = Len(a) + Len(sent)
          /\ \A i \in 1 .. Len(a) + Len(sent) : (a \o sent)[i] = IF i <= Len(a) THEN a[i] ELSE sent[i - Len(a)]
      BY <2>4, Joined
    <2>8. ASSUME NEW k \in DOMAIN (a \o sent) PROVE (a \o sent)[k] <= seq
      <3>1. k \in 1 .. Len(a) + Len(sent) /\ Len(a) \in Nat /\ Len(sent) \in Nat
        BY <2>4, <2>7
      <3>2. CASE k <= Len(a)
        BY <2>6, <2>7, <3>1, <3>2
      <3>3. CASE ~(k <= Len(a))
        <4>1. k - Len(a) \in DOMAIN sent
          BY <2>4, <3>1, <3>3
        <4> QED BY <2>4, <2>7, <3>1, <3>3, <4>1
      <3> QED BY <3>2, <3>3
    <2>9. ASSUME NEW d \in Clients, NEW k \in DOMAIN seen'[d] PROVE seen'[d][k] <= seq
      <3>1. CASE d = c
        <4>1. seen'[d] = a \o sent
          BY <1>T, <2>2, <2>5, <3>1
        <4> QED BY <2>8, <2>9, <4>1
      <3>2. CASE d # c
        BY <1>T, <2>2, <2>9, <3>2 DEF SeenTaken
      <3> QED BY <3>1, <3>2
    <2> QED BY <2>2, <2>9 DEF SeenTaken, QueuedTaken
  <1>3. ASSUME NEW c \in Clients, Subscribe(c) PROVE SeenTaken' /\ QueuedTaken'
    <2>1. queue' = [queue EXCEPT ![c] = <<>>] /\ UNCHANGED <<seq, seen>>
      BY <1>3 DEF Subscribe
    <2>2. \A d \in Clients : queue'[d] = queue[d] \/ DOMAIN queue'[d] = {}
      BY <1>T, <2>1
    <2> QED BY <2>1, <2>2 DEF SeenTaken, QueuedTaken
  <1>4. ASSUME NEW c \in Clients, TakeOne(c) PROVE SeenTaken' /\ QueuedTaken'
    <2>1. PICK q \in Seq(Event) : q = queue[c] /\ q # <<>>
      BY <1>4, <1>T DEF TakeOne
    <2>2. /\ queue' = [queue EXCEPT ![c] = Tail(q)] /\ seq' = seq
          /\ seen' = seen \/ seen' = [seen EXCEPT ![c] = Append(@, Head(q).seq)]
      BY <1>4, <2>1 DEF TakeOne
    <2>3. Head(q).seq <= seq /\ Head(q).seq \in Nat
      <3>1. 1 \in DOMAIN q /\ Head(q) = q[1]
        BY <2>1
      <3> QED BY <1>Q, <2>1, <3>1 DEF QueuedTaken
    <2>4. ASSUME NEW d \in Clients, NEW k \in DOMAIN queue'[d] PROVE queue'[d][k].seq <= seq
      <3>1. CASE d = c
        <4>1. queue'[d] = Tail(q)
          BY <1>T, <2>2, <3>1
        <4>2. k + 1 \in DOMAIN q /\ Tail(q)[k] = q[k + 1]
          BY <2>1, <2>4, <4>1
        <4> QED BY <2>1, <3>1, <4>1, <4>2 DEF QueuedTaken
      <3>2. CASE d # c
        BY <1>T, <2>2, <2>4, <3>2 DEF QueuedTaken
      <3> QED BY <3>1, <3>2
    <2>5. ASSUME NEW d \in Clients, NEW k \in DOMAIN seen'[d] PROVE seen'[d][k] <= seq
      <3>1. CASE seen'[d] = seen[d]
        BY <2>5, <3>1 DEF SeenTaken
      <3>2. CASE seen'[d] # seen[d]
        <4>1. d = c /\ seen'[d] = Append(seen[d], Head(q).seq)
          BY <1>T, <2>2, <3>2
        <4>2. seen[d] \in Seq(Seqs)
          BY <1>T
        <4>3. (k \in DOMAIN seen[d] /\ seen'[d][k] = seen[d][k]) \/ seen'[d][k] = Head(q).seq
          BY <2>5, <4>1, <4>2
        <4> QED BY <2>3, <4>3 DEF SeenTaken
      <3> QED BY <3>1, <3>2
    <2> QED BY <2>2, <2>4, <2>5 DEF SeenTaken, QueuedTaken
  <1>5. ASSUME NEW p \in Publishers, TakeSeq(p) \/ AppendLog(p) \/ Notify(p)
        PROVE  SeenTaken' /\ QueuedTaken'
    BY <1>5, <1>K DEF TakeSeq, AppendLog, Notify
  <1>6. ASSUME NEW c \in Clients,
               OpenStream(c) \/ OpenTask(c) \/ FindEmpty(c) \/ EnterWait(c) \/ TimeOut(c)
               \/ Clear(c) \/ GoAway(c) \/ Unsubscribe(c)
        PROVE  SeenTaken' /\ QueuedTaken'
    BY <1>6, <1>K DEF OpenStream, OpenTask, FindEmpty, EnterWait, TimeOut, Clear, GoAway, Unsubscribe
  <1>7. CASE UNCHANGED vars
    BY <1>7, <1>K DEF vars
  <1> QED
    BY <1>1, <1>2, <1>3, <1>4, <1>5, <1>6, <1>7 DEF Next, Publish, Serve

LEMMA FanStep == TypeOK /\ SeqInv /\ FanInv /\ [Next]_vars => FanInv'
  <1> SUFFICES ASSUME TypeOK, SeqInv, FanInv, [Next]_vars PROVE FanInv'
    OBVIOUS
  <1>T. pub \in [Publishers -> Publication] /\ at \in [Clients -> Places] /\ leaves \in Nat
        /\ seq \in 0 .. MaxEvents /\ seen \in [Clients -> Seq(Seqs)] /\ queue \in [Clients -> Seq(Event)]
    BY DEF TypeOK, Publication
  <1>S. /\ StartsAtFirst /\ SubscribedOnce /\ SeenTaken /\ ToldOnce /\ OfferedOnce
        /\ subs \in Seq(Clients)
    BY DEF FanInv, TypeOK
  <1>N. SeenTaken' /\ QueuedTaken'
    BY NumbersStep DEF FanInv
  <1>Q. ASSUME StartsAtFirst', SubscribedOnce' /\ ToldOnce' /\ OfferedOnce'
        PROVE  FanInv'
    BY <1>N, <1>Q DEF FanInv
  <1>K. ASSUME UNCHANGED <<subs, queue, at, seen, joined, skips>>, StartsAtFirst',
               \A i \in DOMAIN subs, n \in Seqs : Offered(i, n)' <=> Offered(i, n)
        PROVE  FanInv'
    <2>1. \A c \in Clients : Told(c)' = Told(c) /\ (InList(c)' <=> InList(c))
      BY <1>K DEF Told, InList
    <2>2. SubscribedOnce' /\ ToldOnce' /\ OfferedOnce'
      BY <1>S, <1>K, <2>1, PlacesKept, StreamsAreClients
    <2> QED
      BY <1>K, <1>Q, <2>2
  <1>1. ASSUME NEW p \in Publishers, TakeSeq(p) PROVE FanInv'
    <2>1. PICK k \in Tasks, final \in Finals :
            pub' = [pub EXCEPT ![p] = [stage |-> "log", i |-> 1,
                      event |-> [seq |-> seq + 1, task |-> k, final |-> final]]]
      BY <1>1 DEF TakeSeq
    <2>2. /\ pub'[p].stage = "log" /\ pub'[p].i = 1 /\ pub'[p].event.seq = seq + 1
          /\ \A r \in Publishers \ {p} : pub'[r] = pub[r]
          /\ pub[p].stage = "idle" /\ seq' = seq + 1 /\ seq \in Nat
          /\ UNCHANGED <<log, subs, queue, flag, at, seen, joined, leaves, skips>>
      BY <1>1, <1>T, <2>1 DEF TakeSeq
    <2>3. StartsAtFirst'
      BY <1>S, <2>2 DEF StartsAtFirst
    <2>4. ASSUME NEW i \in DOMAIN subs, NEW n \in Seqs PROVE Offered(i, n)' <=> Offered(i, n)
      <3>1. n \in Nat
        BY DEF Seqs
      <3>2. CASE n = seq + 1
        <4>1. ~Offered(i, n)
          BY <2>2, <3>2 DEF Offered
        <4>2. ~Offered(i, n)'
          BY <2>2, <3>2 DEF Offered
        <4> QED
          BY <4>1, <4>2
      <3>3. CASE n # seq + 1
        <4>1. n <= seq' <=> n <= seq
          BY <2>2, <3>1, <3>3
        <4> QED
          BY <2>2, <3>3, <4>1 DEF Offered
      <3> QED
        BY <3>2, <3>3
    <2> QED
      BY <1>K, <2>2, <2>3, <2>4
  <1>2. ASSUME NEW p \in Publishers, AppendLog(p) PROVE FanInv'
    <2>1. /\ pub'[p].stage = "fan" /\ pub'[p].i = pub[p].i /\ pub'[p].event = pub[p].event
          /\ \A r \in Publishers \ {p} : pub'[r] = pub[r]
          /\ pub[p].stage = "log"
          /\ UNCHANGED <<seq, subs, queue, flag, at, seen, joined, leaves, skips>>
      BY <1>2, <1>T DEF AppendLog, Publication
    <2>2. StartsAtFirst' /\ pub[p].i = 1
      BY <1>S, <2>1 DEF StartsAtFirst
    <2>3. ASSUME NEW i \in DOMAIN subs, NEW n \in Seqs PROVE Offered(i, n)' <=> Offered(i, n)
      <3>1. i \in Nat /\ ~(i < 1)
        <4>1. DOMAIN subs = 1 .. Len(subs) /\ Len(subs) \in Nat
          BY DEF TypeOK
        <4> QED
          BY <4>1
      <3> QED
        BY <2>1, <2>2, <3>1 DEF Offered
    <2> QED
      BY <1>K, <2>1, <2>2, <2>3
  <1>3. ASSUME NEW p \in Publishers, FanOut(p) PROVE FanInv'
    <2>1. \A r \in Publishers : pub'[r].stage = "log" => pub'[r] = pub[r]
      <3>1. \/ pub' = [pub EXCEPT ![p].i = pub[p].i + 1]
            \/ pub' = [pub EXCEPT ![p].stage = "notify"]
        BY <1>3 DEF FanOut
      <3>2. pub[p].stage = "fan"
        BY <1>3 DEF FanOut
      <3> QED
        BY <1>T, <3>1, <3>2 DEF Publication
    <2>2. StartsAtFirst'
      BY <1>S, <2>1 DEF StartsAtFirst
    <2> QED
      BY <1>S, <1>Q, <1>3, <2>2, FanOutStep
  <1>4. ASSUME NEW p \in Publishers, Notify(p) PROVE FanInv'
    <2>1. /\ pub'[p].stage = "idle" /\ pub[p].stage = "notify"
          /\ \A r \in Publishers \ {p} : pub'[r] = pub[r]
          /\ UNCHANGED <<seq, log, subs, queue, seen, joined, leaves, skips>>
      BY <1>4, <1>T DEF Notify, Idle
    <2>2. StartsAtFirst'
      BY <1>S, <2>1 DEF StartsAtFirst
    <2>3. \A i \in DOMAIN subs, n \in Seqs : Offered(i, n)' <=> Offered(i, n)
      BY <2>1 DEF Offered
    <2>4. \A c \in Clients : at'[c] = at[c] \/ (at[c] = "blocked" /\ at'[c] = "clear")
      BY <1>4, <1>T DEF Notify
    <2>5. \A c \in Clients : (InList(c)' <=> InList(c)) /\ Told(c)' = Told(c)
      BY <2>1, <2>4 DEF InList, Told
    <2>6. SubscribedOnce' /\ ToldOnce' /\ OfferedOnce'
      BY <1>S, <2>1, <2>3, <2>5, PlacesKept, StreamsAreClients
    <2> QED
      BY <1>Q, <2>1, <2>2, <2>6
  <1>5. ASSUME NEW c \in Clients,
               OpenStream(c) \/ OpenTask(c) \/ FindEmpty(c) \/ EnterWait(c) \/ TimeOut(c)
               \/ Clear(c) \/ GoAway(c)
        PROVE  FanInv'
    <2>1. UNCHANGED <<seq, log, subs, queue, pub, seen, joined, skips>>
      BY <1>5 DEF OpenStream, OpenTask, FindEmpty, EnterWait, TimeOut, Clear, GoAway
    <2>2. \/ at[c] = "off" /\ \E p \in {"subscribe", "replay"} : at' = [at EXCEPT ![c] = p]
          \/ at[c] \in {"loop", "enter", "blocked", "clear"}
             /\ \E p \in {"loop", "enter", "blocked", "clear", "leave"} : at' = [at EXCEPT ![c] = p]
      BY <1>5 DEF OpenStream, OpenTask, FindEmpty, EnterWait, TimeOut, Clear, GoAway, Move
    <2>3. StartsAtFirst'
      BY <1>S, <2>1 DEF StartsAtFirst
    <2>4. \A i \in DOMAIN subs, n \in Seqs : Offered(i, n)' <=> Offered(i, n)
      BY <2>1 DEF Offered
    <2>5. \A d \in Clients : (InList(d)' <=> InList(d)) /\ Told(d)' = Told(d)
      <3>1. \A d \in Clients : InList(d)' <=> InList(d)
        BY <1>T, <2>2 DEF InList
      <3> QED BY <2>1, <3>1 DEF Told
    <2>6. SubscribedOnce' /\ ToldOnce' /\ OfferedOnce'
      BY <1>S, <2>1, <2>4, <2>5, PlacesKept, StreamsAreClients
    <2> QED
      BY <1>Q, <2>3, <2>6
  <1>6. ASSUME NEW c \in Clients, Replay(c) PROVE FanInv'
    <2>1. at[c] = "replay" /\ at' = [at EXCEPT ![c] = "subscribe"]
          /\ UNCHANGED <<seq, log, subs, queue, pub, joined, skips>>
          /\ \A d \in Clients : d # c => seen'[d] = seen[d]
      BY <1>6, <1>T DEF Replay, Move
    <2>2. StartsAtFirst'
      BY <1>S, <2>1 DEF StartsAtFirst
    <2>3. \A i \in DOMAIN subs, n \in Seqs : Offered(i, n)' <=> Offered(i, n)
      BY <2>1 DEF Offered
    <2>4. \A d \in Clients : (InList(d)' <=> InList(d)) /\ (InList(d) => d # c)
      BY <1>T, <2>1 DEF InList
    <2>5. \A d \in Clients : InList(d) => Told(d)' = Told(d)
      BY <2>1, <2>4 DEF Told
    <2>6. SubscribedOnce' /\ ToldOnce' /\ OfferedOnce'
      BY <1>S, <2>1, <2>3, <2>4, <2>5, PlacesKept, StreamsAreClients
    <2> QED
      BY <1>Q, <2>2, <2>6
  <1>7. ASSUME NEW c \in Clients, Subscribe(c) PROVE FanInv'
    <2>1. StartsAtFirst'
      BY <1>S, <1>7 DEF Subscribe, StartsAtFirst
    <2> QED
      BY <1>S, <1>Q, <1>7, <2>1, SubscribeStep
  <1>8. ASSUME NEW c \in Clients, TakeOne(c) PROVE FanInv'
    <2>1. /\ UNCHANGED <<seq, log, subs, flag, pub, joined, skips>> /\ at[c] = "loop"
          /\ queue' = [queue EXCEPT ![c] = Tail(@)]
          /\ \E p \in {"leave", "loop"} : at' = [at EXCEPT ![c] = p]
          /\ \A d \in Clients : d # c => seen'[d] = seen[d]
      BY <1>8, <1>T DEF TakeOne, Move
    <2>2. StartsAtFirst'
      BY <1>S, <2>1 DEF StartsAtFirst
    <2>3. \A i \in DOMAIN subs, n \in Seqs : Offered(i, n)' <=> Offered(i, n)
      BY <2>1 DEF Offered
    <2>4. at'[c] \in {"leave", "loop"} /\ \A d \in Clients : d # c => at'[d] = at[d]
      BY <1>T, <2>1
    <2>5. \A d \in Clients : InList(d)' <=> InList(d)
      BY <2>1, <2>4 DEF InList
    <2>6. ASSUME NEW d \in Streams PROVE Told(d)' = Told(d)
      <3>1. CASE d = c
        BY <1>8, <3>1, TakeOneKeeps
      <3>2. CASE d # c
        BY <1>T, <2>1, <3>2, StreamsAreClients DEF Told
      <3> QED
        BY <3>1, <3>2
    <2>7. SubscribedOnce' /\ ToldOnce' /\ OfferedOnce'
      BY <1>S, <2>1, <2>3, <2>5, <2>6, PlacesKept
    <2> QED
      BY <1>Q, <2>2, <2>7
  <1>9. ASSUME NEW c \in Clients, Unsubscribe(c) PROVE FanInv'
    <2>1. StartsAtFirst'
      BY <1>S, <1>9 DEF Unsubscribe, StartsAtFirst
    <2> QED
      BY <1>S, <1>Q, <1>9, <2>1, UnsubscribeStep
  <1>10. CASE UNCHANGED vars
    <2>1. UNCHANGED <<seq, subs, queue, pub, at, seen, joined, leaves, skips>>
      BY <1>10 DEF vars
    <2> QED
      BY <1>S, <1>K, <2>1 DEF StartsAtFirst, Offered
  <1> QED
    BY <1>1, <1>2, <1>3, <1>4, <1>5, <1>6, <1>7, <1>8, <1>9, <1>10 DEF Next, Publish, Serve

(* _broadcast_sse_event goes through the list of subscribers by position    *)
(* without a lock, any number of threads do so at once, and handlers that   *)
(* end take out the first queue equal to their own.  A connected stream is  *)
(* offered no event twice that was published after it subscribed, and each  *)
(* of them unless its queue was taken out, or a queue was taken out behind  *)
(* the loop while the event was on its way.                                 *)
THEOREM StreamsAreComplete == Spec => []StreamIsComplete
  <1>1. Init => FanInv
    <2> SUFFICES ASSUME Init PROVE FanInv
      OBVIOUS
    <2>1. StartsAtFirst
      BY DEF Init, StartsAtFirst, Idle
    <2>2. /\ DOMAIN subs = {}
          /\ \A c \in Clients : at[c] = "off" /\ DOMAIN seen[c] = {} /\ DOMAIN queue[c] = {}
      BY DEF Init
    <2> QED
      BY <2>1, <2>2, StreamsAreClients DEF FanInv, SubscribedOnce, SeenTaken, QueuedTaken,
           ToldOnce, OfferedOnce, InList
  <1>2. Init => TypeOK
    BY InitTypes
  <1> QED
    BY <1>1, <1>2, InitNumbers, SeqStep, StreamTypeStep, FanStep, CompleteFromInv, PTL DEF Spec

-----------------------------------------------------------------------------
(* Evidence, for any submitters and watchers.                               *)
Entry == [id : Nat, seq : Nat]
Submission == [pc : {"idle", "store", "list", "put"}, id : Nat, seq : Nat, todo : SUBSET Followers]
Following == [pc : {"none", "replay", "live", "gone"}, todo : {<<>>}, queue : Seq(Nat), got : Seq(Nat),
              from : Nat, dropped : SUBSET Nat]

EvShape ==
  /\ begun \in Nat
  /\ entries \in Seq(Entry)
  /\ sb \in [Submitters -> Submission]
  /\ evSubs \subseteq Followers
  /\ w \in [Followers -> Following]

Busy(s) == sb[s].pc # "idle"

(* Of two submissions under way each knows that it overlapped another, and  *)
(* one that overlapped none has read the length there is.                   *)
Overlaps == \A s, t \in Submitters : s # t /\ Busy(s) /\ Busy(t) => sb[s].id \in met
ReadsLength == \A s \in Submitters : sb[s].pc = "store" /\ sb[s].id \notin met => sb[s].seq = Len(entries)
InPlace == \A i \in DOMAIN entries : entries[i].id \notin met => entries[i].seq = i - 1

(* An entry stored after a watcher registered is written to it, in its      *)
(* queue, lost to a full queue or still to be put by its submitter.         *)
Brings(s, x, id) == sb[s].id = id /\ (sb[s].pc = "list" \/ (sb[s].pc = "put" /\ x \in sb[s].todo))
Served(x) == ToSet(w[x].got) \cup ToSet(w[x].queue) \cup w[x].dropped
Reaches(x, id) == id \in Served(x) \/ \E s \in Submitters : Brings(s, x, id)
NoneLost ==
  \A x \in Followers : w[x].pc = "live" =>
    /\ x \in evSubs
    /\ \A i \in DOMAIN entries : i > w[x].from => Reaches(x, entries[i].id)

EvInv == EvShape /\ Overlaps /\ ReadsLength /\ InPlace /\ NoneLost

LEMMA EvInit == Ev!Init => EvInv
<1> SUFFICES ASSUME Ev!Init PROVE EvInv
  OBVIOUS
<1> USE DEF Ev!Init
<1>1. Ev!IdleSub \in Submission /\ Ev!NoWatch \in Following /\ Ev!IdleSub.pc = "idle" /\ Ev!NoWatch.pc = "none"
  BY DEF Ev!IdleSub, Ev!NoWatch, Submission, Following
<1>2. EvShape
  BY <1>1 DEF EvShape
<1>3. \A s \in Submitters : sb[s].pc = "idle"
  BY <1>1
<1>4. \A x \in Followers : w[x].pc = "none"
  BY <1>1
<1> QED BY <1>2, <1>3, <1>4 DEF EvInv, Overlaps, ReadsLength, InPlace, NoneLost, Busy

LEMMA EntryFields ==
  ASSUME EvShape
  PROVE  /\ DOMAIN entries = 1 .. Len(entries) /\ Len(entries) \in Nat
         /\ \A i \in DOMAIN entries : entries[i] \in Entry /\ entries[i].id \in Nat
<1>1. entries \in Seq(Entry)
  BY DEF EvShape
<1>2. DOMAIN entries = 1 .. Len(entries) /\ Len(entries) \in Nat
  BY <1>1
<1>3. \A i \in DOMAIN entries : entries[i] \in Entry
  BY <1>1
<1> QED BY <1>2, <1>3 DEF Entry

LEMMA EvBegin ==
  ASSUME EvInv, NEW s \in Submitters, Ev!Begin(s)
  PROVE  EvInv'
<1> DEFINE new == [Ev!IdleSub EXCEPT !.pc = "store", !.id = begun + 1, !.seq = Len(entries)]
           others == {sb[t].id : t \in {u \in Submitters : sb[u].pc # "idle"}}
<1>0. EvShape /\ Overlaps /\ ReadsLength /\ InPlace /\ NoneLost
  BY DEF EvInv
<1>1. /\ sb[s].pc = "idle" /\ begun' = begun + 1 /\ sb' = [sb EXCEPT ![s] = new]
      /\ UNCHANGED <<entries, evSubs, w>>
  BY DEF Ev!Begin
<1>2. met' = IF others = {} THEN met ELSE met \cup others \cup {begun + 1}
  BY DEF Ev!Begin
<1>3. new \in Submission /\ new.pc = "store" /\ new.id = begun + 1 /\ new.seq = Len(entries)
  <2>1. Ev!IdleSub \in Submission
    BY DEF Ev!IdleSub, Submission
  <2>2. begun + 1 \in Nat /\ Len(entries) \in Nat
    BY <1>0 DEF EvShape
  <2> QED BY <2>1, <2>2 DEF Submission
<1> HIDE DEF new
<1>4. EvShape'
  BY <1>0, <1>1, <1>3 DEF EvShape
<1>5. sb'[s] = new /\ \A t \in Submitters \ {s} : sb'[t] = sb[t]
  BY <1>0, <1>1 DEF EvShape
<1>6. met \subseteq met'
  BY <1>2
<1>7. \A t \in Submitters \ {s} : Busy(t) => sb[t].id \in met' /\ begun + 1 \in met'
  <2> TAKE t \in Submitters \ {s}
  <2> HAVE Busy(t)
  <2>1. sb[t].id \in others
    BY DEF Busy
  <2> QED BY <2>1, <1>2
<1>8. Overlaps'
  BY <1>0, <1>3, <1>5, <1>6, <1>7 DEF Overlaps, Busy
<1>9. ReadsLength'
  BY <1>0, <1>1, <1>3, <1>5, <1>6 DEF ReadsLength
<1>10. InPlace'
  BY <1>0, <1>1, <1>6 DEF InPlace
<1>11. NoneLost'
  <2>1. \A t \in Submitters, x \in Followers, id \in Nat : Brings(t, x, id) => Brings(t, x, id)'
    BY <1>0, <1>1, <1>5 DEF Brings
  <2>2. \A i \in DOMAIN entries : entries[i].id \in Nat
    BY <1>0, EntryFields
  <2> QED BY <2>1, <2>2, <1>0, <1>1 DEF NoneLost, Reaches, Served
<1> QED BY <1>4, <1>8, <1>9, <1>10, <1>11 DEF EvInv

LEMMA EvStore ==
  ASSUME EvInv, NEW s \in Submitters, Ev!Store(s)
  PROVE  EvInv'
<1> DEFINE new == [sb[s] EXCEPT !.pc = "list"]
<1>0. EvShape /\ Overlaps /\ ReadsLength /\ InPlace /\ NoneLost
  BY DEF EvInv
<1>2. sb[s] \in Submission
  BY <1>0 DEF EvShape
<1>e. PICK e \in Entry : e = [id |-> sb[s].id, seq |-> sb[s].seq]
  BY <1>2 DEF Entry, Submission
<1>1. /\ sb[s].pc = "store" /\ entries' = Append(entries, e) /\ sb' = [sb EXCEPT ![s] = new]
      /\ UNCHANGED <<evSubs, w, begun, met>>
  BY <1>e DEF Ev!Store
<1>3. /\ e \in Entry /\ e.id = sb[s].id /\ e.seq = sb[s].seq
      /\ new \in Submission /\ new.pc = "list" /\ new.id = sb[s].id
  BY <1>2, <1>e DEF Submission
<1> HIDE DEF new
<1>4. EvShape'
  BY <1>0, <1>1, <1>3 DEF EvShape
<1>5. sb'[s] = new /\ \A t \in Submitters \ {s} : sb'[t] = sb[t]
  BY <1>0, <1>1 DEF EvShape
<1>6. /\ DOMAIN entries = 1 .. Len(entries) /\ Len(entries) \in Nat
      /\ DOMAIN entries' = 1 .. Len(entries) + 1 /\ entries'[Len(entries) + 1] = e
      /\ \A i \in DOMAIN entries : entries'[i] = entries[i]
  BY <1>0, <1>1, <1>3 DEF EvShape
<1>7. Overlaps'
  BY <1>0, <1>1, <1>3, <1>5 DEF Overlaps, Busy
<1>8. \A t \in Submitters \ {s} : sb[t].pc = "store" => sb[t].id \in met
  BY <1>0, <1>1 DEF Overlaps, Busy
<1>9. ReadsLength'
  BY <1>1, <1>3, <1>5, <1>8 DEF ReadsLength
<1>10. InPlace'
  BY <1>0, <1>1, <1>3, <1>6 DEF InPlace, ReadsLength
<1>11. NoneLost'
  <2>1. \A t \in Submitters, x \in Followers, id \in Nat : Brings(t, x, id) => Brings(t, x, id)'
    BY <1>1, <1>3, <1>5 DEF Brings
  <2>2. \A i \in DOMAIN entries : entries[i].id \in Nat
    BY <1>0, EntryFields
  <2>3. \A x \in Followers : Brings(s, x, e.id)'
    BY <1>3, <1>5 DEF Brings
  <2> SUFFICES ASSUME NEW x \in Followers, w[x].pc = "live"
               PROVE  /\ x \in evSubs
                      /\ (\A i \in DOMAIN entries : i > w[x].from => Reaches(x, entries[i].id))'
    BY <1>1 DEF NoneLost
  <2>4. x \in evSubs /\ \A i \in DOMAIN entries : i > w[x].from => Reaches(x, entries[i].id)
    BY <1>0 DEF NoneLost
  <2>5. ASSUME NEW i \in DOMAIN entries', i > w[x].from PROVE Reaches(x, entries[i].id)'
    <3>1. CASE i \in DOMAIN entries
      BY <3>1, <2>1, <2>2, <2>4, <2>5, <1>1, <1>6 DEF Reaches, Served
    <3>2. CASE i = Len(entries) + 1
      BY <3>2, <2>3, <1>6 DEF Reaches
    <3> QED BY <3>1, <3>2, <1>6
  <2> QED BY <2>4, <2>5, <1>1
<1> QED BY <1>4, <1>7, <1>9, <1>10, <1>11 DEF EvInv

LEMMA EvListSubs ==
  ASSUME EvInv, NEW s \in Submitters, Ev!ListSubs(s)
  PROVE  EvInv'
<1> DEFINE new == [sb[s] EXCEPT !.pc = "put", !.todo = evSubs]
<1>0. EvShape /\ Overlaps /\ ReadsLength /\ InPlace /\ NoneLost
  BY DEF EvInv
<1>1. /\ sb[s].pc = "list" /\ sb' = [sb EXCEPT ![s] = new]
      /\ UNCHANGED <<entries, evSubs, w, begun, met>>
  BY <1>0 DEF Ev!ListSubs, EvShape
<1>2. sb[s] \in Submission /\ evSubs \subseteq Followers
  BY <1>0 DEF EvShape
<1>3. new \in Submission /\ new.pc = "put" /\ new.id = sb[s].id /\ new.todo = evSubs
  BY <1>2 DEF Submission
<1> HIDE DEF new
<1>4. EvShape'
  BY <1>0, <1>1, <1>3 DEF EvShape
<1>5. sb'[s] = new /\ \A t \in Submitters \ {s} : sb'[t] = sb[t]
  BY <1>0, <1>1 DEF EvShape
<1>6. Overlaps' /\ ReadsLength'
  BY <1>0, <1>1, <1>3, <1>5 DEF Overlaps, ReadsLength, Busy
<1>7. InPlace'
  BY <1>0, <1>1 DEF InPlace
<1>8. NoneLost'
  <2>1. \A t \in Submitters, x \in evSubs, id \in Nat : Brings(t, x, id) => Brings(t, x, id)'
    BY <1>1, <1>3, <1>5 DEF Brings
  <2>2. \A i \in DOMAIN entries : entries[i].id \in Nat
    BY <1>0, EntryFields
  <2> QED BY <2>1, <2>2, <1>0, <1>1 DEF NoneLost, Reaches, Served
<1> QED BY <1>4, <1>6, <1>7, <1>8 DEF EvInv

LEMMA EvPut ==
  ASSUME EvInv, NEW s \in Submitters, Ev!Put(s)
  PROVE  EvInv'
<1>0. EvShape /\ Overlaps /\ ReadsLength /\ InPlace /\ NoneLost
  BY DEF EvInv
<1>1. sb[s].pc = "put" /\ UNCHANGED <<entries, evSubs, begun, met>>
  BY DEF Ev!Put
<1>2. \A i \in DOMAIN entries : entries[i].id \in Nat
  BY <1>0, EntryFields
<1>3. CASE sb[s].todo = {}
  <2>1. sb' = [sb EXCEPT ![s] = Ev!IdleSub] /\ w' = w
    BY <1>3 DEF Ev!Put
  <2>2. Ev!IdleSub \in Submission /\ Ev!IdleSub.pc = "idle"
    BY DEF Ev!IdleSub, Submission
  <2>3. sb'[s] = Ev!IdleSub /\ \A t \in Submitters \ {s} : sb'[t] = sb[t]
    BY <1>0, <2>1 DEF EvShape
  <2>4. EvShape'
    BY <1>0, <1>1, <2>1, <2>2 DEF EvShape
  <2>5. Overlaps' /\ ReadsLength'
    BY <1>0, <1>1, <2>2, <2>3 DEF Overlaps, ReadsLength, Busy
  <2>6. InPlace'
    BY <1>0, <1>1 DEF InPlace
  <2>7. NoneLost'
    <3>1. \A t \in Submitters, x \in Followers, id \in Nat : Brings(t, x, id) => Brings(t, x, id)'
      BY <1>1, <1>3, <2>3 DEF Brings
    <3> QED BY <3>1, <1>2, <1>0, <1>1, <2>1 DEF NoneLost, Reaches, Served
  <2> QED BY <2>4, <2>5, <2>6, <2>7 DEF EvInv
<1>4. CASE sb[s].todo # {}
  <2>1. PICK x \in sb[s].todo :
          /\ w' = IF Len(w[x].queue) < QueueMax THEN [w EXCEPT ![x].queue = Append(@, sb[s].id)]
                  ELSE [w EXCEPT ![x].dropped = @ \cup {sb[s].id}]
          /\ sb' = [sb EXCEPT ![s].todo = @ \ {x}]
    BY <1>4 DEF Ev!Put
  <2> DEFINE new == [sb[s] EXCEPT !.todo = @ \ {x}]
             y == IF Len(w[x].queue) < QueueMax THEN [w[x] EXCEPT !.queue = Append(@, sb[s].id)]
                  ELSE [w[x] EXCEPT !.dropped = @ \cup {sb[s].id}]
  <2>2. sb[s] \in Submission
    BY <1>0 DEF EvShape
  <2>3. x \in Followers /\ sb[s].id \in Nat
    BY <2>2 DEF Submission
  <2>4. w[x] \in Following
    BY <1>0, <2>3 DEF EvShape
  <2>5. w' = [w EXCEPT ![x] = y] /\ sb' = [sb EXCEPT ![s] = new]
    BY <2>1
  <2>6. new \in Submission /\ new.pc = "put" /\ new.id = sb[s].id /\ new.todo = sb[s].todo \ {x}
    BY <2>2, <1>1 DEF Submission
  <2>7. /\ Append(w[x].queue, sb[s].id) \in Seq(Nat)
        /\ ToSet(Append(w[x].queue, sb[s].id)) = ToSet(w[x].queue) \cup {sb[s].id}
    <3>1. w[x].queue \in Seq(Nat)
      BY <2>4 DEF Following
    <3> QED BY <3>1, <2>3, ElementsOfAppend
  <2>8. /\ y \in Following /\ y.pc = w[x].pc /\ y.from = w[x].from /\ y.got = w[x].got
        /\ ToSet(y.queue) \cup y.dropped = ToSet(w[x].queue) \cup w[x].dropped \cup {sb[s].id}
    <3>1. CASE Len(w[x].queue) < QueueMax
      BY <3>1, <2>4, <2>7 DEF Following
    <3>2. CASE ~(Len(w[x].queue) < QueueMax)
      BY <3>2, <2>4, <2>3 DEF Following
    <3> QED BY <3>1, <3>2
  <2> HIDE DEF new, y
  <2>9. EvShape'
    BY <1>0, <1>1, <2>5, <2>6, <2>8 DEF EvShape
  <2>10. sb'[s] = new /\ \A t \in Submitters \ {s} : sb'[t] = sb[t]
    BY <1>0, <2>5 DEF EvShape
  <2>11. w'[x] = y /\ \A z \in Followers \ {x} : w'[z] = w[z]
    BY <1>0, <2>3, <2>5 DEF EvShape
  <2>12. Overlaps' /\ ReadsLength'
    BY <1>0, <1>1, <2>6, <2>10 DEF Overlaps, ReadsLength, Busy
  <2>13. InPlace'
    BY <1>0, <1>1 DEF InPlace
  <2>14. NoneLost'
    <3>1. \A z \in Followers : Served(z) \subseteq Served(z)'
      BY <2>8, <2>11 DEF Served
    <3>2. sb[s].id \in Served(x)'
      BY <2>8, <2>11 DEF Served
    <3>3. \A t \in Submitters, z \in Followers, id \in Nat :
            Brings(t, z, id) => Brings(t, z, id)' \/ (z = x /\ id = sb[s].id)
      BY <1>1, <2>6, <2>10 DEF Brings
    <3>4. \A z \in Followers, id \in Nat : Reaches(z, id) => Reaches(z, id)'
      BY <3>1, <3>2, <3>3 DEF Reaches
    <3>5. \A z \in Followers : w'[z].pc = w[z].pc /\ w'[z].from = w[z].from
      BY <2>8, <2>11
    <3> QED BY <3>4, <3>5, <1>0, <1>1, <1>2 DEF NoneLost
  <2> QED BY <2>9, <2>12, <2>13, <2>14 DEF EvInv
<1> QED BY <1>3, <1>4

(* What the watchers do: each changes only its own place.                   *)
LEMMA EvWatch ==
  ASSUME EvInv, NEW x \in Followers, NEW y \in Following, w' = [w EXCEPT ![x] = y],
         UNCHANGED <<entries, sb, begun, met>>, evSubs' \subseteq Followers,
         \A z \in Followers \ {x} : w[z].pc = "live" => (z \in evSubs => z \in evSubs'),
         y.pc = "live" =>
           /\ x \in evSubs'
           /\ \/ y.from = Len(entries)
              \/ /\ w[x].pc = "live" /\ y.from = w[x].from /\ y.dropped = w[x].dropped
                 /\ ToSet(y.got) \cup ToSet(y.queue) = ToSet(w[x].got) \cup ToSet(w[x].queue)
  PROVE  EvInv'
<1>0. EvShape /\ Overlaps /\ ReadsLength /\ InPlace /\ NoneLost
  BY DEF EvInv
<1>1. EvShape'
  BY <1>0 DEF EvShape
<1>2. Overlaps' /\ ReadsLength' /\ InPlace'
  BY <1>0 DEF Overlaps, ReadsLength, InPlace, Busy
<1>3. w'[x] = y /\ \A z \in Followers \ {x} : w'[z] = w[z]
  BY <1>0 DEF EvShape
<1>4. DOMAIN entries = 1 .. Len(entries) /\ Len(entries) \in Nat /\ \A i \in DOMAIN entries : entries[i].id \in Nat
  BY <1>0, EntryFields
<1>5. \A s \in Submitters, z \in Followers, id \in Nat : Brings(s, z, id) <=> Brings(s, z, id)'
  BY DEF Brings
<1>6. ASSUME NEW z \in Followers \ {x}, w'[z].pc = "live"
      PROVE  z \in evSubs' /\ \A i \in DOMAIN entries : i > w'[z].from => Reaches(z, entries[i].id)'
  BY <1>6, <1>0, <1>3, <1>4, <1>5 DEF NoneLost, Reaches, Served
<1>7. ASSUME w'[x].pc = "live"
      PROVE  x \in evSubs' /\ \A i \in DOMAIN entries : i > w'[x].from => Reaches(x, entries[i].id)'
  <2>1. CASE y.from = Len(entries)
    BY <2>1, <1>3, <1>4, <1>7
  <2>2. CASE /\ w[x].pc = "live" /\ y.from = w[x].from /\ y.dropped = w[x].dropped
             /\ ToSet(y.got) \cup ToSet(y.queue) = ToSet(w[x].got) \cup ToSet(w[x].queue)
    <3>1. Served(x)' = Served(x)
      BY <2>2, <1>3 DEF Served
    <3> QED BY <3>1, <2>2, <1>0, <1>3, <1>4, <1>5, <1>7 DEF NoneLost, Reaches
  <2> QED BY <2>1, <2>2, <1>3, <1>7
<1>8. NoneLost'
  BY <1>6, <1>7 DEF NoneLost
<1> QED BY <1>1, <1>2, <1>8 DEF EvInv

LEMMA EvIds ==
  ASSUME EvShape
  PROVE  Ev!Ids \in Seq(Nat)
<1>1. entries \in Seq(Entry) /\ Len(entries) \in Nat /\ DOMAIN entries = 1 .. Len(entries)
  BY DEF EvShape
<1>2. Ev!Ids \in [1 .. Len(entries) -> Nat]
  BY EntryFields DEF Ev!Ids
<1> QED BY <1>1, <1>2, FunctionIsSeq

LEMMA EvOpen ==
  ASSUME EvInv, NEW x \in Followers, Ev!Open(x)
  PROVE  EvInv'
<1> DEFINE y == [Ev!NoWatch EXCEPT !.pc = "replay", !.got = Ev!Ids]
<1>1. Ev!Ids \in Seq(Nat)
  BY EvIds DEF EvInv
<1>2. y \in Following /\ y.pc = "replay"
  <2>1. Ev!NoWatch \in Following
    BY DEF Ev!NoWatch, Following
  <2> QED BY <1>1, <2>1 DEF Following
<1>3. w' = [w EXCEPT ![x] = y] /\ UNCHANGED <<entries, sb, begun, met, evSubs>>
  BY DEF Ev!Open
<1>4. evSubs \subseteq Followers
  BY DEF EvInv, EvShape
<1> HIDE DEF y
<1> QED BY <1>2, <1>3, <1>4, EvWatch

LEMMA EvRegister ==
  ASSUME EvInv, NEW x \in Followers, Ev!Register(x)
  PROVE  EvInv'
<1> DEFINE y == [w[x] EXCEPT !.pc = "live", !.from = Len(entries)]
<1>1. w[x] \in Following /\ Len(entries) \in Nat /\ evSubs \subseteq Followers
  BY DEF EvInv, EvShape
<1>2. y \in Following /\ y.pc = "live" /\ y.from = Len(entries)
  BY <1>1 DEF Following
<1>3. w' = [w EXCEPT ![x] = y] /\ UNCHANGED <<entries, sb, begun, met>> /\ evSubs' = evSubs \cup {x}
  BY DEF Ev!Register
<1> HIDE DEF y
<1> QED BY <1>1, <1>2, <1>3, EvWatch

LEMMA EvWrite ==
  ASSUME EvInv, NEW x \in Followers, Ev!Write(x)
  PROVE  EvInv'
<1> DEFINE q == w[x].queue
           g == w[x].got
           y == [w[x] EXCEPT !.queue = Tail(q), !.got = Append(g, Head(q))]
<1>1. w[x] \in Following /\ evSubs \subseteq Followers
  BY DEF EvInv, EvShape
<1>2. w[x].pc = "live" /\ q # <<>> /\ w' = [w EXCEPT ![x] = y] /\ UNCHANGED <<entries, sb, begun, met, evSubs>>
  BY <1>1 DEF Ev!Write
<1>3. q \in Seq(Nat) /\ g \in Seq(Nat)
  BY <1>1 DEF Following
<1>4. Tail(q) \in Seq(Nat) /\ ToSet(q) = ToSet(Tail(q)) \cup {Head(q)}
  BY <1>2, <1>3, ElementsOfTail
<1>5. Head(q) \in Nat
  BY <1>2, <1>3, HeadTailProperties
<1>6. Append(g, Head(q)) \in Seq(Nat) /\ ToSet(Append(g, Head(q))) = ToSet(g) \cup {Head(q)}
  BY <1>3, <1>5, ElementsOfAppend
<1>7. /\ y \in Following /\ y.from = w[x].from /\ y.dropped = w[x].dropped /\ y.pc = "live"
      /\ y.queue = Tail(q) /\ y.got = Append(g, Head(q))
  BY <1>1, <1>2, <1>4, <1>6 DEF Following
<1>8. ToSet(y.got) \cup ToSet(y.queue) = ToSet(w[x].got) \cup ToSet(w[x].queue)
  BY <1>4, <1>6, <1>7
<1>9. x \in evSubs
  BY <1>2 DEF EvInv, NoneLost
<1> HIDE DEF y, q, g
<1> QED BY <1>1, <1>2, <1>7, <1>8, <1>9, EvWatch

LEMMA EvLeave ==
  ASSUME EvInv, NEW x \in Followers, Ev!Leave(x)
  PROVE  EvInv'
<1> DEFINE y == [w[x] EXCEPT !.pc = "gone"]
<1>1. w[x] \in Following /\ evSubs \subseteq Followers
  BY DEF EvInv, EvShape
<1>2. y \in Following /\ y.pc = "gone"
  BY <1>1 DEF Following
<1>3. w' = [w EXCEPT ![x] = y] /\ UNCHANGED <<entries, sb, begun, met>> /\ evSubs' = evSubs \ {x}
  BY DEF Ev!Leave
<1> HIDE DEF y
<1> QED BY <1>1, <1>2, <1>3, EvWatch

LEMMA EvStep == EvInv /\ (Ev!Next \/ UNCHANGED evVars) => EvInv'
<1> SUFFICES ASSUME EvInv, Ev!Next \/ UNCHANGED evVars PROVE EvInv'
  OBVIOUS
<1>1. CASE UNCHANGED evVars
  BY <1>1 DEF evVars, EvInv, EvShape, Overlaps, ReadsLength, InPlace, NoneLost, Reaches, Served, Brings, Busy
<1>2. CASE Ev!Next
  BY <1>2, EvBegin, EvStore, EvListSubs, EvPut, EvOpen, EvRegister, EvWrite, EvLeave DEF Ev!Next
<1> QED BY <1>1, <1>2

LEMMA EvFollows == EvInv => Ev!SeqIsPlace /\ Ev!WatcherMissesOnlyTheGap
<1> SUFFICES ASSUME EvInv PROVE Ev!SeqIsPlace /\ Ev!WatcherMissesOnlyTheGap
  OBVIOUS
<1>1. Ev!SeqIsPlace
  BY DEF Ev!SeqIsPlace, EvInv, InPlace
<1>2. ASSUME NEW x \in Followers, w[x].pc = "live", w[x].queue = <<>>, \A s \in Submitters : sb[s].pc = "idle",
             NEW i \in DOMAIN entries, i > w[x].from
      PROVE  entries[i].id \in Ev!Range(w[x].got) \cup w[x].dropped
  <2>1. Reaches(x, entries[i].id)
    BY <1>2 DEF EvInv, NoneLost
  <2>2. \A s \in Submitters : ~Brings(s, x, entries[i].id)
    BY <1>2 DEF Brings
  <2>3. ToSet(w[x].queue) = {}
    BY <1>2, ElementsOfEmpty
  <2>4. Ev!Range(w[x].got) = ToSet(w[x].got)
    BY DEF Ev!Range, ToSet
  <2> QED BY <2>1, <2>2, <2>3, <2>4 DEF Reaches, Served
<1>3. Ev!WatcherMissesOnlyTheGap
  BY <1>2 DEF Ev!WatcherMissesOnlyTheGap
<1> QED BY <1>1, <1>3

-----------------------------------------------------------------------------
(* Webhooks, for any publishers, URLs and calls.                            *)
Job == [ev : Nat, url : Urls, at : Nat]
HookPub == [pc : {"idle", "log", "list", "ws"}, ev : Nat, todo : {{}}, to : {Free}, half : {1}, dead : {{}}]

HookShape ==
  /\ wsSeq \in Nat /\ clients = {}
  /\ hooks \in Seq(Urls)
  /\ reg \in [Registrars -> Urls \cup {Free}]
  /\ wsPub \in [HookPublishers -> HookPub]
  /\ jobs \cup pushed \subseteq Job

(* A URL that no two calls registered at once is wanted by one of them at   *)
(* most, by none while it is in the list, and is in the list once; it is    *)
(* not there when it was deregistered.                                      *)
OneAsks ==
  \A r, q \in Registrars : reg[r] # Free /\ r # q /\ reg[r] = reg[q] => reg[r] \in raced
AskedIsNone == \A r \in Registrars : reg[r] \in Urls \ raced => reg[r] \notin ToSet(hooks)
ListedOnce == \A i, j \in DOMAIN hooks : hooks[i] = hooks[j] => i = j \/ hooks[i] \in raced
OffIsOut == off \cap ToSet(hooks) \subseteq raced
HookList == OneAsks /\ AskedIsNone /\ ListedOnce /\ OffIsOut

(* What a broadcast hands out has its own event.                            *)
Telling(p) == wsPub[p].pc # "idle"
EventsApart ==
  /\ \A p \in HookPublishers : Telling(p) => wsPub[p].ev <= wsSeq
  /\ \A p, q \in HookPublishers : Telling(p) /\ Telling(q) /\ wsPub[p].ev = wsPub[q].ev => p = q
  /\ \A j \in jobs \cup pushed : j.ev <= wsSeq /\ \A p \in HookPublishers : Telling(p) => wsPub[p].ev # j.ev
PushedOnce ==
  \A i, j \in jobs \cup pushed : i.ev = j.ev /\ i.url = j.url => i = j \/ i.url \in raced

HookInv == HookShape /\ HookList /\ EventsApart /\ PushedOnce

LEMMA HookInit == Hooks!Init => HookInv
<1> SUFFICES ASSUME Hooks!Init PROVE HookInv
  OBVIOUS
<1>1. Hooks!IdlePub \in HookPub /\ Hooks!IdlePub.pc = "idle"
  BY DEF Hooks!IdlePub, HookPub
<1>2. HookShape
  BY <1>1 DEF Hooks!Init, HookShape
<1>3. \A p \in HookPublishers : ~Telling(p)
  BY <1>1 DEF Hooks!Init, Telling
<1>4. \A r \in Registrars : reg[r] = Free
  BY DEF Hooks!Init
<1>5. HookList
  BY <1>4, FollowAssumption DEF Hooks!Init, HookList, OneAsks, AskedIsNone, ListedOnce, OffIsOut
<1>6. EventsApart /\ PushedOnce
  BY <1>3 DEF Hooks!Init, EventsApart, PushedOnce
<1> QED BY <1>2, <1>5, <1>6 DEF HookInv


LEMMA HookPublish ==
  ASSUME HookInv, NEW p \in HookPublishers, Hooks!Publish(p)
  PROVE  HookInv'
<1> DEFINE y == [Hooks!IdlePub EXCEPT !.pc = "log", !.ev = wsSeq + 1]
<1>0. HookShape /\ HookList /\ EventsApart /\ PushedOnce
  BY DEF HookInv
<1>1. /\ wsPub[p].pc = "idle" /\ wsSeq' = wsSeq + 1 /\ wsPub' = [wsPub EXCEPT ![p] = y]
      /\ UNCHANGED <<clients, hooks, reg, jobs, pushed, raced, off>>
  BY DEF Hooks!Publish, Hooks!clientVars, Hooks!hookVars
<1>2. wsSeq \in Nat /\ jobs \cup pushed \subseteq Job
  BY <1>0 DEF HookShape
<1>3. y \in HookPub /\ y.pc = "log" /\ y.ev = wsSeq + 1
  <2>1. Hooks!IdlePub \in HookPub
    BY DEF Hooks!IdlePub, HookPub
  <2>2. wsSeq + 1 \in Nat
    BY <1>2
  <2> QED BY <2>1, <2>2 DEF HookPub
<1> HIDE DEF y
<1>4. wsPub'[p] = y /\ \A q \in HookPublishers \ {p} : wsPub'[q] = wsPub[q]
  BY <1>0, <1>1 DEF HookShape
<1>5. HookShape'
  BY <1>0, <1>1, <1>3 DEF HookShape
<1>6. HookList' /\ PushedOnce'
  BY <1>0, <1>1 DEF HookList, OneAsks, AskedIsNone, ListedOnce, OffIsOut, PushedOnce
<1>7. EventsApart'
  <2>1. \A q \in HookPublishers : Telling(q) => wsPub[q].ev <= wsSeq /\ wsPub[q].ev \in Nat
    BY <1>0 DEF EventsApart, HookShape, HookPub
  <2>2. \A j \in jobs \cup pushed : j.ev <= wsSeq /\ j.ev \in Nat
    BY <1>0, <1>2 DEF EventsApart, Job
  <2>3. \A q \in HookPublishers : Telling(q)' <=> (Telling(q) \/ q = p)
    BY <1>3, <1>4 DEF Telling
  <2>4. \A q \in HookPublishers : Telling(q)' => wsPub'[q].ev <= wsSeq'
    BY <1>1, <1>2, <1>3, <1>4, <2>1, <2>3
  <2>5. \A q, r \in HookPublishers : Telling(q)' /\ Telling(r)' /\ wsPub'[q].ev = wsPub'[r].ev => q = r
    BY <1>0, <1>1, <1>2, <1>3, <1>4, <2>1, <2>3 DEF EventsApart
  <2>6. \A j \in jobs \cup pushed : j.ev <= wsSeq' /\ \A q \in HookPublishers : Telling(q)' => wsPub'[q].ev # j.ev
    BY <1>0, <1>1, <1>2, <1>3, <1>4, <2>2, <2>3 DEF EventsApart
  <2> QED BY <2>4, <2>5, <2>6, <1>1 DEF EventsApart
<1> QED BY <1>5, <1>6, <1>7 DEF HookInv

LEMMA HookAppend ==
  ASSUME HookInv, NEW p \in HookPublishers, Hooks!AppendLog(p)
  PROVE  HookInv'
<1> DEFINE y == [wsPub[p] EXCEPT !.pc = "list"]
<1>0. HookShape /\ HookList /\ EventsApart /\ PushedOnce
  BY DEF HookInv
<1>1. /\ wsPub[p].pc = "log" /\ wsPub' = [wsPub EXCEPT ![p] = y]
      /\ UNCHANGED <<wsSeq, clients, hooks, reg, jobs, pushed, raced, off>>
  BY <1>0 DEF Hooks!AppendLog, Hooks!clientVars, Hooks!hookVars, HookShape
<1>2. wsPub[p] \in HookPub /\ clients = {}
  BY <1>0 DEF HookShape
<1>3. y \in HookPub /\ y.pc = "list" /\ y.ev = wsPub[p].ev
  BY <1>2 DEF HookPub
<1> HIDE DEF y
<1>4. wsPub'[p] = y /\ \A q \in HookPublishers \ {p} : wsPub'[q] = wsPub[q]
  BY <1>0, <1>1 DEF HookShape
<1>5. HookShape'
  BY <1>0, <1>1, <1>3 DEF HookShape
<1>6. HookList' /\ PushedOnce'
  BY <1>0, <1>1 DEF HookList, OneAsks, AskedIsNone, ListedOnce, OffIsOut, PushedOnce
<1>7. \A q \in HookPublishers : (Telling(q)' <=> Telling(q)) /\ wsPub'[q].ev = wsPub[q].ev
  BY <1>1, <1>3, <1>4 DEF Telling
<1>8. EventsApart'
  BY <1>0, <1>1, <1>7 DEF EventsApart
<1> QED BY <1>5, <1>6, <1>8 DEF HookInv

LEMMA HookListed ==
  ASSUME HookInv, NEW p \in HookPublishers, Hooks!List(p)
  PROVE  HookInv'
<1> DEFINE y == [wsPub[p] EXCEPT !.pc = "ws", !.todo = clients]
<1>0. HookShape /\ HookList /\ EventsApart /\ PushedOnce
  BY DEF HookInv
<1>1. /\ wsPub[p].pc = "list" /\ wsPub' = [wsPub EXCEPT ![p] = y]
      /\ UNCHANGED <<wsSeq, clients, hooks, reg, jobs, pushed, raced, off>>
  BY <1>0 DEF Hooks!List, Hooks!clientVars, Hooks!hookVars, HookShape
<1>2. wsPub[p] \in HookPub /\ clients = {}
  BY <1>0 DEF HookShape
<1>3. y \in HookPub /\ y.pc = "ws" /\ y.ev = wsPub[p].ev
  BY <1>2 DEF HookPub
<1> HIDE DEF y
<1>4. wsPub'[p] = y /\ \A q \in HookPublishers \ {p} : wsPub'[q] = wsPub[q]
  BY <1>0, <1>1 DEF HookShape
<1>5. HookShape'
  BY <1>0, <1>1, <1>3 DEF HookShape
<1>6. HookList' /\ PushedOnce'
  BY <1>0, <1>1 DEF HookList, OneAsks, AskedIsNone, ListedOnce, OffIsOut, PushedOnce
<1>7. \A q \in HookPublishers : (Telling(q)' <=> Telling(q)) /\ wsPub'[q].ev = wsPub[q].ev
  BY <1>1, <1>3, <1>4 DEF Telling
<1>8. EventsApart'
  BY <1>0, <1>1, <1>7 DEF EventsApart
<1> QED BY <1>5, <1>6, <1>8 DEF HookInv

LEMMA HookEnd ==
  ASSUME HookInv, NEW p \in HookPublishers, Hooks!EndWs(p)
  PROVE  HookInv'
<1> DEFINE new == {[ev |-> wsPub[p].ev, url |-> hooks[i], at |-> i] : i \in DOMAIN hooks}
<1>0. HookShape /\ HookList /\ EventsApart /\ PushedOnce
  BY DEF HookInv
<1>1. /\ wsPub[p].pc = "ws" /\ wsPub' = [wsPub EXCEPT ![p] = Hooks!IdlePub] /\ jobs' = jobs \cup new
      /\ clients' = clients \ wsPub[p].dead
      /\ UNCHANGED <<wsSeq, hooks, reg, pushed, raced, off>>
  BY DEF Hooks!EndWs
<1>2. /\ wsPub[p] \in HookPub /\ clients = {} /\ hooks \in Seq(Urls) /\ jobs \cup pushed \subseteq Job
      /\ wsPub \in [HookPublishers -> HookPub]
  BY <1>0 DEF HookShape
<1>3. Hooks!IdlePub \in HookPub /\ Hooks!IdlePub.pc = "idle"
  BY DEF Hooks!IdlePub, HookPub
<1>4. \A j \in new : /\ j \in Job /\ j.ev = wsPub[p].ev
                     /\ j.at \in DOMAIN hooks /\ j.url = hooks[j.at] /\ j = [ev |-> j.ev, url |-> j.url, at |-> j.at]
  BY <1>2 DEF Job, HookPub
<1> HIDE DEF new
<1>5. wsPub'[p] = Hooks!IdlePub /\ \A q \in HookPublishers \ {p} : wsPub'[q] = wsPub[q]
  BY <1>1, <1>2
<1>6. HookShape'
  BY <1>0, <1>1, <1>2, <1>3, <1>4 DEF HookShape
<1>7. HookList'
  BY <1>0, <1>1 DEF HookList, OneAsks, AskedIsNone, ListedOnce, OffIsOut
<1>8. \A q \in HookPublishers : (Telling(q)' <=> Telling(q) /\ q # p) /\ (q # p => wsPub'[q].ev = wsPub[q].ev)
  BY <1>3, <1>5 DEF Telling
<1>9. Telling(p)
  BY <1>1 DEF Telling
<1>10. EventsApart'
  BY <1>0, <1>1, <1>4, <1>8, <1>9 DEF EventsApart
<1>11. ASSUME NEW i \in new, NEW j \in new, i.url = j.url PROVE i = j \/ i.url \in raced
  BY <1>0, <1>4, <1>11 DEF HookList, ListedOnce
<1>12. \A i \in new, j \in jobs \cup pushed : i.ev # j.ev
  BY <1>0, <1>4, <1>9 DEF EventsApart
<1>13. PushedOnce'
  BY <1>0, <1>1, <1>11, <1>12 DEF PushedOnce
<1> QED BY <1>6, <1>7, <1>10, <1>13 DEF HookInv

LEMMA HookDeliver ==
  ASSUME HookInv, NEW j \in jobs, Hooks!Deliver(j)
  PROVE  HookInv'
<1>1. /\ jobs' \cup pushed' \subseteq jobs \cup pushed
      /\ UNCHANGED <<wsSeq, clients, wsPub, hooks, reg, raced, off>>
  BY DEF Hooks!Deliver, Hooks!clientVars
<1>2. HookShape'
  BY <1>1 DEF HookInv, HookShape
<1>3. HookList'
  BY <1>1 DEF HookInv, HookList, OneAsks, AskedIsNone, ListedOnce, OffIsOut
<1>4. EventsApart'
  BY <1>1 DEF HookInv, EventsApart, Telling
<1>5. PushedOnce'
  BY <1>1 DEF HookInv, PushedOnce
<1> QED BY <1>2, <1>3, <1>4, <1>5 DEF HookInv

(* The calls that change the list leave broadcasts alone.                   *)
LEMMA HookCall ==
  ASSUME HookInv, UNCHANGED <<wsSeq, clients, wsPub, jobs, pushed>>, raced \subseteq raced',
         hooks' \in Seq(Urls), reg' \in [Registrars -> Urls \cup {Free}], HookList'
  PROVE  HookInv'
<1>1. HookShape'
  BY DEF HookInv, HookShape
<1>2. EventsApart' /\ PushedOnce'
  BY DEF HookInv, EventsApart, PushedOnce, Telling
<1> QED BY <1>1, <1>2 DEF HookInv

LEMMA HookLook ==
  ASSUME HookInv, NEW r \in Registrars, NEW u \in Urls, Hooks!LookHook(r, u)
  PROVE  HookInv'
<1>0. HookShape /\ HookList
  BY DEF HookInv
<1>1. /\ reg[r] = Free /\ UNCHANGED <<wsSeq, clients, wsPub, jobs, pushed, hooks, off>>
  BY DEF Hooks!LookHook, Hooks!clientVars
<1>2. hooks \in Seq(Urls) /\ reg \in [Registrars -> Urls \cup {Free}] /\ u # Free
  BY <1>0, FollowAssumption DEF HookShape
<1>3. CASE u \in Hooks!Range(hooks)
  <2>1. UNCHANGED <<reg, raced>>
    BY <1>3 DEF Hooks!LookHook
  <2>2. HookList'
    BY <1>0, <1>1, <2>1 DEF HookList, OneAsks, AskedIsNone, ListedOnce, OffIsOut
  <2> QED BY <1>1, <1>2, <2>1, <2>2, HookCall
<1>4. CASE u \notin Hooks!Range(hooks)
  <2>1. reg' = [reg EXCEPT ![r] = u] /\ raced' = IF u \in Hooks!Range(reg) THEN raced \cup {u} ELSE raced
    BY <1>4 DEF Hooks!LookHook
  <2>2. u \notin ToSet(hooks)
    BY <1>4 DEF ToSet, Hooks!Range
  <2>3. reg'[r] = u /\ (\A q \in Registrars \ {r} : reg'[q] = reg[q]) /\ reg' \in [Registrars -> Urls \cup {Free}]
    BY <1>2, <2>1
  <2>4. \A q \in Registrars \ {r} : reg[q] = u => u \in raced'
    BY <1>2, <2>1 DEF Hooks!Range
  <2>5. raced \subseteq raced'
    BY <2>1
  <2>6. OneAsks'
    BY <1>0, <2>3, <2>4, <2>5 DEF HookList, OneAsks
  <2>7. AskedIsNone'
    BY <1>0, <1>1, <2>2, <2>3, <2>5 DEF HookList, AskedIsNone
  <2>8. ListedOnce' /\ OffIsOut'
    BY <1>0, <1>1, <2>5 DEF HookList, ListedOnce, OffIsOut
  <2>9. HookList'
    BY <2>6, <2>7, <2>8 DEF HookList
  <2> QED BY <1>1, <1>2, <2>3, <2>5, <2>9, HookCall
<1> QED BY <1>3, <1>4

LEMMA HookAdd ==
  ASSUME HookInv, NEW r \in Registrars, Hooks!AddHook(r)
  PROVE  HookInv'
<1>0. HookShape /\ HookList
  BY DEF HookInv
<1> DEFINE u == reg[r]
<1>1. /\ u # Free /\ hooks' = Append(hooks, u) /\ reg' = [reg EXCEPT ![r] = Free] /\ off' = off \ {u}
      /\ UNCHANGED <<wsSeq, clients, wsPub, jobs, pushed, raced>>
  BY DEF Hooks!AddHook, Hooks!clientVars
<1>2. hooks \in Seq(Urls) /\ reg \in [Registrars -> Urls \cup {Free}] /\ u \in Urls
  BY <1>0, <1>1 DEF HookShape
<1>3. hooks' \in Seq(Urls) /\ ToSet(hooks') = ToSet(hooks) \cup {u}
  BY <1>1, <1>2, ElementsOfAppend
<1>4. reg'[r] = Free /\ (\A q \in Registrars \ {r} : reg'[q] = reg[q]) /\ reg' \in [Registrars -> Urls \cup {Free}]
  BY <1>1, <1>2
<1>5. \A q \in Registrars \ {r} : reg[q] = u => u \in raced
  BY <1>0, <1>1 DEF HookList, OneAsks
<1>6. OneAsks'
  BY <1>0, <1>1, <1>4 DEF HookList, OneAsks
<1>7. AskedIsNone'
  BY <1>0, <1>1, <1>3, <1>4, <1>5, FollowAssumption DEF HookList, AskedIsNone
<1>8. u \in raced \/ u \notin ToSet(hooks)
  BY <1>0, <1>2 DEF HookList, AskedIsNone
<1>9. ListedOnce'
  <2>1. /\ DOMAIN hooks = 1 .. Len(hooks) /\ Len(hooks) \in Nat /\ DOMAIN hooks' = 1 .. Len(hooks) + 1
        /\ hooks'[Len(hooks) + 1] = u /\ \A i \in DOMAIN hooks : hooks'[i] = hooks[i]
    BY <1>1, <1>2
  <2>2. \A i \in DOMAIN hooks : hooks[i] = u => u \in raced
    BY <1>8 DEF ToSet
  <2> HIDE DEF u
  <2>3. \A i \in DOMAIN hooks' : i \in DOMAIN hooks \/ i = Len(hooks) + 1
    BY <2>1
  <2> QED BY <1>0, <1>1, <2>1, <2>2, <2>3 DEF HookList, ListedOnce
<1>10. OffIsOut'
  BY <1>0, <1>1, <1>3 DEF HookList, OffIsOut
<1>11. HookList'
  BY <1>6, <1>7, <1>9, <1>10 DEF HookList
<1> QED BY <1>1, <1>3, <1>4, <1>11, HookCall

LEMMA FirstRemoved ==
  ASSUME NEW S, NEW s \in Seq(S), NEW e \in ToSet(s)
  PROVE  \E k \in 1 .. Len(s) : /\ s[k] = e
                                /\ Hooks!RemoveFirst(s, e) = Cut(s, k)
<1> DEFINE I == {i \in 1 .. Len(s) : s[i] = e}
<1>1. I # {} /\ I \in SUBSET Nat /\ \E i \in 1 .. Len(s) : s[i] = e
  BY DEF ToSet
<1>2. \E m \in I : \A k \in I : m <= k
  BY <1>1, Least
<1>3. Hooks!Min(I) \in I
  BY <1>2 DEF Hooks!Min
<1>4. Hooks!RemoveFirst(s, e) = Cut(s, Hooks!Min(I))
  BY <1>1 DEF Cut, Hooks!RemoveFirst, Hooks!RemoveAt, Hooks!SelectInSeq
<1> QED BY <1>3, <1>4

LEMMA HookDrop ==
  ASSUME HookInv, NEW u \in Urls, Hooks!DropHook(u)
  PROVE  HookInv'
<1>0. HookShape /\ HookList
  BY DEF HookInv
<1>1. /\ u \in Hooks!Range(hooks) /\ hooks' = Hooks!RemoveFirst(hooks, u) /\ off' = off \cup {u}
      /\ UNCHANGED <<wsSeq, clients, wsPub, jobs, pushed, raced, reg>>
  BY DEF Hooks!DropHook, Hooks!clientVars
<1>2. hooks \in Seq(Urls) /\ reg \in [Registrars -> Urls \cup {Free}] /\ u \in ToSet(hooks)
  BY <1>0, <1>1 DEF HookShape, ToSet, Hooks!Range
<1>3. PICK k \in 1 .. Len(hooks) :
        hooks[k] = u /\ hooks' = Cut(hooks, k)
  BY <1>1, <1>2, FirstRemoved
<1>4. /\ hooks' \in Seq(Urls) /\ DOMAIN hooks' = 1 .. Len(hooks) - 1
      /\ \A i \in DOMAIN hooks' : hooks'[i] = IF i < k THEN hooks[i] ELSE hooks[i + 1]
  BY <1>2, <1>3, CutAt
<1> DEFINE From(i) == IF i < k THEN i ELSE i + 1
<1>5. /\ \A i \in DOMAIN hooks' : From(i) \in DOMAIN hooks /\ From(i) # k /\ hooks'[i] = hooks[From(i)]
      /\ \A i, j \in DOMAIN hooks' : From(i) = From(j) => i = j
  <2>1. DOMAIN hooks = 1 .. Len(hooks) /\ Len(hooks) \in Nat /\ k \in Nat
    BY <1>2
  <2>2. \A i \in 1 .. Len(hooks) - 1 : From(i) \in 1 .. Len(hooks) /\ From(i) # k
    BY <2>1
  <2>3. \A i, j \in 1 .. Len(hooks) - 1 : From(i) = From(j) => i = j
    BY <2>1
  <2>4. \A i \in DOMAIN hooks' : hooks'[i] = hooks[From(i)]
    BY <1>4
  <2> HIDE DEF From
  <2> QED BY <2>1, <2>2, <2>3, <2>4, <1>4
<1>6. k \in DOMAIN hooks
  BY <1>2
<1> HIDE DEF From
<1>7. ToSet(hooks') \subseteq ToSet(hooks)
  BY <1>5 DEF ToSet
<1>8. u \in ToSet(hooks') => u \in raced
  <2> SUFFICES ASSUME NEW i \in DOMAIN hooks', hooks'[i] = u PROVE u \in raced
    BY DEF ToSet
  <2>1. hooks[From(i)] = hooks[k] /\ From(i) # k /\ From(i) \in DOMAIN hooks
    BY <1>3, <1>5
  <2> QED BY <2>1, <1>0, <1>3, <1>6 DEF HookList, ListedOnce
<1>9. OneAsks' /\ AskedIsNone'
  BY <1>0, <1>1, <1>7 DEF HookList, OneAsks, AskedIsNone
<1>10. ListedOnce'
  <2> SUFFICES ASSUME NEW i \in DOMAIN hooks', NEW j \in DOMAIN hooks', hooks'[i] = hooks'[j]
               PROVE  i = j \/ hooks'[i] \in raced
    BY <1>1 DEF ListedOnce
  <2> QED BY <1>0, <1>5 DEF HookList, ListedOnce
<1>11. OffIsOut'
  BY <1>0, <1>1, <1>7, <1>8 DEF HookList, OffIsOut
<1>12. HookList'
  BY <1>9, <1>10, <1>11 DEF HookList
<1> QED BY <1>1, <1>2, <1>4, <1>12, HookCall

LEMMA HookStep == HookInv /\ (Hooks!Next \/ UNCHANGED wsVars) => HookInv'
<1> SUFFICES ASSUME HookInv, Hooks!Next \/ UNCHANGED wsVars PROVE HookInv'
  OBVIOUS
<1>1. CASE UNCHANGED wsVars
  BY <1>1 DEF wsVars, HookInv, HookShape, HookList, OneAsks, AskedIsNone, ListedOnce, OffIsOut, EventsApart,
       PushedOnce, Telling
<1>2. ASSUME NEW p \in HookPublishers, Hooks!SendWs(p) PROVE FALSE
  <2>1. wsPub[p] \in HookPub
    BY DEF HookInv, HookShape
  <2> QED BY <2>1, <1>2 DEF Hooks!SendWs, HookPub
<1>3. CASE Hooks!Next
  BY <1>3, <1>2, HookPublish, HookAppend, HookListed, HookEnd, HookDeliver, HookLook, HookAdd, HookDrop DEF Hooks!Next
<1> QED BY <1>1, <1>3

LEMMA HooksFollow == HookInv => Hooks!OnePushPerHook
<1> SUFFICES ASSUME HookInv PROVE Hooks!OnePushPerHook
  OBVIOUS
<1>1. \A u \in off \ raced : u \notin Hooks!Range(hooks)
  BY DEF HookInv, HookList, OffIsOut, ToSet, Hooks!Range
<1> QED BY <1>1 DEF HookInv, PushedOnce, Hooks!OnePushPerHook

-----------------------------------------------------------------------------
(* WebSockets, for any connections and publishers and any size of the log.  *)
Actor == Connections \cup Publishers
Client == [pc : {"none", "replay", "send", "loop", "gone"}, since : Nat \cup {Never}, todo : Seq(Nat),
           half : {1, 2}, lost : SUBSET Nat, closed : BOOLEAN]
HalfFrame == [by : Actor, ev : Nat, half : 0 .. 2]
FramePub == [pc : {"idle", "log", "list", "ws"}, ev : Nat, todo : SUBSET Connections, to : Connections \cup {Free},
             half : {1, 2}, dead : SUBSET Connections]

FrameTypes ==
  /\ wsLog \in Seq(Nat) /\ wsSeq \in Nat
  /\ clients \subseteq Connections /\ broken \subseteq Connections
  /\ cl \in [Connections -> Client]
  /\ wire \in [Connections -> Seq(HalfFrame)]
  /\ lock \in [Connections -> Actor \cup {Free}]
  /\ wsPub \in [Publishers -> FramePub]

(* Whoever is in the middle of a frame holds the lock of the socket, and    *)
(* whoever holds it is in the middle of a frame.                            *)
HoldsOwn(c) ==
  cl[c].half = 2 => cl[c].pc = "send" /\ cl[c].todo # <<>> /\ lock[c] = c
HoldsTheirs(p) ==
  /\ wsPub[p].half = 2 => wsPub[p].pc = "ws" /\ wsPub[p].to \in wsPub[p].todo /\ lock[wsPub[p].to] = p
  /\ wsPub[p].half = 1 => wsPub[p].to = Free
LockIsHeld(c) ==
  /\ lock[c] \in Connections => lock[c] = c /\ cl[c].half = 2
  /\ lock[c] \in Publishers => wsPub[lock[c]].half = 2 /\ wsPub[lock[c]].to = c
Locks ==
  /\ \A c \in Connections : HoldsOwn(c) /\ LockIsHeld(c)
  /\ \A p \in Publishers : HoldsTheirs(p)

(* A frame that is half out is the holder's, or the socket is broken.       *)
Writes(c) == IF lock[c] = c THEN Head(cl[c].todo) ELSE wsPub[lock[c]].ev
WholeAt(c) ==
  \A i \in DOMAIN wire[c] :
    wire[c][i].half = 1 /\ i < Len(wire[c]) => wire[c][i + 1] = [wire[c][i] EXCEPT !.half = 2]
EndAt(c) ==
  \A i \in DOMAIN wire[c] :
    i = Len(wire[c]) /\ wire[c][i].half = 1 =>
      c \in broken \/ (lock[c] # Free /\ wire[c][i].by = lock[c] /\ wire[c][i].ev = Writes(c))
Wires == \A c \in Connections \ ponged : WholeAt(c) /\ EndAt(c)

(* A client that has joined is in the list until its socket fails.          *)
Fine(c) == ~cl[c].closed /\ c \notin broken
Listed(c) ==
  /\ cl[c].pc = "none" => Fine(c) /\ cl[c].half = 1
  /\ cl[c].pc \in {"replay", "send", "loop"} /\ Fine(c) => c \in clients
  /\ cl[c].pc = "replay" => cl[c].since \in Nat
Lists ==
  /\ \A c \in Connections : Listed(c)
  /\ \A p \in Publishers : \A c \in wsPub[p].dead : ~Fine(c)

(* It gets every event the log had not lost when it read it.               *)
InWire(c) == {wire[c][i].ev : i \in DOMAIN wire[c]}
BringsTo(p, c, e) ==
  wsPub[p].ev = e /\ (wsPub[p].pc \in {"log", "list"} \/ (wsPub[p].pc = "ws" /\ c \in wsPub[p].todo))
Replays(c, e) == cl[c].pc = "send" /\ e \in ToSet(cl[c].todo)
GetsEvent(c, e) == e \in InWire(c) \/ Replays(c, e) \/ \E p \in Publishers : BringsTo(p, c, e)
Expects(c, e) == e > cl[c].since /\ e \notin cl[c].lost
Getting ==
  \A c \in Connections : cl[c].pc \in {"send", "loop"} /\ cl[c].since # Never /\ Fine(c) =>
    \A e \in 1 .. wsSeq : Expects(c, e) => GetsEvent(c, e)

FrameInv == FrameTypes /\ Locks /\ Wires /\ Lists /\ Getting

LEMMA Actors == Free \notin Actor /\ Connections \cap Publishers = {} /\ Never \notin Nat
BY FollowAssumption DEF Actor

LEMMA FrameInit == Frames!Init => FrameInv
<1> SUFFICES ASSUME Frames!Init PROVE FrameInv
  OBVIOUS
<1> USE DEF Frames!Init
<1>1. Frames!NoOne \in Client /\ Frames!NoOne.pc = "none" /\ Frames!NoOne.half = 1 /\ Frames!NoOne.closed = FALSE
  BY DEF Frames!NoOne, Client
<1>2. /\ Frames!IdlePub \in FramePub /\ Frames!IdlePub.pc = "idle" /\ Frames!IdlePub.half = 1
      /\ Frames!IdlePub.to = Free /\ Frames!IdlePub.dead = {}
  BY DEF Frames!IdlePub, FramePub
<1>3. FrameTypes
  BY <1>1, <1>2 DEF FrameTypes
<1>5. \A c \in Connections : /\ cl[c].pc = "none" /\ cl[c].half = 1 /\ cl[c].closed = FALSE
                             /\ lock[c] = Free /\ wire[c] = <<>> /\ c \notin broken
  BY <1>1
<1>6. \A p \in Publishers : wsPub[p].half = 1 /\ wsPub[p].to = Free /\ wsPub[p].dead = {}
  BY <1>2
<1>7. Locks
  BY <1>5, <1>6, Actors DEF Locks, HoldsOwn, HoldsTheirs, LockIsHeld, Actor
<1>8. Wires
  BY <1>5 DEF Wires, WholeAt, EndAt
<1>9. Lists
  BY <1>5, <1>6 DEF Lists, Listed, Fine
<1>10. Getting
  BY <1>5 DEF Getting
<1> QED BY <1>3, <1>7, <1>8, <1>9, <1>10 DEF FrameInv

(* ------------------------- the client's thread -------------------------- *)

(* A client's thread that writes nothing.                                   *)
LEMMA ClientMoves ==
  ASSUME FrameInv, NEW c \in Connections, NEW y \in Client, cl' = [cl EXCEPT ![c] = y],
         UNCHANGED <<wsLog, wsSeq, wire, broken, lock, ponged, wsPub>>, clients' \subseteq Connections,
         cl[c].half = 1, y.half = 1, cl[c].closed => y.closed,
         \A d \in Connections \ {c} : d \in clients => d \in clients',
         y.pc # "none", y.pc # "gone" /\ ~y.closed /\ c \notin broken => c \in clients',
         y.pc = "replay" => y.since \in Nat,
         y.pc \in {"send", "loop"} /\ y.since # Never /\ ~y.closed /\ c \notin broken =>
           \A e \in 1 .. wsSeq : e > y.since /\ e \notin y.lost =>
             \/ GetsEvent(c, e) /\ cl[c].pc # "send"
             \/ GetsEvent(c, e) /\ cl[c].todo = <<>>
             \/ y.pc = "send" /\ e \in ToSet(y.todo)
  PROVE  FrameInv'
<1>0. FrameTypes /\ Locks /\ Wires /\ Lists /\ Getting
  BY DEF FrameInv
<1>1. cl'[c] = y /\ \A d \in Connections \ {c} : cl'[d] = cl[d]
  BY <1>0 DEF FrameTypes
<1>2. FrameTypes'
  BY <1>0 DEF FrameTypes
<1>4. lock[c] # c
  BY <1>0 DEF Locks, LockIsHeld
<1>5. Locks'
  BY <1>0, <1>1, <1>4 DEF Locks, HoldsOwn, HoldsTheirs, LockIsHeld
<1>6. \A d \in Connections : Writes(d)' = Writes(d)
  BY <1>1, <1>4 DEF Writes
<1>7. Wires'
  BY <1>0, <1>6 DEF Wires, WholeAt, EndAt
<1>8. \A d \in Connections : ~Fine(d) => ~Fine(d)'
  BY <1>1 DEF Fine, FrameTypes, Client
<1>9. Lists'
  <2>1. \A d \in Connections : Listed(d)'
    BY <1>0, <1>1 DEF Lists, Listed, Fine
  <2>2. \A p \in Publishers : \A d \in wsPub[p].dead : d \in Connections
    BY <1>0 DEF FrameTypes, FramePub
  <2> QED BY <2>1, <2>2, <1>0, <1>8 DEF Lists
<1>10. Getting'
  <2> SUFFICES ASSUME NEW d \in Connections, cl'[d].pc \in {"send", "loop"}, cl'[d].since # Never, Fine(d)',
                      NEW e \in 1 .. wsSeq, Expects(d, e)'
               PROVE  GetsEvent(d, e)'
    BY DEF Getting
  <2>1. CASE d = c
    <3>1. \/ GetsEvent(c, e) /\ (cl[c].pc # "send" \/ cl[c].todo = <<>>)
          \/ y.pc = "send" /\ e \in ToSet(y.todo)
      BY <2>1, <1>1 DEF Expects, Fine
    <3>2. GetsEvent(c, e) /\ (cl[c].pc # "send" \/ cl[c].todo = <<>>) =>
            e \in InWire(c) \/ \E p \in Publishers : BringsTo(p, c, e)
      BY ElementsOfEmpty DEF GetsEvent, Replays
    <3> QED BY <3>1, <3>2, <2>1, <1>1 DEF GetsEvent, Replays, InWire, BringsTo
  <2>2. CASE d # c
    <3>1. GetsEvent(d, e)
      BY <2>2, <1>0, <1>1 DEF Getting, Expects, Fine
    <3> QED BY <3>1, <2>2, <1>1 DEF GetsEvent, Replays, InWire, BringsTo
  <2> QED BY <2>1, <2>2
<1> QED BY <1>2, <1>5, <1>7, <1>9, <1>10 DEF FrameInv

LEMMA FrameJoin ==
  ASSUME FrameInv, NEW c \in Connections, Frames!Join(c)
  PROVE  FrameInv'
<1>1. PICK s \in Sinces : cl' = [cl EXCEPT ![c] =
        [Frames!NoOne EXCEPT !.pc = IF s = Never THEN "loop" ELSE "replay", !.since = s]]
  BY DEF Frames!Join
<1> DEFINE y == [Frames!NoOne EXCEPT !.pc = IF s = Never THEN "loop" ELSE "replay", !.since = s]
<1>2. Frames!NoOne \in Client /\ Frames!NoOne.half = 1 /\ Frames!NoOne.closed = FALSE
  BY DEF Frames!NoOne, Client
<1>3. s \in Nat \cup {Never}
  BY FollowAssumption
<1>4. /\ y \in Client /\ y.pc = (IF s = Never THEN "loop" ELSE "replay") /\ y.since = s
      /\ y.half = 1 /\ y.closed = FALSE
  BY <1>2, <1>3 DEF Client
<1>5. /\ cl[c].pc = "none" /\ clients' = clients \cup {c}
      /\ UNCHANGED <<wsLog, wsSeq, wire, broken, lock, ponged, wsPub>>
  BY DEF Frames!Join
<1>6. cl[c].half = 1 /\ ~cl[c].closed /\ clients \subseteq Connections
  BY <1>5 DEF FrameInv, FrameTypes, Lists, Listed, Fine
<1>7. cl' = [cl EXCEPT ![c] = y]
  BY <1>1
<1>8. y.pc = "replay" => y.since \in Nat
  BY <1>3, <1>4
<1>9. y.pc = "loop" => y.since = Never
  BY <1>4
<1> HIDE DEF y
<1> QED BY <1>4, <1>5, <1>6, <1>7, <1>8, <1>9, ClientMoves

LEMMA FrameSnapshot ==
  ASSUME FrameInv, NEW c \in Connections, Frames!Snapshot(c)
  PROVE  FrameInv'
<1> DEFINE t == Pick(wsLog, cl[c].since + 1 .. wsSeq)
           f == Frames!Trimmed
           y == [cl[c] EXCEPT !.pc = "send", !.todo = t, !.lost = f]
<1>0. FrameTypes /\ Locks /\ Lists
  BY DEF FrameInv
<1>1. cl[c] \in Client /\ wsLog \in Seq(Nat) /\ wsSeq \in Nat
  BY <1>0 DEF FrameTypes
<1>2. /\ cl[c].pc = "replay" /\ UNCHANGED <<wsLog, wsSeq, clients, wire, broken, lock, ponged, wsPub>>
      /\ cl[c].since \in Nat
  BY <1>0 DEF Frames!Snapshot, Lists, Listed
<1>3. cl[c].half = 1
  BY <1>0, <1>1, <1>2 DEF Locks, HoldsOwn, Client
<1>4. t = Frames!Pick(wsLog, cl[c].since + 1 .. wsSeq)
  BY DEF Pick, Frames!Pick, PickedOf, Frames!PickedOf
<1>5. t \in Seq(Nat) /\ ToSet(t) = ToSet(wsLog) \cap (cl[c].since + 1 .. wsSeq)
  BY <1>1, ElementsOfPick
<1>6. f \in SUBSET Nat /\ \A e \in 1 .. wsSeq : e \notin f => e \in ToSet(wsLog) \/ GetsEvent(c, e)
  <2>1. f \in SUBSET Nat
    BY <1>1 DEF Frames!Trimmed
  <2>2. ASSUME NEW e \in 1 .. wsSeq, e \notin f, e \notin ToSet(wsLog) PROVE GetsEvent(c, e)
    <3>1. Frames!ToSet(wsLog) = ToSet(wsLog)
      BY DEF ToSet, Frames!ToSet
    <3>2. PICK p \in Publishers : wsPub[p].pc = "log" /\ wsPub[p].ev = e
      BY <2>2, <3>1 DEF Frames!Trimmed
    <3> QED BY <3>2 DEF GetsEvent, BringsTo
  <2> QED BY <2>1, <2>2
<1>7. cl' = [cl EXCEPT ![c] = y]
  BY <1>0, <1>4 DEF Frames!Snapshot, FrameTypes
<1> HIDE DEF t, f
<1>8. /\ y \in Client /\ y.pc = "send" /\ y.todo = t /\ y.lost = f /\ y.since = cl[c].since
      /\ y.half = 1 /\ y.closed = cl[c].closed
  BY <1>1, <1>3, <1>5, <1>6 DEF Client
<1>9. \A e \in 1 .. wsSeq : e > y.since /\ e \notin y.lost =>
        (GetsEvent(c, e) /\ cl[c].pc # "send") \/ (y.pc = "send" /\ e \in ToSet(y.todo))
  BY <1>1, <1>2, <1>5, <1>6, <1>8
<1>10. clients \subseteq Connections /\ (~y.closed /\ c \notin broken => c \in clients)
  BY <1>0, <1>2, <1>8 DEF FrameTypes, Lists, Listed, Fine
<1> HIDE DEF y
<1> QED BY <1>2, <1>3, <1>7, <1>8, <1>9, <1>10, ClientMoves

LEMMA FrameLeave ==
  ASSUME FrameInv, NEW c \in Connections, Frames!Leave(c)
  PROVE  FrameInv'
<1> DEFINE y == [cl[c] EXCEPT !.pc = "gone", !.closed = TRUE]
<1>0. FrameTypes /\ Locks
  BY DEF FrameInv
<1>1. cl[c] \in Client /\ clients \subseteq Connections
  BY <1>0 DEF FrameTypes
<1>2. /\ cl[c].pc = "loop" /\ clients' = clients \ {c} /\ cl' = [cl EXCEPT ![c] = y]
      /\ UNCHANGED <<wsLog, wsSeq, wire, broken, lock, ponged, wsPub>>
  BY <1>0 DEF Frames!Leave, FrameTypes
<1>3. cl[c].half = 1
  BY <1>0, <1>1, <1>2 DEF Locks, HoldsOwn, Client
<1>4. y \in Client /\ y.pc = "gone" /\ y.closed = TRUE /\ y.half = 1
  BY <1>1, <1>3 DEF Client
<1> HIDE DEF y
<1> QED BY <1>1, <1>2, <1>3, <1>4, ClientMoves

(* The end of the replay: nothing is left, or the client is closed.         *)
LEMMA ReplayEnds ==
  ASSUME FrameInv, NEW c \in Connections, Frames!Replay(c), cl[c].todo = <<>> \/ (cl[c].closed /\ cl[c].half = 1)
  PROVE  FrameInv'
<1> DEFINE y == [cl[c] EXCEPT !.pc = "loop"]
<1>0. FrameTypes /\ Locks /\ Lists /\ Getting
  BY DEF FrameInv
<1>1. cl[c] \in Client /\ clients \subseteq Connections
  BY <1>0 DEF FrameTypes
<1>2. /\ cl[c].pc = "send" /\ cl' = [cl EXCEPT ![c] = y]
      /\ UNCHANGED <<wsLog, wsSeq, wire, broken, lock, ponged, wsPub, clients>>
  BY DEF Frames!Replay
<1>3. cl[c].half = 1
  BY <1>0, <1>1 DEF Locks, HoldsOwn, Client
<1>4. /\ y \in Client /\ y.pc = "loop" /\ y.closed = cl[c].closed /\ y.half = 1
      /\ y.since = cl[c].since /\ y.lost = cl[c].lost
  BY <1>1, <1>3 DEF Client
<1>5. ~cl[c].closed /\ c \notin broken => c \in clients
  BY <1>0, <1>2 DEF Lists, Listed, Fine
<1>6. ~cl[c].closed /\ c \notin broken /\ cl[c].since # Never =>
        \A e \in 1 .. wsSeq : e > cl[c].since /\ e \notin cl[c].lost => GetsEvent(c, e)
  BY <1>0, <1>2 DEF Getting, Fine, Expects
<1>7. ~cl[c].closed => cl[c].todo = <<>>
  OBVIOUS
<1> HIDE DEF y
<1> QED BY <1>1, <1>2, <1>3, <1>4, <1>5, <1>6, <1>7, ClientMoves

(* ----------------------------- half a frame ----------------------------- *)

(* On a socket that works, half a frame goes out behind what is there: a    *)
(* first half when no one is in the middle, a second half behind its own.   *)
LEMMA HalfGoesOut ==
  ASSUME FrameTypes, Wires, NEW a \in Actor, NEW c \in Connections \ broken, NEW ev \in Nat, NEW h \in {1, 2},
         Frames!WriteHalf(a, c, ev, h), UNCHANGED <<broken, ponged>>,
         h = 2 => lock[c] = a /\ ev = Writes(c),
         h = 1 => lock[c] = Free /\ ev = Writes(c)',
         \A d \in Connections \ {c} : lock[d] # Free => Writes(d)' = Writes(d)
  PROVE  /\ wire' \in [Connections -> Seq(HalfFrame)] /\ lock' \in [Connections -> Actor \cup {Free}]
         /\ lock'[c] = (IF h = 1 THEN a ELSE Free) /\ InWire(c)' = InWire(c) \cup {ev}
         /\ \A d \in Connections \ {c} : lock'[d] = lock[d] /\ wire'[d] = wire[d]
         /\ Wires'
<1> DEFINE f == [by |-> a, ev |-> ev, half |-> h]
<1>1. wire' = [wire EXCEPT ![c] = Append(wire[c], f)] /\ lock' = [lock EXCEPT ![c] = IF h = 1 THEN a ELSE Free]
  BY DEF Frames!WriteHalf, FrameTypes
<1>2. f \in HalfFrame /\ f.by = a /\ f.ev = ev /\ f.half = h
  BY DEF HalfFrame
<1>3. /\ wire[c] \in Seq(HalfFrame) /\ wire \in [Connections -> Seq(HalfFrame)]
      /\ lock \in [Connections -> Actor \cup {Free}]
  BY DEF FrameTypes
<1> HIDE DEF f
<1>4. wire' \in [Connections -> Seq(HalfFrame)] /\ wire'[c] = Append(wire[c], f)
  BY <1>1, <1>2, <1>3
<1>5. lock' \in [Connections -> Actor \cup {Free}] /\ lock'[c] = (IF h = 1 THEN a ELSE Free)
  BY <1>1, <1>3
<1>6. \A d \in Connections \ {c} : lock'[d] = lock[d] /\ wire'[d] = wire[d]
  BY <1>1, <1>3
<1>7. /\ DOMAIN wire[c] = 1 .. Len(wire[c]) /\ Len(wire[c]) \in Nat
      /\ Len(wire'[c]) = Len(wire[c]) + 1 /\ DOMAIN wire'[c] = 1 .. Len(wire[c]) + 1
      /\ wire'[c][Len(wire[c]) + 1] = f /\ \A i \in DOMAIN wire[c] : wire'[c][i] = wire[c][i]
  BY <1>2, <1>3, <1>4
<1>8. InWire(c)' = InWire(c) \cup {ev}
  <2>1. DOMAIN wire'[c] = DOMAIN wire[c] \cup {Len(wire[c]) + 1}
    BY <1>7
  <2>2. wire'[c][Len(wire[c]) + 1].ev = ev /\ \A i \in DOMAIN wire[c] : wire'[c][i].ev = wire[c][i].ev
    BY <1>2, <1>7
  <2> QED BY <2>1, <2>2 DEF InWire
<1>9. \A i \in DOMAIN wire[c] : wire[c][i] \in HalfFrame
  BY <1>3
<1>10. ASSUME c \notin ponged PROVE WholeAt(c)'
  <2> SUFFICES ASSUME NEW i \in DOMAIN wire'[c], wire'[c][i].half = 1, i < Len(wire'[c])
               PROVE  wire'[c][i + 1] = [wire'[c][i] EXCEPT !.half = 2]
    BY DEF WholeAt
  <2>a. i \in 1 .. Len(wire[c])
    BY <1>7
  <2>b. wire'[c][i] = wire[c][i] /\ wire[c][i].half = 1
    BY <2>a, <1>7
  <2>c. wire'[c][i] \in HalfFrame
    BY <2>a, <2>b, <1>7, <1>9
  <2>0. WholeAt(c) /\ EndAt(c)
    BY <1>10 DEF Wires
  <2>1. CASE i < Len(wire[c])
    <3>1. i \in DOMAIN wire[c] /\ i + 1 \in DOMAIN wire[c]
      BY <2>1, <1>7
    <3>2. wire[c][i + 1] = [wire[c][i] EXCEPT !.half = 2]
      BY <2>0, <2>1, <2>b, <3>1 DEF WholeAt
    <3> QED BY <3>1, <3>2, <2>b, <1>7
  <2>2. CASE i = Len(wire[c])
    <3>1. lock[c] # Free /\ wire[c][i].by = lock[c] /\ wire[c][i].ev = Writes(c)
      BY <2>0, <2>2, <1>7 DEF EndAt
    <3>2. h = 2 /\ wire[c][i].by = a /\ wire[c][i].ev = ev
      BY <3>1
    <3>3. wire[c][i] \in HalfFrame /\ f \in HalfFrame
      BY <1>2, <1>7, <1>9
    <3>4. \A x, z \in HalfFrame : x.by = z.by /\ x.ev = z.ev /\ z.half = 2 => z = [x EXCEPT !.half = 2]
      BY DEF HalfFrame
    <3>5. wire'[c][i + 1] = f
      BY <2>2, <1>7
    <3> QED BY <3>2, <3>3, <3>4, <3>5, <2>b, <1>2
  <2> QED BY <2>a, <2>1, <2>2, <1>7
<1>11. EndAt(c)'
  <2>1. CASE h = 1
    <3>1. a # Free
      BY Actors
    <3> QED BY <2>1, <3>1, <1>2, <1>5, <1>7 DEF EndAt
  <2>2. CASE h = 2
    BY <2>2, <1>2, <1>7 DEF EndAt
  <2> QED BY <2>1, <2>2
<1>12. \A d \in Connections \ {c} : d \notin ponged => WholeAt(d)' /\ EndAt(d)'
  <2> SUFFICES ASSUME NEW d \in Connections \ {c}, d \notin ponged PROVE WholeAt(d)' /\ EndAt(d)'
    OBVIOUS
  <2>1. WholeAt(d) /\ EndAt(d)
    BY DEF Wires
  <2>2. wire'[d] = wire[d] /\ lock'[d] = lock[d] /\ (lock[d] # Free => Writes(d)' = Writes(d))
    BY <1>6
  <2>3. WholeAt(d)'
    BY <2>1, <2>2 DEF WholeAt
  <2>4. EndAt(d)'
    BY <2>1, <2>2 DEF EndAt
  <2> QED BY <2>3, <2>4
<1>13. Wires'
  BY <1>10, <1>11, <1>12 DEF Wires
<1> QED BY <1>4, <1>5, <1>6, <1>8, <1>13

(* On a broken one the lock is given back and nothing goes out.             *)
LEMMA HalfFails ==
  ASSUME FrameTypes, Wires, NEW a \in Actor, NEW c \in Connections \cap broken, NEW ev \in Nat, NEW h \in {1, 2},
         Frames!WriteHalf(a, c, ev, h), UNCHANGED <<broken, ponged>>,
         \A d \in Connections \ {c} : lock[d] # Free => Writes(d)' = Writes(d)
  PROVE  /\ wire' = wire /\ lock' \in [Connections -> Actor \cup {Free}] /\ lock'[c] = Free
         /\ \A d \in Connections \ {c} : lock'[d] = lock[d]
         /\ Wires'
<1>1. wire' = wire /\ lock' = [lock EXCEPT ![c] = Free]
  BY DEF Frames!WriteHalf
<1>2. lock \in [Connections -> Actor \cup {Free}]
  BY DEF FrameTypes
<1>3. lock' \in [Connections -> Actor \cup {Free}] /\ lock'[c] = Free /\ \A d \in Connections \ {c} : lock'[d] = lock[d]
  BY <1>1, <1>2
<1>4. Wires'
  BY <1>1, <1>3 DEF Wires, WholeAt, EndAt
<1> QED BY <1>1, <1>3, <1>4

LEMMA LockAfter ==
  ASSUME FrameTypes, NEW a \in Actor, NEW c \in Connections, NEW ev, NEW h, Frames!WriteHalf(a, c, ev, h)
  PROVE  /\ lock[c] \in {Free, a} /\ \A d \in Connections \ {c} : lock'[d] = lock[d]
         /\ c \notin broken => lock'[c] = (IF h = 1 THEN a ELSE Free)
BY DEF Frames!WriteHalf, Frames!CanLock, FrameTypes

(* What a write of c's own thread leaves of the locks.                      *)
LEMMA OwnLocks ==
  ASSUME FrameTypes, Locks, NEW c \in Connections, lock[c] \in {Free, c}, wsPub' = wsPub,
         \A d \in Connections \ {c} : lock'[d] = lock[d] /\ cl'[d] = cl[d],
         \/ lock'[c] = Free /\ cl'[c].half = 1
         \/ lock'[c] = c /\ cl'[c].half = 2 /\ cl'[c].pc = "send" /\ cl'[c].todo # <<>>
  PROVE  Locks'
<1>1. HoldsOwn(c)' /\ LockIsHeld(c)'
  BY Actors DEF HoldsOwn, LockIsHeld, Actor
<1>2. \A d \in Connections \ {c} : HoldsOwn(d)' /\ LockIsHeld(d)'
  BY DEF Locks, HoldsOwn, LockIsHeld
<1>3. ASSUME NEW p \in Publishers PROVE HoldsTheirs(p)'
  <2>1. HoldsTheirs(p) /\ wsPub[p] \in FramePub
    BY DEF Locks, FrameTypes
  <2>2. wsPub[p].half = 2 => wsPub[p].to # c /\ wsPub[p].to \in Connections
    BY <2>1, Actors DEF HoldsTheirs, FramePub, Actor
  <2> QED BY <2>1, <2>2 DEF HoldsTheirs
<1> QED BY <1>1, <1>2, <1>3 DEF Locks

LEMMA ReplayWrites ==
  ASSUME FrameInv, NEW c \in Connections, Frames!Replay(c), cl[c].todo # <<>>, ~(cl[c].closed /\ cl[c].half = 1)
  PROVE  FrameInv'
<1> DEFINE h == cl[c].half
           t == cl[c].todo
           down == c \in broken
           y == [cl[c] EXCEPT !.half = IF down THEN 1 ELSE 3 - h, !.closed = cl[c].closed \/ down,
                              !.todo = IF h = 2 \/ down THEN Tail(t) ELSE t]
<1>0. FrameTypes /\ Locks /\ Wires /\ Lists /\ Getting
  BY DEF FrameInv
<1>1. cl[c] \in Client /\ t \in Seq(Nat) /\ h \in {1, 2} /\ t # <<>>
  BY <1>0 DEF FrameTypes, Client
<1>2. /\ cl[c].pc = "send" /\ Frames!WriteHalf(c, c, Head(t), h) /\ cl' = [cl EXCEPT ![c] = y]
      /\ UNCHANGED <<wsLog, wsSeq, clients, broken, ponged, wsPub>>
  BY <1>0 DEF Frames!Replay, FrameTypes
<1>3. Head(t) \in Nat /\ Tail(t) \in Seq(Nat) /\ ToSet(t) = ToSet(Tail(t)) \cup {Head(t)}
  BY <1>1, ElementsOfTail
<1>4. /\ y \in Client /\ y.pc = "send" /\ y.since = cl[c].since /\ y.lost = cl[c].lost
      /\ y.half = (IF down THEN 1 ELSE 3 - h) /\ y.closed = (cl[c].closed \/ down)
      /\ y.todo = (IF h = 2 \/ down THEN Tail(t) ELSE t)
  <2> DEFINE h2 == IF down THEN 1 ELSE 3 - h
             b2 == cl[c].closed \/ down
             t2 == IF h = 2 \/ down THEN Tail(t) ELSE t
             z == [cl[c] EXCEPT !.half = h2, !.closed = b2, !.todo = t2]
  <2>1. h2 \in {1, 2} /\ b2 \in BOOLEAN /\ t2 \in Seq(Nat)
    BY <1>1, <1>3
  <2>2. y = z
    OBVIOUS
  <2> HIDE DEF h2, b2, t2
  <2>3. /\ z \in Client /\ z.pc = "send" /\ z.since = cl[c].since /\ z.lost = cl[c].lost
        /\ z.half = h2 /\ z.closed = b2 /\ z.todo = t2
    BY <2>1, <1>1, <1>2 DEF Client
  <2> HIDE DEF z
  <2> QED BY <2>2, <2>3 DEF h2, b2, t2
<1> HIDE DEF y
<1>5. cl'[c] = y /\ (\A d \in Connections \ {c} : cl'[d] = cl[d]) /\ cl' \in [Connections -> Client]
  BY <1>0, <1>2, <1>4 DEF FrameTypes
<1>6. /\ c \in Actor /\ lock[c] \in {Free, c} /\ \A d \in Connections \ {c} : lock'[d] = lock[d]
      /\ ~down => lock'[c] = (IF h = 1 THEN c ELSE Free)
  <2>1. c \in Actor
    BY DEF Actor
  <2> QED BY <2>1, <1>0, <1>2, LockAfter
<1>7. \A d \in Connections \ {c} : lock[d] # Free => Writes(d)' = Writes(d)
  BY <1>2, <1>5, <1>6 DEF Writes
<1>8. Lists'
  <2>1. \A d \in Connections : Listed(d)'
    BY <1>0, <1>2, <1>4, <1>5 DEF Lists, Listed, Fine
  <2>2. \A d \in Connections : ~Fine(d) => ~Fine(d)'
    BY <1>2, <1>4, <1>5 DEF Fine
  <2>3. \A p \in Publishers : \A d \in wsPub[p].dead : d \in Connections
    BY <1>0 DEF FrameTypes, FramePub
  <2> QED BY <2>1, <2>2, <2>3, <1>0, <1>2 DEF Lists
<1>10. CASE ~down
  <2>1. h = 1 => lock[c] = Free
    BY <1>0, <1>6 DEF Locks, LockIsHeld
  <2>2. h = 1 => Head(t) = Writes(c)'
    BY <1>4, <1>5, <1>6, <1>10 DEF Writes
  <2>3. h = 2 => lock[c] = c /\ Head(t) = Writes(c)
    BY <1>0 DEF Locks, HoldsOwn, Writes
  <2>4. /\ wire' \in [Connections -> Seq(HalfFrame)] /\ lock' \in [Connections -> Actor \cup {Free}]
        /\ InWire(c)' = InWire(c) \cup {Head(t)}
        /\ \A d \in Connections \ {c} : wire'[d] = wire[d]
        /\ Wires'
    <3> HIDE DEF h, t
    <3> QED BY <2>1, <2>2, <2>3, <1>0, <1>1, <1>2, <1>3, <1>6, <1>7, <1>10, HalfGoesOut
  <2>5. FrameTypes'
    BY <1>0, <1>2, <1>5, <2>4 DEF FrameTypes
  <2>6. Locks'
    <3>1. \/ lock'[c] = Free /\ cl'[c].half = 1
          \/ lock'[c] = c /\ cl'[c].half = 2 /\ cl'[c].pc = "send" /\ cl'[c].todo # <<>>
      BY <1>1, <1>4, <1>5, <1>6, <1>10
    <3> QED BY <3>1, <1>0, <1>2, <1>5, <1>6, OwnLocks
  <2>7. Getting'
    <3>1. ASSUME NEW e, GetsEvent(c, e) PROVE GetsEvent(c, e)'
      <4>1. Replays(c, e) => Replays(c, e)' \/ e \in InWire(c)'
        BY <1>3, <1>4, <1>5, <1>10, <2>4 DEF Replays
      <4>2. \A p \in Publishers : BringsTo(p, c, e) => BringsTo(p, c, e)'
        BY <1>2 DEF BringsTo
      <4> QED BY <4>1, <4>2, <3>1, <2>4 DEF GetsEvent
    <3>2. \A d \in Connections \ {c} : \A e : GetsEvent(d, e) => GetsEvent(d, e)'
      BY <1>2, <1>5, <2>4 DEF GetsEvent, Replays, BringsTo, InWire
    <3>3. \A d \in Connections : /\ cl'[d].pc = cl[d].pc /\ cl'[d].since = cl[d].since /\ cl'[d].lost = cl[d].lost
                                /\ (Fine(d)' => Fine(d))
      BY <1>2, <1>4, <1>5 DEF Fine
    <3> QED BY <3>1, <3>2, <3>3, <1>0, <1>2 DEF Getting, Expects
  <2> QED BY <2>4, <2>5, <2>6, <2>7, <1>8 DEF FrameInv
<1>11. CASE down
  <2>1. /\ wire' = wire /\ lock' \in [Connections -> Actor \cup {Free}] /\ lock'[c] = Free
        /\ Wires'
    <3> HIDE DEF h, t
    <3> QED BY <1>0, <1>1, <1>2, <1>3, <1>6, <1>7, <1>11, HalfFails
  <2>2. FrameTypes'
    BY <1>0, <1>2, <1>5, <2>1 DEF FrameTypes
  <2>3. Locks'
    <3>1. lock'[c] = Free /\ cl'[c].half = 1
      BY <1>4, <1>5, <1>11, <2>1
    <3> QED BY <3>1, <1>0, <1>2, <1>5, <1>6, OwnLocks
  <2>4. Getting'
    <3>1. ~Fine(c)'
      BY <1>2, <1>11 DEF Fine
    <3>2. \A d \in Connections \ {c} : \A e : GetsEvent(d, e) => GetsEvent(d, e)'
      BY <1>2, <1>5, <2>1 DEF GetsEvent, Replays, BringsTo, InWire
    <3>3. \A d \in Connections \ {c} : Fine(d)' => Fine(d)
      BY <1>2, <1>5 DEF Fine
    <3> QED BY <3>1, <3>2, <3>3, <1>0, <1>2, <1>5 DEF Getting, Expects
  <2> QED BY <2>1, <2>2, <2>3, <2>4, <1>8 DEF FrameInv
<1> QED BY <1>10, <1>11

LEMMA FrameReplay ==
  ASSUME FrameInv, NEW c \in Connections, Frames!Replay(c)
  PROVE  FrameInv'
BY ReplayEnds, ReplayWrites

(* A pong goes out without the lock, and its socket is set apart.           *)
LEMMA FramePong ==
  ASSUME FrameInv, NEW c \in Connections, Frames!AnswerPing(c)
  PROVE  FrameInv'
<1> DEFINE f == [by |-> c, ev |-> 0, half |-> 0]
<1>0. FrameTypes /\ Locks /\ Wires /\ Lists /\ Getting
  BY DEF FrameInv
<1>1. /\ wire' = [wire EXCEPT ![c] = Append(wire[c], f)] /\ ponged' = ponged \cup {c}
      /\ UNCHANGED <<wsLog, wsSeq, clients, cl, broken, lock, wsPub>>
  BY <1>0 DEF Frames!AnswerPing, FrameTypes
<1>2. f \in HalfFrame
  BY DEF HalfFrame, Actor
<1> HIDE DEF f
<1>3. wire \in [Connections -> Seq(HalfFrame)]
  BY <1>0 DEF FrameTypes
<1>4. /\ wire' \in [Connections -> Seq(HalfFrame)] /\ wire'[c] = Append(wire[c], f)
      /\ \A d \in Connections \ {c} : wire'[d] = wire[d]
  BY <1>1, <1>2, <1>3
<1>5. InWire(c) \subseteq InWire(c)'
  <2>1. DOMAIN wire[c] \subseteq DOMAIN wire'[c] /\ \A i \in DOMAIN wire[c] : wire'[c][i] = wire[c][i]
    BY <1>2, <1>3, <1>4
  <2> QED BY <2>1 DEF InWire
<1>6. FrameTypes'
  BY <1>0, <1>1, <1>4 DEF FrameTypes
<1>7. Locks' /\ Lists'
  BY <1>0, <1>1 DEF Locks, Lists, HoldsOwn, HoldsTheirs, LockIsHeld, Listed, Fine
<1>8. Wires'
  BY <1>0, <1>1, <1>4 DEF Wires, WholeAt, EndAt, Writes
<1>9. Getting'
  <2>1. \A d \in Connections : \A e : GetsEvent(d, e) => GetsEvent(d, e)'
    BY <1>1, <1>4, <1>5 DEF GetsEvent, Replays, BringsTo, InWire
  <2> QED BY <2>1, <1>0, <1>1 DEF Getting, Expects, Fine
<1> QED BY <1>6, <1>7, <1>8, <1>9 DEF FrameInv

LEMMA FrameBreak ==
  ASSUME FrameInv, NEW c \in Connections, Frames!Break(c)
  PROVE  FrameInv'
<1>0. FrameTypes /\ Locks /\ Wires /\ Lists /\ Getting
  BY DEF FrameInv
<1>1. /\ cl[c].pc # "none" /\ broken' = broken \cup {c}
      /\ UNCHANGED <<wsLog, wsSeq, clients, cl, wire, lock, ponged, wsPub>>
  BY DEF Frames!Break
<1>2. FrameTypes' /\ Locks'
  BY <1>0, <1>1 DEF FrameTypes, Locks, HoldsOwn, HoldsTheirs, LockIsHeld
<1>3. Wires'
  BY <1>0, <1>1 DEF Wires, WholeAt, EndAt, Writes
<1>4. Lists'
  BY <1>0, <1>1 DEF Lists, Listed, Fine
<1>5. Getting'
  BY <1>0, <1>1 DEF Getting, Expects, Fine, GetsEvent, Replays, BringsTo, InWire
<1> QED BY <1>2, <1>3, <1>4, <1>5 DEF FrameInv

(* ------------------------------ broadcasts ------------------------------ *)

(* A broadcast that writes nothing.                                         *)
LEMMA PublisherMoves ==
  ASSUME FrameInv, NEW p \in Publishers, NEW y \in FramePub, wsPub' = [wsPub EXCEPT ![p] = y],
         UNCHANGED <<cl, wire, broken, lock, ponged>>, clients' \subseteq Connections,
         wsLog' \in Seq(Nat), wsSeq' \in Nat,
         wsPub[p].half = 1, y.half = 1, y.to = Free, \A c \in y.dead : ~Fine(c),
         \A c \in Connections : c \in clients /\ Fine(c) => c \in clients',
         \A c \in Connections : cl[c].pc \in {"send", "loop"} /\ Fine(c) =>
           \A e \in 1 .. wsSeq' : BringsTo(p, c, e) \/ e > wsSeq =>
             y.ev = e /\ (y.pc \in {"log", "list"} \/ (y.pc = "ws" /\ c \in y.todo))
  PROVE  FrameInv'
<1>0. FrameTypes /\ Locks /\ Wires /\ Lists /\ Getting
  BY DEF FrameInv
<1>1. wsPub'[p] = y /\ \A q \in Publishers \ {p} : wsPub'[q] = wsPub[q]
  BY <1>0 DEF FrameTypes
<1>2. FrameTypes'
  BY <1>0 DEF FrameTypes
<1>3. \A c \in Connections : lock[c] # p
  BY <1>0 DEF Locks, LockIsHeld
<1>4. Locks'
  BY <1>0, <1>1, <1>3 DEF Locks, HoldsOwn, HoldsTheirs, LockIsHeld
<1>5. \A c \in Connections : lock[c] # Free => Writes(c)' = Writes(c)
  <2> SUFFICES ASSUME NEW c \in Connections, lock[c] # Free PROVE Writes(c)' = Writes(c)
    OBVIOUS
  <2>1. lock[c] # p /\ lock[c] \in Actor
    BY <1>0, <1>3 DEF FrameTypes
  <2>2. lock[c] \in Connections => lock[c] = c
    BY <1>0 DEF Locks, LockIsHeld
  <2> QED BY <2>1, <2>2, <1>1 DEF Writes, Actor
<1>6. Wires'
  BY <1>0, <1>5 DEF Wires, WholeAt, EndAt
<1>7. \A c : Fine(c)' = Fine(c)
  BY DEF Fine
<1>8. Lists'
  BY <1>0, <1>1, <1>7 DEF Lists, Listed
<1>9. Getting'
  <2> SUFFICES ASSUME NEW c \in Connections, cl[c].pc \in {"send", "loop"}, cl[c].since # Never, Fine(c),
                      NEW e \in 1 .. wsSeq', Expects(c, e)
               PROVE  GetsEvent(c, e)'
    BY <1>7 DEF Getting, Expects
  <2>1. BringsTo(p, c, e) \/ e > wsSeq => BringsTo(p, c, e)'
    BY <1>1 DEF BringsTo
  <2>2. \A q \in Publishers \ {p} : BringsTo(q, c, e) => BringsTo(q, c, e)'
    BY <1>1 DEF BringsTo
  <2>3. CASE e > wsSeq
    BY <2>1, <2>3 DEF GetsEvent
  <2>4. CASE e <= wsSeq
    <3>1. e \in 1 .. wsSeq
      BY <2>4, <1>0 DEF FrameTypes
    <3>2. GetsEvent(c, e)
      BY <3>1, <1>0 DEF Getting
    <3>3. (e \in InWire(c) => e \in InWire(c)') /\ (Replays(c, e) => Replays(c, e)')
      BY DEF InWire, Replays
    <3> QED BY <3>2, <3>3, <2>1, <2>2 DEF GetsEvent
  <2>5. wsSeq \in Nat /\ e \in Int
    BY <1>0 DEF FrameTypes
  <2> QED BY <2>3, <2>4, <2>5
<1> QED BY <1>2, <1>4, <1>6, <1>8, <1>9 DEF FrameInv

LEMMA FramePublish ==
  ASSUME FrameInv, NEW p \in Publishers, Frames!Publish(p)
  PROVE  FrameInv'
<1> DEFINE y == [Frames!IdlePub EXCEPT !.pc = "log", !.ev = wsSeq + 1]
<1>0. FrameTypes /\ Locks /\ Lists
  BY DEF FrameInv
<1>1. /\ wsPub[p].pc = "idle" /\ wsSeq' = wsSeq + 1 /\ wsPub' = [wsPub EXCEPT ![p] = y]
      /\ UNCHANGED <<wsLog, clients, cl, wire, broken, lock, ponged>>
  BY DEF Frames!Publish, Frames!clientVars
<1>2. wsLog \in Seq(Nat) /\ wsSeq \in Nat /\ wsPub[p] \in FramePub /\ clients \subseteq Connections
  BY <1>0 DEF FrameTypes
<1>3. Frames!IdlePub \in FramePub /\ Frames!IdlePub.half = 1 /\ Frames!IdlePub.to = Free /\ Frames!IdlePub.dead = {}
  BY DEF Frames!IdlePub, FramePub
<1>4. y \in FramePub /\ y.pc = "log" /\ y.ev = wsSeq + 1 /\ y.half = 1 /\ y.to = Free /\ y.dead = {}
  <2> DEFINE n == wsSeq + 1
             z == [Frames!IdlePub EXCEPT !.pc = "log", !.ev = n]
  <2>1. n \in Nat /\ y = z
    BY <1>2
  <2> HIDE DEF n
  <2>2. z \in FramePub /\ z.pc = "log" /\ z.ev = n /\ z.half = 1 /\ z.to = Free /\ z.dead = {}
    BY <1>3, <2>1 DEF FramePub
  <2> HIDE DEF z
  <2> QED BY <2>1, <2>2 DEF n
<1> HIDE DEF y
<1>7. wsLog' \in Seq(Nat)
  BY <1>1, <1>2
<1>9. wsPub[p].half = 1
  BY <1>0, <1>1, <1>2 DEF Locks, HoldsTheirs, FramePub
<1>10. \A c, e : ~BringsTo(p, c, e)
  BY <1>1 DEF BringsTo
<1>11. \A e \in 1 .. wsSeq' : e > wsSeq => y.ev = e
  BY <1>1, <1>2, <1>4
<1>12. wsSeq' \in Nat
  BY <1>1, <1>2
<1> QED BY <1>1, <1>2, <1>4, <1>7, <1>9, <1>10, <1>11, <1>12, PublisherMoves

LEMMA LogGrows ==
  ASSUME NEW l \in Seq(Nat), NEW e \in Nat
  PROVE  LET all == Append(l, e) IN (IF Len(all) > WsLogMax THEN Tail(all) ELSE all) \in Seq(Nat)
<1> DEFINE all == Append(l, e)
<1>1. all \in Seq(Nat) /\ all # <<>>
  BY AppendProperties
<1> HIDE DEF all
<1>2. Tail(all) \in Seq(Nat)
  BY <1>1
<1> QED BY <1>1, <1>2 DEF all

LEMMA FrameAppend ==
  ASSUME FrameInv, NEW p \in Publishers, Frames!AppendLog(p)
  PROVE  FrameInv'
<1> DEFINE y == [wsPub[p] EXCEPT !.pc = "list"]
<1>0. FrameTypes /\ Locks /\ Lists
  BY DEF FrameInv
<1>1. /\ wsPub[p].pc = "log" /\ wsPub' = [wsPub EXCEPT ![p] = y]
      /\ UNCHANGED <<wsSeq, clients, cl, wire, broken, lock, ponged>>
      /\ wsLog' = LET all == Append(wsLog, wsPub[p].ev) IN IF Len(all) > WsLogMax THEN Tail(all) ELSE all
  BY <1>0 DEF Frames!AppendLog, Frames!clientVars, FrameTypes
<1>2. /\ wsLog \in Seq(Nat) /\ wsSeq \in Nat /\ wsPub[p] \in FramePub /\ clients \subseteq Connections
      /\ wsPub[p].ev \in Nat
  BY <1>0 DEF FrameTypes, FramePub
<1>3. wsPub[p].half = 1
  BY <1>0, <1>1, <1>2 DEF Locks, HoldsTheirs, FramePub
<1>4. wsPub[p].to = Free /\ \A c \in wsPub[p].dead : ~Fine(c)
  BY <1>0, <1>3 DEF Locks, HoldsTheirs, Lists
<1>5. /\ y \in FramePub /\ y.pc = "list" /\ y.ev = wsPub[p].ev /\ y.half = 1 /\ y.to = Free
      /\ y.dead = wsPub[p].dead
  BY <1>2, <1>3, <1>4 DEF FramePub
<1> HIDE DEF y
<1>6. wsLog' \in Seq(Nat)
  BY <1>1, <1>2, LogGrows
<1>7. \A c, e : BringsTo(p, c, e) => y.ev = e
  BY <1>5 DEF BringsTo
<1>9. \A e \in 1 .. wsSeq' : ~(e > wsSeq)
  BY <1>1, <1>2
<1> QED BY <1>1, <1>2, <1>3, <1>4, <1>5, <1>6, <1>7, <1>9, PublisherMoves

LEMMA FrameList ==
  ASSUME FrameInv, NEW p \in Publishers, Frames!List(p)
  PROVE  FrameInv'
<1> DEFINE y == [wsPub[p] EXCEPT !.pc = "ws", !.todo = clients]
<1>0. FrameTypes /\ Locks /\ Lists
  BY DEF FrameInv
<1>1. /\ wsPub[p].pc = "list" /\ wsPub' = [wsPub EXCEPT ![p] = y]
      /\ UNCHANGED <<wsLog, wsSeq, clients, cl, wire, broken, lock, ponged>>
  BY <1>0 DEF Frames!List, Frames!clientVars, FrameTypes
<1>2. wsLog \in Seq(Nat) /\ wsSeq \in Nat /\ wsPub[p] \in FramePub /\ clients \subseteq Connections
  BY <1>0 DEF FrameTypes
<1>3. wsPub[p].half = 1
  BY <1>0, <1>1, <1>2 DEF Locks, HoldsTheirs, FramePub
<1>4. wsPub[p].to = Free /\ \A c \in wsPub[p].dead : ~Fine(c)
  BY <1>0, <1>3 DEF Locks, HoldsTheirs, Lists
<1>5. /\ y \in FramePub /\ y.pc = "ws" /\ y.todo = clients /\ y.ev = wsPub[p].ev /\ y.half = 1 /\ y.to = Free
      /\ y.dead = wsPub[p].dead
  BY <1>2, <1>3, <1>4 DEF FramePub
<1> HIDE DEF y
<1>6. \A c \in Connections : cl[c].pc \in {"send", "loop"} /\ Fine(c) => c \in y.todo
  BY <1>0, <1>5 DEF Lists, Listed
<1>7. \A c, e : BringsTo(p, c, e) => y.ev = e
  BY <1>5 DEF BringsTo
<1>9. \A e \in 1 .. wsSeq' : ~(e > wsSeq)
  BY <1>1, <1>2
<1> QED BY <1>1, <1>2, <1>3, <1>4, <1>5, <1>6, <1>7, <1>9, PublisherMoves

LEMMA FrameEnd ==
  ASSUME FrameInv, NEW p \in Publishers, Frames!EndWs(p)
  PROVE  FrameInv'
<1>0. FrameTypes /\ Locks /\ Lists
  BY DEF FrameInv
<1>1. /\ wsPub[p].pc = "ws" /\ wsPub[p].todo = {} /\ wsPub' = [wsPub EXCEPT ![p] = Frames!IdlePub]
      /\ clients' = clients \ wsPub[p].dead
      /\ UNCHANGED <<wsLog, wsSeq, cl, wire, broken, lock, ponged>>
  BY DEF Frames!EndWs
<1>2. wsLog \in Seq(Nat) /\ wsSeq \in Nat /\ wsPub[p] \in FramePub /\ clients \subseteq Connections
  BY <1>0 DEF FrameTypes
<1>3. wsPub[p].half = 1
  BY <1>0, <1>1, <1>2 DEF Locks, HoldsTheirs, FramePub
<1>4. \A c \in wsPub[p].dead : ~Fine(c)
  BY <1>0 DEF Lists
<1>5. /\ Frames!IdlePub \in FramePub /\ Frames!IdlePub.half = 1 /\ Frames!IdlePub.to = Free
      /\ Frames!IdlePub.dead = {}
  BY DEF Frames!IdlePub, FramePub
<1>6. \A c, e : ~BringsTo(p, c, e)
  BY <1>1 DEF BringsTo
<1>8. \A e \in 1 .. wsSeq' : ~(e > wsSeq)
  BY <1>1, <1>2
<1> QED BY <1>1, <1>2, <1>3, <1>4, <1>5, <1>6, <1>8, PublisherMoves

(* The client a broadcast writes to is one of those left, and the one it is *)
(* in the middle of a frame with.                                           *)
LEMMA SendsTo ==
  ASSUME FrameTypes, Locks, NEW p \in Publishers, wsPub[p].pc = "ws",
         NEW c \in (IF wsPub[p].to = Free THEN wsPub[p].todo ELSE {wsPub[p].to})
  PROVE  c \in Connections /\ c \in wsPub[p].todo /\ (wsPub[p].half = 2 => wsPub[p].to = c /\ lock[c] = p)
<1>1. wsPub[p] \in FramePub /\ HoldsTheirs(p)
  BY DEF FrameTypes, Locks
<1>2. CASE wsPub[p].half = 2
  <2>1. wsPub[p].to \in wsPub[p].todo /\ lock[wsPub[p].to] = p /\ wsPub[p].todo \subseteq Connections
    BY <1>1, <1>2 DEF HoldsTheirs, FramePub
  <2>2. wsPub[p].to # Free
    BY <2>1, Actors DEF Actor
  <2> QED BY <2>1, <2>2
<1>3. CASE wsPub[p].half = 1
  BY <1>1, <1>3 DEF HoldsTheirs, FramePub
<1> QED BY <1>1, <1>2, <1>3 DEF FramePub

(* A closed client is passed over.                                          *)
LEMMA FrameSkip ==
  ASSUME FrameInv, NEW p \in Publishers, NEW c \in Connections, wsPub[p].pc = "ws", wsPub[p].half = 1, cl[c].closed,
         wsPub' = [wsPub EXCEPT ![p].half = 1, ![p].to = Free, ![p].todo = @ \ {c}, ![p].dead = @ \cup {c}],
         UNCHANGED <<wsLog, wsSeq, clients, cl, wire, broken, lock, ponged>>
  PROVE  FrameInv'
<1> DEFINE y == [wsPub[p] EXCEPT !.half = 1, !.to = Free, !.todo = wsPub[p].todo \ {c}, !.dead = wsPub[p].dead \cup {c}]
<1>0. FrameTypes /\ Lists
  BY DEF FrameInv
<1>1. wsPub' = [wsPub EXCEPT ![p] = y]
  BY <1>0 DEF FrameTypes
<1>2. wsLog \in Seq(Nat) /\ wsSeq \in Nat /\ wsPub[p] \in FramePub /\ clients \subseteq Connections
  BY <1>0 DEF FrameTypes
<1>3. /\ y \in FramePub /\ y.pc = "ws" /\ y.todo = wsPub[p].todo \ {c} /\ y.ev = wsPub[p].ev /\ y.half = 1
      /\ y.to = Free /\ y.dead = wsPub[p].dead \cup {c}
  BY <1>2 DEF FramePub
<1> HIDE DEF y
<1>4. ~Fine(c) /\ \A d \in y.dead : ~Fine(d)
  BY <1>0, <1>3 DEF Lists, Fine
<1>5. wsSeq' = wsSeq /\ \A e \in 1 .. wsSeq : ~(e > wsSeq)
  BY <1>2
<1>7. ASSUME NEW d \in Connections, Fine(d), NEW e \in 1 .. wsSeq', BringsTo(p, d, e) \/ e > wsSeq
      PROVE  y.ev = e /\ (y.pc \in {"log", "list"} \/ (y.pc = "ws" /\ d \in y.todo))
  <2>1. BringsTo(p, d, e)
    BY <1>5, <1>7
  <2> QED BY <2>1, <1>3, <1>4, <1>7 DEF BringsTo
<1> QED BY <1>1, <1>2, <1>3, <1>4, <1>7, PublisherMoves

(* What a write of the broadcast p to c leaves of the locks.                *)
LEMMA TheirLocks ==
  ASSUME FrameTypes, Locks, NEW p \in Publishers, NEW c \in Connections, lock[c] \in {Free, p},
         wsPub[p].half = 2 => wsPub[p].to = c,
         \A q \in Publishers \ {p} : wsPub'[q] = wsPub[q],
         \A d \in Connections \ {c} : lock'[d] = lock[d],
         \A d \in Connections : cl'[d].half = cl[d].half /\ cl'[d].pc = cl[d].pc /\ cl'[d].todo = cl[d].todo,
         \/ lock'[c] = Free /\ wsPub'[p].half = 1 /\ wsPub'[p].to = Free
         \/ /\ lock'[c] = p /\ wsPub'[p].half = 2 /\ wsPub'[p].to = c
            /\ wsPub'[p].pc = "ws" /\ c \in wsPub'[p].todo
  PROVE  Locks'
<1>1. p \notin Connections /\ p # Free /\ c # p /\ c # Free
  BY Actors DEF Actor
<1>2. cl[c].half # 2
  BY <1>1 DEF Locks, HoldsOwn
<1>3. HoldsOwn(c)' /\ LockIsHeld(c)'
  BY <1>1, <1>2, Actors DEF HoldsOwn, LockIsHeld, Actor
<1>4. ASSUME NEW d \in Connections \ {c} PROVE HoldsOwn(d)' /\ LockIsHeld(d)'
  <2>1. HoldsOwn(d) /\ LockIsHeld(d)
    BY DEF Locks
  <2>2. lock[d] # p
    BY <2>1 DEF LockIsHeld
  <2> QED BY <2>1, <2>2 DEF HoldsOwn, LockIsHeld
<1>5. HoldsTheirs(p)'
  BY <1>1 DEF HoldsTheirs
<1>6. ASSUME NEW q \in Publishers \ {p} PROVE HoldsTheirs(q)'
  <2>1. HoldsTheirs(q) /\ wsPub[q] \in FramePub
    BY DEF Locks, FrameTypes
  <2>2. wsPub[q].half = 2 => wsPub[q].to # c /\ wsPub[q].to \in Connections
    BY <2>1, Actors DEF HoldsTheirs, FramePub, Actor
  <2> QED BY <2>1, <2>2 DEF HoldsTheirs
<1> QED BY <1>3, <1>4, <1>5, <1>6 DEF Locks

(* Half a frame of a broadcast: x and y are what it leaves of the client and *)
(* of the broadcast.                                                        *)
Down(c) == cl[c].closed \/ c \in broken
Ends(p, c) == Down(c) \/ wsPub[p].half = 2

LEMMA FrameWrite ==
  ASSUME FrameInv, NEW p \in Publishers, wsPub[p].pc = "ws", NEW h, h = wsPub[p].half,
         NEW c \in (IF wsPub[p].to = Free THEN wsPub[p].todo ELSE {wsPub[p].to}), ~(cl[c].closed /\ h = 1),
         Frames!WriteHalf(p, c, wsPub[p].ev, h),
         NEW x \in Client, cl' = [cl EXCEPT ![c] = x],
         x.pc = cl[c].pc, x.since = cl[c].since, x.lost = cl[c].lost, x.half = cl[c].half, x.todo = cl[c].todo,
         x.closed = Down(c),
         NEW y \in FramePub, wsPub' = [wsPub EXCEPT ![p] = y], y.pc = "ws", y.ev = wsPub[p].ev,
         Ends(p, c) => y.half = 1 /\ y.to = Free /\ y.todo = wsPub[p].todo \ {c},
         ~Ends(p, c) => y.half = 2 /\ y.to = c /\ y.todo = wsPub[p].todo,
         y.dead = (IF Down(c) THEN wsPub[p].dead \cup {c} ELSE wsPub[p].dead),
         UNCHANGED <<wsLog, wsSeq, clients, broken, ponged>>
  PROVE  FrameInv'
<1> DEFINE ev == wsPub[p].ev
<1>0. FrameTypes /\ Locks /\ Wires /\ Lists /\ Getting
  BY DEF FrameInv
<1>1. c \in Connections /\ c \in wsPub[p].todo /\ (h = 2 => wsPub[p].to = c /\ lock[c] = p)
  BY <1>0, SendsTo
<1>2. cl[c] \in Client /\ wsPub[p] \in FramePub /\ h \in {1, 2} /\ ev \in Nat
  BY <1>0, <1>1 DEF FrameTypes, FramePub
<1>6. /\ cl'[c] = x /\ (\A d \in Connections \ {c} : cl'[d] = cl[d]) /\ cl' \in [Connections -> Client]
      /\ wsPub'[p] = y /\ (\A q \in Publishers \ {p} : wsPub'[q] = wsPub[q])
      /\ wsPub' \in [Publishers -> FramePub]
  BY <1>0, <1>1 DEF FrameTypes
<1>7. \A d \in Connections : /\ cl'[d].half = cl[d].half /\ cl'[d].pc = cl[d].pc /\ cl'[d].todo = cl[d].todo
                             /\ cl'[d].since = cl[d].since /\ cl'[d].lost = cl[d].lost
  BY <1>6
<1>8. p \in Actor /\ p # c /\ p # Free
  BY <1>1, Actors DEF Actor
<1>9. /\ lock[c] \in {Free, p} /\ \A d \in Connections \ {c} : lock'[d] = lock[d]
      /\ c \notin broken => lock'[c] = (IF h = 1 THEN p ELSE Free)
  BY <1>0, <1>1, <1>8, LockAfter
<1>10. \A d \in Connections \ {c} : lock[d] # Free => Writes(d)' = Writes(d)
  <2> SUFFICES ASSUME NEW d \in Connections \ {c}, lock[d] # Free PROVE Writes(d)' = Writes(d)
    OBVIOUS
  <2>1. lock[d] \in Actor
    BY <1>0 DEF FrameTypes
  <2>2. (lock[d] \in Connections => lock[d] = d) /\ (lock[d] = p => h = 2 /\ wsPub[p].to = d)
    BY <1>0 DEF Locks, LockIsHeld
  <2>3. lock[d] # p
    BY <2>2, <1>1
  <2> QED BY <2>1, <2>2, <2>3, <1>6, <1>9 DEF Writes, Actor
<1>11. \A d \in Connections : Fine(d)' => Fine(d)
  BY <1>6 DEF Fine, Down
<1>12. Lists'
  <2>1. \A d \in Connections : Listed(d)'
    <3> SUFFICES ASSUME NEW d \in Connections PROVE Listed(d)'
      OBVIOUS
    <3>1. Listed(d) /\ (cl[d].pc = "none" => (Fine(d) => Fine(d)'))
      <4>1. Listed(d)
        BY <1>0 DEF Lists
      <4>2. Fine(c) => Fine(c)'
        BY <1>6 DEF Fine, Down
      <4>3. d # c => (Fine(d) => Fine(d)')
        BY <1>6 DEF Fine
      <4> QED BY <4>1, <4>2, <4>3
    <3> QED BY <3>1, <1>7, <1>11 DEF Listed
  <2>2. \A q \in Publishers : \A d \in wsPub[q].dead : d \in Connections /\ ~Fine(d)
    BY <1>0 DEF FrameTypes, FramePub, Lists
  <2>3. \A d \in y.dead : ~Fine(d)'
    <3>1. Down(c) => ~Fine(c)
      BY DEF Fine, Down
    <3> QED BY <3>1, <2>2, <1>1, <1>11
  <2> QED BY <2>1, <2>2, <2>3, <1>6, <1>11 DEF Lists
<1>14. \A d \in Connections \ {c} : \A e : GetsEvent(d, e) /\ wire'[d] = wire[d] => GetsEvent(d, e)'
  <2> SUFFICES ASSUME NEW d \in Connections \ {c}, NEW e, GetsEvent(d, e), wire'[d] = wire[d] PROVE GetsEvent(d, e)'
    OBVIOUS
  <2>1. (e \in InWire(d) => e \in InWire(d)') /\ (Replays(d, e) => Replays(d, e)')
    BY <1>6 DEF InWire, Replays
  <2>2. \A q \in Publishers : BringsTo(q, d, e) => BringsTo(q, d, e)'
    BY <1>6 DEF BringsTo
  <2> QED BY <2>1, <2>2 DEF GetsEvent
<1>15. CASE c \notin broken
  <2>0. (h = 1 => ~Ends(p, c)) /\ (h = 2 => Ends(p, c))
    BY <1>15 DEF Ends, Down
  <2>1. h = 1 => lock[c] = Free
    <3>1. lock[c] = p => wsPub[p].half = 2
      BY <1>0, <1>1 DEF Locks, LockIsHeld
    <3> QED BY <3>1, <1>9
  <2>2. h = 1 => ev = Writes(c)'
    BY <1>6, <1>8, <1>9, <1>15 DEF Writes
  <2>3. h = 2 => lock[c] = p /\ ev = Writes(c)
    BY <1>1, <1>8 DEF Writes
  <2>4. /\ wire' \in [Connections -> Seq(HalfFrame)] /\ lock' \in [Connections -> Actor \cup {Free}]
        /\ InWire(c)' = InWire(c) \cup {ev}
        /\ \A d \in Connections \ {c} : wire'[d] = wire[d]
        /\ Wires'
    <3> HIDE DEF ev
    <3>1. Frames!WriteHalf(p, c, ev, h)
      BY DEF ev
    <3> QED BY <3>1, <2>1, <2>2, <2>3, <1>0, <1>1, <1>2, <1>8, <1>10, <1>15, HalfGoesOut
  <2>5. FrameTypes'
    BY <1>0, <1>6, <2>4 DEF FrameTypes
  <2>6. Locks'
    <3>1. \/ lock'[c] = Free /\ wsPub'[p].half = 1 /\ wsPub'[p].to = Free
          \/ /\ lock'[c] = p /\ wsPub'[p].half = 2 /\ wsPub'[p].to = c
             /\ wsPub'[p].pc = "ws" /\ c \in wsPub'[p].todo
      <4>1. CASE h = 1
        <5>1. lock'[c] = p /\ y.half = 2 /\ y.to = c /\ y.pc = "ws" /\ y.todo = wsPub[p].todo
          BY <4>1, <2>0, <1>9, <1>15
        <5> QED BY <5>1, <1>1, <1>6
      <4>2. CASE h = 2
        <5>1. lock'[c] = Free /\ y.half = 1 /\ y.to = Free
          BY <4>2, <2>0, <1>9, <1>15
        <5> QED BY <5>1, <1>6
      <4> QED BY <4>1, <4>2, <1>2
    <3>2. wsPub[p].half = 2 => wsPub[p].to = c
      BY <1>1
    <3> QED BY <3>1, <3>2, <1>0, <1>1, <1>6, <1>7, <1>9, TheirLocks
  <2>7. Getting'
    <3>1. ASSUME NEW e, GetsEvent(c, e) PROVE GetsEvent(c, e)'
      <4>1. (e \in InWire(c) => e \in InWire(c)') /\ (Replays(c, e) => Replays(c, e)')
        BY <2>4, <1>7 DEF Replays
      <4>2. \A q \in Publishers \ {p} : BringsTo(q, c, e) => BringsTo(q, c, e)'
        BY <1>6 DEF BringsTo
      <4>3. BringsTo(p, c, e) => e = ev
        BY DEF BringsTo
      <4>4. BringsTo(p, c, e) => e \in InWire(c)'
        BY <4>3, <2>4
      <4> QED BY <4>1, <4>2, <4>4, <3>1 DEF GetsEvent
    <3>2. \A d \in Connections : \A e : GetsEvent(d, e) => GetsEvent(d, e)'
      BY <3>1, <2>4, <1>14
    <3> QED BY <3>2, <1>0, <1>7, <1>11 DEF Getting, Expects
  <2> QED BY <2>4, <2>5, <2>6, <2>7, <1>12 DEF FrameInv
<1>16. CASE c \in broken
  <2>0. Ends(p, c)
    BY <1>16 DEF Ends, Down
  <2>1. /\ wire' = wire /\ lock' \in [Connections -> Actor \cup {Free}] /\ lock'[c] = Free
        /\ Wires'
    <3> HIDE DEF ev
    <3>1. Frames!WriteHalf(p, c, ev, h)
      BY DEF ev
    <3> QED BY <3>1, <1>0, <1>1, <1>2, <1>8, <1>10, <1>16, HalfFails
  <2>2. FrameTypes'
    BY <1>0, <1>6, <2>1 DEF FrameTypes
  <2>3. Locks'
    <3>1. lock'[c] = Free /\ wsPub'[p].half = 1 /\ wsPub'[p].to = Free
      BY <2>0, <2>1, <1>6
    <3>2. wsPub[p].half = 2 => wsPub[p].to = c
      BY <1>1
    <3> QED BY <3>1, <3>2, <1>0, <1>1, <1>6, <1>7, <1>9, TheirLocks
  <2>4. Getting'
    <3>1. ~Fine(c)'
      BY <1>16 DEF Fine
    <3>2. \A d \in Connections \ {c} : \A e : GetsEvent(d, e) => GetsEvent(d, e)'
      BY <2>1, <1>14
    <3> QED BY <3>1, <3>2, <1>0, <1>7, <1>11 DEF Getting, Expects
  <2> QED BY <2>1, <2>2, <2>3, <2>4, <1>12 DEF FrameInv
<1> QED BY <1>15, <1>16

LEMMA FrameSend ==
  ASSUME FrameInv, NEW p \in Publishers, Frames!SendWs(p)
  PROVE  FrameInv'
<1> DEFINE h == wsPub[p].half
<1>0. FrameTypes /\ Locks
  BY DEF FrameInv
<1>1. wsPub[p].pc = "ws"
  BY DEF Frames!SendWs
<1>2. PICK c \in (IF wsPub[p].to = Free THEN wsPub[p].todo ELSE {wsPub[p].to}) :
        /\ IF cl[c].closed /\ h = 1
             THEN UNCHANGED <<wire, lock, cl>>
             ELSE /\ Frames!WriteHalf(p, c, wsPub[p].ev, h)
                  /\ cl' = [cl EXCEPT ![c].closed = @ \/ c \in broken]
        /\ wsPub' = [wsPub EXCEPT
             ![p].half = IF cl[c].closed \/ c \in broken \/ h = 2 THEN 1 ELSE 2,
             ![p].to = IF cl[c].closed \/ c \in broken \/ h = 2 THEN Free ELSE c,
             ![p].todo = IF cl[c].closed \/ c \in broken \/ h = 2 THEN @ \ {c} ELSE @,
             ![p].dead = IF cl[c].closed \/ c \in broken THEN @ \cup {c} ELSE @]
  BY DEF Frames!SendWs
<1>3. UNCHANGED <<wsLog, wsSeq, clients, broken, ponged>>
  BY DEF Frames!SendWs
<1>4. c \in Connections /\ c \in wsPub[p].todo
  BY <1>0, <1>1, SendsTo
<1> DEFINE h2 == IF Ends(p, c) THEN 1 ELSE 2
           c2 == IF Ends(p, c) THEN Free ELSE c
           t2 == IF Ends(p, c) THEN wsPub[p].todo \ {c} ELSE wsPub[p].todo
           d2 == IF Down(c) THEN wsPub[p].dead \cup {c} ELSE wsPub[p].dead
           b == Down(c)
           x == [cl[c] EXCEPT !.closed = b]
           y == [wsPub[p] EXCEPT !.half = h2, !.to = c2, !.todo = t2, !.dead = d2]
<1>5. cl \in [Connections -> Client] /\ wsPub \in [Publishers -> FramePub] /\ cl[c] \in Client /\ wsPub[p] \in FramePub
  BY <1>0, <1>4 DEF FrameTypes
<1>6. wsPub' = [wsPub EXCEPT ![p] = y]
  BY <1>2, <1>5 DEF Ends, Down
<1>7. h2 \in {1, 2} /\ c2 \in Connections \cup {Free} /\ t2 \subseteq Connections /\ d2 \subseteq Connections /\ b \in BOOLEAN
  BY <1>4, <1>5 DEF FramePub, Client, Down
<1>8. cl' = [cl EXCEPT ![c] = x] \/ UNCHANGED <<wire, lock, cl>>
  BY <1>2, <1>4, <1>5 DEF Down
<1>9. CASE cl[c].closed /\ h = 1
  <2>1. wsPub' = [wsPub EXCEPT ![p].half = 1, ![p].to = Free, ![p].todo = @ \ {c}, ![p].dead = @ \cup {c}]
    BY <1>2, <1>9
  <2>2. UNCHANGED <<wire, lock, cl>>
    BY <1>2, <1>9
  <2> QED BY <2>1, <2>2, <1>1, <1>3, <1>4, <1>9, FrameSkip
<1>10. CASE ~(cl[c].closed /\ h = 1)
  <2>1. Frames!WriteHalf(p, c, wsPub[p].ev, h) /\ cl' = [cl EXCEPT ![c] = x]
    BY <1>2, <1>4, <1>5, <1>10 DEF Down
  <2> HIDE DEF h2, c2, t2, d2, b
  <2>2. /\ x \in Client /\ x.pc = cl[c].pc /\ x.since = cl[c].since /\ x.lost = cl[c].lost /\ x.half = cl[c].half
        /\ x.todo = cl[c].todo /\ x.closed = b
    BY <1>5, <1>7 DEF Client
  <2>3. /\ y \in FramePub /\ y.pc = "ws" /\ y.ev = wsPub[p].ev /\ y.half = h2 /\ y.to = c2 /\ y.todo = t2
        /\ y.dead = d2
    BY <1>1, <1>5, <1>7 DEF FramePub
  <2> HIDE DEF x, y
  <2>4. x.closed = Down(c) /\ y.dead = (IF Down(c) THEN wsPub[p].dead \cup {c} ELSE wsPub[p].dead)
    BY <2>2, <2>3 DEF b, d2
  <2>5. /\ Ends(p, c) => y.half = 1 /\ y.to = Free /\ y.todo = wsPub[p].todo \ {c}
        /\ ~Ends(p, c) => y.half = 2 /\ y.to = c /\ y.todo = wsPub[p].todo
    BY <2>3 DEF h2, c2, t2
  <2> QED BY <2>1, <2>2, <2>3, <2>4, <2>5, <1>1, <1>3, <1>6, <1>10, FrameWrite
<1> QED BY <1>9, <1>10

LEMMA FrameStep == FrameInv /\ (Frames!Next \/ UNCHANGED wsVars) => FrameInv'
<1> SUFFICES ASSUME FrameInv, Frames!Next \/ UNCHANGED wsVars PROVE FrameInv'
  OBVIOUS
<1>1. CASE UNCHANGED <<wsLog, wsSeq, clients, cl, wire, broken, lock, ponged, wsPub>>
  <2>0. FrameTypes /\ Locks /\ Wires /\ Lists /\ Getting
    BY DEF FrameInv
  <2>1. FrameTypes'
    BY <1>1, <2>0 DEF FrameTypes
  <2>2. Locks'
    BY <1>1, <2>0 DEF Locks, HoldsOwn, HoldsTheirs, LockIsHeld
  <2>3. Wires'
    BY <1>1, <2>0 DEF Wires, WholeAt, EndAt, Writes
  <2>4. Lists'
    BY <1>1, <2>0 DEF Lists, Listed, Fine
  <2>5. Getting'
    BY <1>1, <2>0 DEF Getting, Expects, Fine, GetsEvent, Replays, BringsTo, InWire
  <2> QED BY <2>1, <2>2, <2>3, <2>4, <2>5 DEF FrameInv
<1>2. CASE UNCHANGED wsVars
  BY <1>1, <1>2 DEF wsVars
<1>3. ASSUME NEW j \in jobs, Frames!Deliver(j) PROVE FrameInv'
  BY <1>1, <1>3 DEF Frames!Deliver, Frames!clientVars
<1>4. CASE Frames!Next
  BY <1>4, <1>3, FrameJoin, FrameSnapshot, FrameReplay, FramePong, FrameLeave, FrameBreak,
     FramePublish, FrameAppend, FrameList, FrameSend, FrameEnd DEF Frames!Next
<1> QED BY <1>2, <1>4

LEMMA FramesFollow == FrameInv => Frames!FramesStayWhole /\ Frames!ReconnectMissesNone
<1> SUFFICES ASSUME FrameInv PROVE Frames!FramesStayWhole /\ Frames!ReconnectMissesNone
  OBVIOUS
<1>1. Frames!FramesStayWhole
  BY DEF Frames!FramesStayWhole, FrameInv, Wires, WholeAt
<1>2. ASSUME NEW c \in Connections, cl[c].pc = "loop", cl[c].since # Never, ~cl[c].closed, c \notin broken,
             \A p \in Publishers : wsPub[p].pc = "idle", NEW e \in 1 .. wsSeq, e > cl[c].since, e \notin cl[c].lost
      PROVE  e \in Frames!Reached(c)
  <2>1. GetsEvent(c, e)
    BY <1>2 DEF FrameInv, Getting, Fine, Expects
  <2>2. e \in InWire(c)
    BY <2>1, <1>2 DEF GetsEvent, Replays, BringsTo
  <2> QED BY <2>2 DEF InWire, Frames!Reached
<1>3. Frames!ReconnectMissesNone
  BY <1>2 DEF Frames!ReconnectMissesNone
<1> QED BY <1>1, <1>3

-----------------------------------------------------------------------------
(* HTTP/2, for any requests, however their frames are mixed and read.       *)
PlacesIn(q, s) == {q[i].place : i \in {j \in DOMAIN q : q[j].stream = s}}
InTurn(q) ==
  \A i, j \in DOMAIN q : i < j /\ q[i].stream = q[j].stream /\ q[i].stream # 0 => q[i].place < q[j].place
Before(q, r) ==
  \A i \in DOMAIN q, j \in DOMAIN r : q[i].stream = r[j].stream /\ q[i].stream # 0 => q[i].place < r[j].place

H2Types ==
  /\ kind \in [Requests -> {"plain", "large", "sse", "bad"}]
  /\ client \in [Requests -> {"none", "open", "ended"}] /\ size \in [Requests -> 0 .. MaxData]
  /\ events \in Seq(H2!Frame) /\ bytes \in Seq(H2!Frame)
  /\ pc2 \in {"recv", "event", "serving", "closed"}
  /\ streams2 \in [Requests -> 0 .. MaxData] /\ \A s \in Requests : streams2[s] <= size[s]
  /\ \A s \in Requests : client[s] = "none" => size[s] = 0
  /\ known \subseteq Requests /\ reset \subseteq Requests /\ taken \subseteq Requests
  /\ out \in Seq(H2!Reply) /\ got2 \in Seq(H2!Reply)
  /\ pc2 = "recv" => events = <<>> /\ out = <<>>

(* A frame that was not taken is of a request that got that far.            *)
Fits(f) ==
  /\ f.stream = 0 <=> f.type = "away"
  /\ f.stream # 0 =>
       /\ client[f.stream] # "none"
       /\ f.type = "headers" => f.place = 0
       /\ f.type = "data" => f.place \in streams2[f.stream] + 1 .. size[f.stream]
       /\ f.type = "end" => client[f.stream] = "ended" /\ f.place = size[f.stream] + 1
FramesFit ==
  /\ \A i \in DOMAIN events : Fits(events[i])
  /\ \A i \in DOMAIN bytes : Fits(bytes[i])
  /\ InTurn(events) /\ InTurn(bytes) /\ Before(events, bytes)

(* Of a request that was not reset, just the frames behind those that were  *)
(* taken are under way.                                                     *)
NextOf(s) == IF s \in known THEN streams2[s] + 1 ELSE IF s \in taken THEN size[s] + 2 ELSE 0
LastOf(s) == IF client[s] = "none" THEN 0 - 1 ELSE IF client[s] = "open" THEN size[s] ELSE size[s] + 1
UnderWay(s) ==
  /\ PlacesIn(events, s) \cup PlacesIn(bytes, s) = NextOf(s) .. LastOf(s)
  /\ s \in known => client[s] # "none" /\ s \notin taken
  /\ s \in taken => client[s] = "ended"
AllUnderWay == \A s \in Requests \ reset : UnderWay(s)

(* What was sent, and what is sent next.                                    *)
Sent == got2 \o out
Whole(r) ==
  r.type # "reset" => r.stream \in taken \ reset /\ client[r.stream] = "ended" /\ r.of = size[r.stream]
SentOnce ==
  \A i, j \in DOMAIN Sent : Sent[i].type # "reset" /\ Sent[j].type # "reset" /\ Sent[i].stream = Sent[j].stream => i = j
Answered ==
  /\ \A i \in DOMAIN Sent : Whole(Sent[i])
  /\ SentOnce
  /\ \A s \in taken \ reset : pc2 \in {"serving", "closed"} \/ \E i \in DOMAIN Sent : Sent[i].stream = s

H2Inv == H2Types /\ FramesFit /\ AllUnderWay /\ Answered

LEMMA H2Requests == 0 \notin Requests /\ Requests \subseteq Nat /\ MaxData \in Nat
BY FollowAssumption

(* ----------------------------- two queues ------------------------------- *)

LEMMA TakeFirst ==
  ASSUME NEW q \in Seq(H2!Frame), q # <<>>, InTurn(q)
  PROVE  /\ Tail(q) \in Seq(H2!Frame) /\ Head(q) \in H2!Frame /\ 1 \in DOMAIN q /\ Head(q) = q[1]
         /\ \A i \in DOMAIN Tail(q) : i + 1 \in DOMAIN q /\ Tail(q)[i] = q[i + 1]
         /\ InTurn(Tail(q)) /\ \A r : Before(q, r) => Before(Tail(q), r)
         /\ \A s : s # Head(q).stream => PlacesIn(Tail(q), s) = PlacesIn(q, s)
         /\ Head(q).stream # 0 => /\ PlacesIn(Tail(q), Head(q).stream) = PlacesIn(q, Head(q).stream) \ {Head(q).place}
                                  /\ Head(q).place \in PlacesIn(q, Head(q).stream)
                                  /\ \A p \in PlacesIn(Tail(q), Head(q).stream) : Head(q).place < p
<1> DEFINE t == Tail(q)
           f == Head(q)
<1>1. /\ t \in Seq(H2!Frame) /\ f \in H2!Frame /\ f = q[1] /\ Len(q) \in Nat /\ Len(q) >= 1 /\ Len(t) = Len(q) - 1
      /\ DOMAIN q = 1 .. Len(q) /\ DOMAIN t = 1 .. Len(t) /\ \A i \in 1 .. Len(t) : t[i] = q[i + 1]
  OBVIOUS
<1> HIDE DEF t, f
<1>2. \A i \in DOMAIN t : i \in Nat /\ i + 1 \in DOMAIN q /\ t[i] = q[i + 1] /\ 1 < i + 1
  BY <1>1
<1>3. \A i \in DOMAIN q : i # 1 => i - 1 \in DOMAIN t /\ t[i - 1] = q[i]
  BY <1>1
<1>4. InTurn(t)
  <2> SUFFICES ASSUME NEW i \in DOMAIN t, NEW j \in DOMAIN t, i < j, t[i].stream = t[j].stream, t[i].stream # 0
               PROVE  t[i].place < t[j].place
    BY DEF InTurn
  <2>1. i + 1 < j + 1
    BY <1>2
  <2> QED BY <2>1, <1>2 DEF InTurn
<1>5. \A r : Before(q, r) => Before(t, r)
  BY <1>2 DEF Before
<1>6. \A s : s # f.stream => PlacesIn(t, s) = PlacesIn(q, s)
  <2> SUFFICES ASSUME NEW s, s # f.stream PROVE PlacesIn(t, s) = PlacesIn(q, s)
    OBVIOUS
  <2>1. PlacesIn(t, s) \subseteq PlacesIn(q, s)
    BY <1>2 DEF PlacesIn
  <2>2. PlacesIn(q, s) \subseteq PlacesIn(t, s)
    BY <1>1, <1>3 DEF PlacesIn
  <2> QED BY <2>1, <2>2
<1>7. ASSUME f.stream # 0
      PROVE  /\ PlacesIn(t, f.stream) = PlacesIn(q, f.stream) \ {f.place} /\ f.place \in PlacesIn(q, f.stream)
             /\ \A p \in PlacesIn(t, f.stream) : f.place < p
  <2>1. f.place \in PlacesIn(q, f.stream)
    BY <1>1 DEF PlacesIn
  <2>2. ASSUME NEW i \in DOMAIN t, t[i].stream = f.stream PROVE f.place < t[i].place
    BY <2>2, <1>1, <1>2, <1>7 DEF InTurn
  <2>3. \A p \in PlacesIn(t, f.stream) : f.place < p
    BY <2>2 DEF PlacesIn
  <2>4. PlacesIn(t, f.stream) \subseteq PlacesIn(q, f.stream)
    BY <1>2 DEF PlacesIn
  <2>5. f.place \notin PlacesIn(t, f.stream)
    <3>1. f.place \in Nat
      BY <1>1, H2Requests DEF H2!Frame
    <3> QED BY <2>3, <3>1
  <2>6. PlacesIn(q, f.stream) \subseteq PlacesIn(t, f.stream) \cup {f.place}
    BY <1>1, <1>3 DEF PlacesIn
  <2> QED BY <2>1, <2>3, <2>4, <2>5, <2>6
<1>8. 1 \in DOMAIN q
  BY <1>1
<1> QED BY <1>1, <1>2, <1>4, <1>5, <1>6, <1>7, <1>8 DEF t, f

LEMMA PutLast ==
  ASSUME NEW q \in Seq(H2!Frame), NEW e \in Seq(H2!Frame), NEW f \in H2!Frame, InTurn(q), Before(e, q),
         f.stream # 0 => \A p \in PlacesIn(q, f.stream) \cup PlacesIn(e, f.stream) : p < f.place
  PROVE  /\ Append(q, f) \in Seq(H2!Frame) /\ InTurn(Append(q, f)) /\ Before(e, Append(q, f))
         /\ \A i \in DOMAIN Append(q, f) : (i \in DOMAIN q /\ Append(q, f)[i] = q[i]) \/ Append(q, f)[i] = f
         /\ \A s : PlacesIn(Append(q, f), s) = IF s = f.stream THEN PlacesIn(q, s) \cup {f.place} ELSE PlacesIn(q, s)
<1> DEFINE t == Append(q, f)
<1>1. /\ t \in Seq(H2!Frame) /\ Len(q) \in Nat /\ DOMAIN q = 1 .. Len(q) /\ DOMAIN t = 1 .. Len(q) + 1
      /\ t[Len(q) + 1] = f /\ \A i \in 1 .. Len(q) : t[i] = q[i]
  OBVIOUS
<1> HIDE DEF t
<1>2. \A i \in DOMAIN t : (i \in DOMAIN q /\ t[i] = q[i]) \/ (i = Len(q) + 1 /\ t[i] = f)
  BY <1>1
<1>3. InTurn(t)
  <2> SUFFICES ASSUME NEW i \in DOMAIN t, NEW j \in DOMAIN t, i < j, t[i].stream = t[j].stream, t[i].stream # 0
               PROVE  t[i].place < t[j].place
    BY DEF InTurn
  <2>1. i \in DOMAIN q /\ t[i] = q[i]
    BY <1>1, <1>2
  <2>2. CASE j \in DOMAIN q /\ t[j] = q[j]
    BY <2>1, <2>2 DEF InTurn
  <2>3. CASE t[j] = f
    <3>1. q[i].place \in PlacesIn(q, f.stream)
      BY <2>1, <2>3 DEF PlacesIn
    <3> QED BY <3>1, <2>1, <2>3
  <2> QED BY <2>2, <2>3, <1>2
<1>4. Before(e, t)
  <2> SUFFICES ASSUME NEW i \in DOMAIN e, NEW j \in DOMAIN t, e[i].stream = t[j].stream, e[i].stream # 0
               PROVE  e[i].place < t[j].place
    BY DEF Before
  <2>1. CASE j \in DOMAIN q /\ t[j] = q[j]
    BY <2>1 DEF Before
  <2>2. CASE t[j] = f
    <3>1. e[i].place \in PlacesIn(e, f.stream)
      BY <2>2 DEF PlacesIn
    <3> QED BY <3>1, <2>2
  <2> QED BY <2>1, <2>2, <1>2
<1>5. ASSUME NEW s PROVE PlacesIn(t, s) = IF s = f.stream THEN PlacesIn(q, s) \cup {f.place} ELSE PlacesIn(q, s)
  <2>1. DOMAIN t = DOMAIN q \cup {Len(q) + 1}
    BY <1>1
  <2>2. \A i \in DOMAIN q : t[i] = q[i]
    BY <1>1
  <2> QED BY <2>1, <2>2, <1>1 DEF PlacesIn
<1> QED BY <1>1, <1>2, <1>3, <1>4, <1>5 DEF t

LEMMA H2Init == H2!Init => H2Inv
<1> SUFFICES ASSUME H2!Init PROVE H2Inv
  OBVIOUS
<1>1. /\ kind \in [Requests -> {"plain", "large", "sse", "bad"}] /\ client = [s \in Requests |-> "none"]
      /\ size = [s \in Requests |-> 0] /\ bytes = <<>> /\ pc2 = "recv" /\ events = <<>>
      /\ streams2 = [s \in Requests |-> 0] /\ known = {} /\ reset = {} /\ out = <<>> /\ got2 = <<>> /\ taken = {}
  BY DEF H2!Init
<1>2. H2Types
  BY <1>1, H2Requests DEF H2Types
<1>3. FramesFit
  BY <1>1 DEF FramesFit, InTurn, Before
<1>4. ASSUME NEW s \in Requests PROVE UnderWay(s)
  <2>1. PlacesIn(<<>>, s) = {}
    BY DEF PlacesIn
  <2>2. NextOf(s) = 0 /\ LastOf(s) = 0 - 1
    BY <1>1 DEF NextOf, LastOf
  <2> QED BY <2>1, <2>2, <1>1 DEF UnderWay
<1>5. Sent = <<>>
  BY <1>1 DEF Sent
<1>6. Answered
  BY <1>1, <1>5 DEF Answered, SentOnce
<1> QED BY <1>2, <1>3, <1>4, <1>6 DEF H2Inv, AllUnderWay

LEMMA FrameOf ==
  ASSUME H2Types
  PROVE  /\ DOMAIN events = 1 .. Len(events) /\ DOMAIN bytes = 1 .. Len(bytes)
         /\ \A i \in DOMAIN events : events[i] \in H2!Frame
         /\ \A i \in DOMAIN bytes : bytes[i] \in H2!Frame
BY DEF H2Types

(* ------------------------------ the client ------------------------------ *)

LEMMA RequestSays ==
  ASSUME H2Inv, NEW s \in Requests, NEW f \in H2!Frame, f.stream = s, bytes' = Append(bytes, f),
         UNCHANGED <<kind, events, pc2, streams2, known, reset, out, got2, taken>>,
         client' \in [Requests -> {"none", "open", "ended"}], size' \in [Requests -> 0 .. MaxData],
         \A d \in Requests \ {s} : client'[d] = client[d] /\ size'[d] = size[d],
         client[s] # "ended", client'[s] # "none", size[s] <= size'[s], client[s] = "none" => size'[s] = size[s],
         f.place = LastOf(s) + 1, LastOf(s)' = LastOf(s) + 1, f.type # "away",
         f.type = "headers" => f.place = 0,
         f.type = "data" => f.place = size'[s] /\ size'[s] = size[s] + 1,
         f.type = "end" => client'[s] = "ended" /\ f.place = size'[s] + 1
  PROVE  H2Inv'
<1>0. H2Types /\ FramesFit /\ AllUnderWay /\ Answered
  BY DEF H2Inv
<1>1. /\ s # 0 /\ MaxData \in Nat /\ size[s] \in 0 .. MaxData /\ size'[s] \in 0 .. MaxData /\ streams2[s] \in 0 .. MaxData
      /\ streams2[s] <= size[s] /\ client[s] \in {"none", "open"} /\ LastOf(s) \in Int
      /\ events \in Seq(H2!Frame) /\ bytes \in Seq(H2!Frame)
  BY <1>0, H2Requests DEF H2Types, LastOf
<1>2. ASSUME NEW g \in H2!Frame, Fits(g), g.stream = s PROVE g.place <= LastOf(s)
  <2>1. client[s] = "open" /\ g.type \in {"headers", "data", "end", "away"}
    BY <1>1, <1>2 DEF Fits, H2!Frame
  <2> QED BY <2>1, <1>1, <1>2 DEF Fits, LastOf
<1>3. \A p \in PlacesIn(bytes, s) \cup PlacesIn(events, s) : p \in Nat /\ p < f.place
  <2>1. ASSUME NEW i \in DOMAIN bytes, bytes[i].stream = s PROVE bytes[i].place \in Nat /\ bytes[i].place < f.place
    <3>1. bytes[i] \in H2!Frame /\ Fits(bytes[i])
      BY <1>0, FrameOf DEF FramesFit
    <3>2. bytes[i].place \in Nat
      BY <3>1, <1>1 DEF H2!Frame
    <3> QED BY <3>1, <3>2, <2>1, <1>1, <1>2
  <2>2. ASSUME NEW i \in DOMAIN events, events[i].stream = s PROVE events[i].place \in Nat /\ events[i].place < f.place
    <3>1. events[i] \in H2!Frame /\ Fits(events[i])
      BY <1>0, FrameOf DEF FramesFit
    <3>2. events[i].place \in Nat
      BY <3>1, <1>1 DEF H2!Frame
    <3> QED BY <3>1, <3>2, <2>2, <1>1, <1>2
  <2> QED BY <2>1, <2>2 DEF PlacesIn
<1>4. /\ bytes' \in Seq(H2!Frame) /\ InTurn(bytes') /\ Before(events, bytes')
      /\ \A i \in DOMAIN bytes' : (i \in DOMAIN bytes /\ bytes'[i] = bytes[i]) \/ bytes'[i] = f
      /\ \A d : PlacesIn(bytes', d) = IF d = s THEN PlacesIn(bytes, d) \cup {f.place} ELSE PlacesIn(bytes, d)
  BY <1>0, <1>1, <1>3, PutLast DEF FramesFit
<1>5. H2Types'
  <2>1. \A d \in Requests : streams2[d] <= size'[d]
    <3>1. \A d \in Requests \ {s} : streams2[d] <= size'[d]
      BY <1>0 DEF H2Types
    <3> QED BY <3>1, <1>1
  <2>2. \A d \in Requests : client'[d] = "none" => size'[d] = 0
    BY <1>0 DEF H2Types
  <2> QED BY <2>1, <2>2, <1>0, <1>4 DEF H2Types
<1>6. ASSUME NEW g \in H2!Frame, Fits(g) PROVE Fits(g)'
  <2>1. CASE g.stream = s
    <3>1. client[s] = "open" /\ g.type \in {"headers", "data", "end", "away"}
      BY <1>1, <1>6, <2>1 DEF Fits, H2!Frame
    <3>2. g.type = "headers" => g.place = 0
      BY <1>1, <1>6, <2>1 DEF Fits
    <3>3. g.type = "data" => g.place \in streams2[s] + 1 .. size'[s]
      BY <1>1, <1>6, <2>1 DEF Fits
    <3>4. g.type # "end" /\ g.type # "away"
      BY <1>1, <1>6, <2>1, <3>1 DEF Fits
    <3> QED BY <2>1, <3>2, <3>3, <3>4, <1>1 DEF Fits
  <2>2. CASE g.stream # s
    <3>1. g.stream \in Requests \cup {0}
      BY DEF H2!Frame
    <3> QED BY <3>1, <2>2, <1>6 DEF Fits
  <2> QED BY <2>1, <2>2
<1>7. Fits(f)'
  BY <1>1 DEF Fits, H2!Frame
<1>8. FramesFit'
  <2>1. \A i \in DOMAIN events : Fits(events[i])'
    BY <1>0, <1>6, FrameOf DEF FramesFit
  <2>2. \A i \in DOMAIN bytes' : Fits(bytes[i])'
    BY <1>0, <1>4, <1>6, <1>7, FrameOf DEF FramesFit
  <2> QED BY <2>1, <2>2, <1>0, <1>4 DEF FramesFit
<1>9. AllUnderWay'
  <2> SUFFICES ASSUME NEW d \in Requests \ reset PROVE UnderWay(d)'
    BY DEF AllUnderWay
  <2>0. UnderWay(d)
    BY <1>0 DEF AllUnderWay
  <2>1. CASE d = s
    <3>1. s \notin taken
      BY <2>0, <2>1 DEF UnderWay
    <3>2. NextOf(s)' = NextOf(s)
      BY <3>1 DEF NextOf
    <3>3. NextOf(s) \in Int /\ NextOf(s) <= LastOf(s) + 1
      BY <2>0, <2>1, <3>1, <1>1 DEF UnderWay, NextOf, LastOf
    <3>4. (NextOf(s) .. LastOf(s)) \cup {LastOf(s) + 1} = NextOf(s) .. LastOf(s) + 1
      BY <3>3, <1>1
    <3>5. PlacesIn(events, s) \cup PlacesIn(bytes', s) = NextOf(s) .. LastOf(s) + 1
      BY <2>0, <2>1, <3>4, <1>4 DEF UnderWay
    <3> QED BY <2>0, <2>1, <3>1, <3>2, <3>5 DEF UnderWay
  <2>2. CASE d # s
    <3>1. NextOf(d)' = NextOf(d) /\ LastOf(d)' = LastOf(d)
      BY <2>2 DEF NextOf, LastOf
    <3> QED BY <2>0, <2>2, <3>1, <1>4 DEF UnderWay
  <2> QED BY <2>1, <2>2
<1>10. Answered'
  <2>1. Sent' = Sent
    BY DEF Sent
  <2>2. Sent \in Seq(H2!Reply) /\ \A i \in DOMAIN Sent : Sent[i].stream \in Requests
    <3>1. Sent \in Seq(H2!Reply)
      BY <1>0 DEF Sent, H2Types
    <3>2. \A i \in DOMAIN Sent : Sent[i] \in H2!Reply
      BY <3>1
    <3> QED BY <3>1, <3>2 DEF H2!Reply
  <2>w. \A r : r.stream \in Requests /\ Whole(r) => Whole(r)'
    <3> SUFFICES ASSUME NEW r, r.stream \in Requests, Whole(r) PROVE Whole(r)'
      OBVIOUS
    <3>1. CASE r.stream = s
      BY <3>1, <1>1 DEF Whole
    <3>2. CASE r.stream # s
      BY <3>2 DEF Whole
    <3> QED BY <3>1, <3>2
  <2>3. \A i \in DOMAIN Sent' : Whole(Sent[i])'
    <3> SUFFICES ASSUME NEW i \in DOMAIN Sent PROVE Whole(Sent[i])'
      BY <2>1
    <3>1. Sent[i].stream \in Requests /\ Whole(Sent[i])
      BY <1>0, <2>2 DEF Answered
    <3> QED BY <3>1, <2>1, <2>w
  <2>4. SentOnce'
    BY <1>0, <2>1 DEF Answered, SentOnce
  <2> QED BY <1>0, <2>1, <2>3, <2>4 DEF Answered
<1> QED BY <1>5, <1>8, <1>9, <1>10 DEF H2Inv

LEMMA H2Request ==
  ASSUME H2Inv, NEW s \in Requests, H2!Request(s)
  PROVE  H2Inv'
<1>0. H2Types
  BY DEF H2Inv
<1>1. /\ s # 0 /\ MaxData \in Nat /\ size \in [Requests -> 0 .. MaxData] /\ size[s] \in 0 .. MaxData
      /\ client \in [Requests -> {"none", "open", "ended"}]
  BY <1>0, H2Requests DEF H2Types
<1>2. UNCHANGED <<kind, events, pc2, streams2, known, reset, out, got2, taken>>
  BY DEF H2!Request, H2!state
<1>3. CASE client[s] = "none" /\ client' = [client EXCEPT ![s] = "open"] /\ H2!Say(s, "headers", 0) /\ UNCHANGED size
  <2> DEFINE f == [stream |-> s, type |-> "headers", place |-> 0]
  <2>1. f \in H2!Frame /\ f.stream = s /\ f.type = "headers" /\ f.place = 0
    BY <1>1 DEF H2!Frame
  <2>2. bytes' = Append(bytes, f)
    BY <1>3 DEF H2!Say
  <2> HIDE DEF f
  <2>3. client' \in [Requests -> {"none", "open", "ended"}] /\ client'[s] = "open" /\ \A d \in Requests \ {s} : client'[d] = client[d]
    BY <1>1, <1>3
  <2>4. LastOf(s) = 0 - 1 /\ LastOf(s)' = 0
    <3>1. LastOf(s) = 0 - 1
      BY <1>3 DEF LastOf
    <3>2. size'[s] = size[s] /\ size[s] = 0
      BY <1>0, <1>3 DEF H2Types
    <3>3. 0 - 1 # 0
      OBVIOUS
    <3> QED BY <3>1, <3>2, <2>3 DEF LastOf
  <2> QED BY <2>1, <2>2, <2>3, <2>4, <1>1, <1>2, <1>3, RequestSays
<1>4. CASE client[s] = "open" /\ size[s] < MaxData /\ size' = [size EXCEPT ![s] = @ + 1] /\ H2!Say(s, "data", size[s] + 1)
           /\ UNCHANGED client
  <2> DEFINE f == [stream |-> s, type |-> "data", place |-> size[s] + 1]
  <2>1. f \in H2!Frame /\ f.stream = s /\ f.type = "data" /\ f.place = size[s] + 1
    BY <1>1, <1>4 DEF H2!Frame
  <2>2. bytes' = Append(bytes, f)
    BY <1>4 DEF H2!Say
  <2> HIDE DEF f
  <2>3. size' \in [Requests -> 0 .. MaxData] /\ size'[s] = size[s] + 1 /\ \A d \in Requests \ {s} : size'[d] = size[d]
    BY <1>1, <1>4
  <2>4. LastOf(s) = size[s] /\ LastOf(s)' = size[s] + 1
    BY <1>4, <2>3 DEF LastOf
  <2> QED BY <2>1, <2>2, <2>3, <2>4, <1>1, <1>2, <1>4, RequestSays
<1>5. CASE client[s] = "open" /\ client' = [client EXCEPT ![s] = "ended"] /\ H2!Say(s, "end", size[s] + 1) /\ UNCHANGED size
  <2> DEFINE f == [stream |-> s, type |-> "end", place |-> size[s] + 1]
  <2>1. f \in H2!Frame /\ f.stream = s /\ f.type = "end" /\ f.place = size[s] + 1
    BY <1>1, <1>5 DEF H2!Frame
  <2>2. bytes' = Append(bytes, f)
    BY <1>5 DEF H2!Say
  <2> HIDE DEF f
  <2>3. client' \in [Requests -> {"none", "open", "ended"}] /\ client'[s] = "ended" /\ \A d \in Requests \ {s} : client'[d] = client[d]
    BY <1>1, <1>5
  <2>4. LastOf(s) = size[s] /\ LastOf(s)' = size[s] + 1
    BY <1>5, <2>3 DEF LastOf
  <2> QED BY <2>1, <2>2, <2>3, <2>4, <1>1, <1>2, <1>5, RequestSays
<1> QED BY <1>3, <1>4, <1>5 DEF H2!Request

LEMMA H2Away ==
  ASSUME H2Inv, H2!GoAway
  PROVE  H2Inv'
<1> DEFINE f == [stream |-> 0, type |-> "away", place |-> 0]
<1>0. H2Types /\ FramesFit /\ AllUnderWay /\ Answered
  BY DEF H2Inv
<1>1. bytes' = Append(bytes, f) /\ UNCHANGED <<kind, client, size, events, pc2, streams2, known, reset, out, got2, taken>>
  BY DEF H2!GoAway, H2!state, H2!Say
<1>2. f \in H2!Frame /\ f.stream = 0 /\ f.type = "away"
  BY H2Requests DEF H2!Frame
<1> HIDE DEF f
<1>3. /\ bytes' \in Seq(H2!Frame) /\ InTurn(bytes') /\ Before(events, bytes')
      /\ \A i \in DOMAIN bytes' : (i \in DOMAIN bytes /\ bytes'[i] = bytes[i]) \/ bytes'[i] = f
      /\ \A d : PlacesIn(bytes', d) = IF d = 0 THEN PlacesIn(bytes, d) \cup {f.place} ELSE PlacesIn(bytes, d)
  BY <1>0, <1>1, <1>2, PutLast DEF FramesFit, H2Types
<1>4. H2Types'
  BY <1>0, <1>1, <1>3 DEF H2Types
<1>5. \A g : Fits(g)' = Fits(g)
  BY <1>1 DEF Fits
<1>6. FramesFit'
  BY <1>0, <1>1, <1>2, <1>3, <1>5 DEF FramesFit, Fits
<1>7. ASSUME NEW s \in Requests \ reset PROVE UnderWay(s)'
  <2>1. NextOf(s)' = NextOf(s) /\ LastOf(s)' = LastOf(s) /\ PlacesIn(bytes', s) = PlacesIn(bytes, s)
    BY <1>1, <1>3, H2Requests DEF NextOf, LastOf
  <2> QED BY <2>1, <1>0, <1>1 DEF AllUnderWay, UnderWay
<1>8. Answered'
  BY <1>0, <1>1 DEF Answered, SentOnce, Sent, Whole
<1> QED BY <1>1, <1>4, <1>6, <1>7, <1>8 DEF H2Inv, AllUnderWay

(* ------------------------------ the thread ------------------------------ *)

(* What is read of the socket, without the frames of requests that were     *)
(* reset, and what is left there.                                           *)
LEMMA ReadSome ==
  ASSUME NEW q \in Seq(H2!Frame), NEW n \in 1 .. Len(q), NEW T, InTurn(q)
  PROVE  LET e == Pick(SubSeq(q, 1, n), T)
             a == SubSeq(q, n + 1, Len(q))
         IN /\ e \in Seq(H2!Frame) /\ a \in Seq(H2!Frame) /\ InTurn(e) /\ InTurn(a) /\ Before(e, a)
            /\ \A i \in DOMAIN e : \E k \in DOMAIN q : e[i] = q[k]
            /\ \A j \in DOMAIN a : \E k \in DOMAIN q : a[j] = q[k]
            /\ \A k \in DOMAIN q : q[k] \in T => (\E i \in DOMAIN e : e[i] = q[k]) \/ \E j \in DOMAIN a : a[j] = q[k]
<1> DEFINE b == SubSeq(q, 1, n)
           e == Pick(b, T)
           a == SubSeq(q, n + 1, Len(q))
<1>1. Len(q) \in Nat /\ DOMAIN q = 1 .. Len(q) /\ n \in Nat /\ n <= Len(q) /\ n >= 1
  OBVIOUS
<1>2. b \in Seq(H2!Frame) /\ Len(b) = n /\ \A i \in 1 .. n : b[i] = q[i]
  BY <1>1
<1>3. a \in Seq(H2!Frame) /\ Len(a) = Len(q) - n /\ DOMAIN a = 1 .. Len(a) /\ \A j \in 1 .. Len(a) : a[j] = q[n + j]
  <2>1. \A i \in n + 1 .. Len(q) : q[i] \in H2!Frame
    BY <1>1
  <2>2. /\ a \in Seq(H2!Frame) /\ Len(a) = IF n + 1 <= Len(q) THEN Len(q) - (n + 1) + 1 ELSE 0
        /\ \A j \in 1 .. Len(q) - (n + 1) + 1 : a[j] = q[n + 1 + j - 1]
    BY <1>1, <2>1, SubSeqProperties
  <2> HIDE DEF a
  <2>3. Len(a) = Len(q) - n
    BY <2>2, <1>1
  <2> QED BY <2>2, <2>3, <1>1
<1> HIDE DEF b, a
<1>4. e \in Seq(H2!Frame)
  BY <1>2, ElementsOfPick
<1>g. PICK g : PickedFrom(b, T, g)
  BY <1>2, PickHasPlaces
<1>5. /\ g \in [1 .. Len(e) -> 1 .. Len(b)]
      /\ \A k \in DOMAIN g : e[k] = b[g[k]] /\ b[g[k]] \in T
      /\ \A k, l \in DOMAIN g : k < l => g[k] < g[l]
      /\ \A i \in 1 .. Len(b) : b[i] \in T => \E k \in DOMAIN g : g[k] = i
  BY <1>g DEF PickedFrom
<1> HIDE DEF e
<1>6. DOMAIN e = 1 .. Len(e) /\ DOMAIN g = DOMAIN e
  BY <1>4, <1>5
<1>7. \A i \in DOMAIN e : g[i] \in DOMAIN q /\ g[i] <= n /\ e[i] = q[g[i]]
  BY <1>1, <1>2, <1>5, <1>6
<1>8. \A j \in DOMAIN a : j \in Nat /\ n + j \in DOMAIN q /\ n < n + j /\ a[j] = q[n + j]
  BY <1>1, <1>3
<1>9. \A k \in DOMAIN q : q[k] \in T => (\E i \in DOMAIN e : e[i] = q[k]) \/ \E j \in DOMAIN a : a[j] = q[k]
  <2> SUFFICES ASSUME NEW k \in DOMAIN q, q[k] \in T
               PROVE  (\E i \in DOMAIN e : e[i] = q[k]) \/ \E j \in DOMAIN a : a[j] = q[k]
    OBVIOUS
  <2>1. CASE k <= n
    <3>1. k \in 1 .. Len(b) /\ b[k] = q[k]
      BY <2>1, <1>1, <1>2
    <3>2. PICK i \in DOMAIN g : g[i] = k
      BY <3>1, <1>5
    <3> QED BY <3>2, <1>6, <1>7
  <2>2. CASE k > n
    <3>1. k - n \in DOMAIN a /\ n + (k - n) = k
      BY <2>2, <1>1, <1>3
    <3> QED BY <3>1, <1>8
  <2> QED BY <2>1, <2>2, <1>1
<1>10. InTurn(e)
  <2> SUFFICES ASSUME NEW i \in DOMAIN e, NEW j \in DOMAIN e, i < j, e[i].stream = e[j].stream, e[i].stream # 0
               PROVE  e[i].place < e[j].place
    BY DEF InTurn
  <2>1. g[i] < g[j] /\ e[i] = q[g[i]] /\ e[j] = q[g[j]] /\ g[i] \in DOMAIN q /\ g[j] \in DOMAIN q
    BY <1>5, <1>6, <1>7
  <2> QED BY <2>1 DEF InTurn
<1>11. InTurn(a)
  <2> SUFFICES ASSUME NEW i \in DOMAIN a, NEW j \in DOMAIN a, i < j, a[i].stream = a[j].stream, a[i].stream # 0
               PROVE  a[i].place < a[j].place
    BY DEF InTurn
  <2>1. n + i < n + j /\ a[i] = q[n + i] /\ a[j] = q[n + j] /\ n + i \in DOMAIN q /\ n + j \in DOMAIN q
    BY <1>1, <1>8
  <2> QED BY <2>1 DEF InTurn
<1>12. Before(e, a)
  <2> SUFFICES ASSUME NEW i \in DOMAIN e, NEW j \in DOMAIN a, e[i].stream = a[j].stream, e[i].stream # 0
               PROVE  e[i].place < a[j].place
    BY DEF Before
  <2>1. e[i] = q[g[i]] /\ a[j] = q[n + j] /\ g[i] \in DOMAIN q /\ n + j \in DOMAIN q
    BY <1>7, <1>8
  <2>2. g[i] < n + j
    BY <1>1, <1>7, <1>8
  <2> QED BY <2>1, <2>2 DEF InTurn
<1>13. \A i \in DOMAIN e : \E k \in DOMAIN q : e[i] = q[k]
  BY <1>7
<1>14. \A j \in DOMAIN a : \E k \in DOMAIN q : a[j] = q[k]
  BY <1>8
<1> QED BY <1>3, <1>4, <1>9, <1>10, <1>11, <1>12, <1>13, <1>14 DEF e, a, b

LEMMA H2Recv ==
  ASSUME H2Inv, H2!Recv
  PROVE  H2Inv'
<1>0. H2Types /\ FramesFit /\ AllUnderWay /\ Answered
  BY DEF H2Inv
<1> DEFINE T == {f \in H2!Frame : f.stream \notin reset}
<1>1. PICK n \in 1 .. Len(bytes) : events' = Pick(SubSeq(bytes, 1, n), T) /\ bytes' = SubSeq(bytes, n + 1, Len(bytes))
  BY DEF H2!Recv, H2!Reported, Pick, H2!Pick, PickedOf, H2!PickedOf
<1>2. /\ pc2 = "recv" /\ pc2' = "event"
      /\ UNCHANGED <<kind, client, size, streams2, known, reset, out, got2, taken>>
  BY DEF H2!Recv
<1>3. bytes \in Seq(H2!Frame) /\ InTurn(bytes) /\ events = <<>>
  BY <1>0, <1>2 DEF H2Types, FramesFit
<1> HIDE DEF T
<1>4. /\ events' \in Seq(H2!Frame) /\ bytes' \in Seq(H2!Frame) /\ InTurn(events') /\ InTurn(bytes') /\ Before(events', bytes')
      /\ \A i \in DOMAIN events' : \E k \in DOMAIN bytes : events'[i] = bytes[k]
      /\ \A j \in DOMAIN bytes' : \E k \in DOMAIN bytes : bytes'[j] = bytes[k]
      /\ \A k \in DOMAIN bytes : bytes[k] \in T =>
           (\E i \in DOMAIN events' : events'[i] = bytes[k]) \/ \E j \in DOMAIN bytes' : bytes'[j] = bytes[k]
  BY <1>1, <1>3, ReadSome
<1>5. H2Types'
  BY <1>0, <1>2, <1>4 DEF H2Types
<1>6. \A g : Fits(g)' = Fits(g)
  BY <1>2 DEF Fits
<1>7. FramesFit'
  BY <1>0, <1>4, <1>6 DEF FramesFit
<1>8. ASSUME NEW s \in Requests \ reset PROVE UnderWay(s)'
  <2>1. NextOf(s)' = NextOf(s) /\ LastOf(s)' = LastOf(s)
    BY <1>2 DEF NextOf, LastOf
  <2>2. PlacesIn(events, s) = {}
    BY <1>3 DEF PlacesIn
  <2>3. PlacesIn(events', s) \cup PlacesIn(bytes', s) \subseteq PlacesIn(bytes, s)
    BY <1>4 DEF PlacesIn
  <2>4. PlacesIn(bytes, s) \subseteq PlacesIn(events', s) \cup PlacesIn(bytes', s)
    <3> SUFFICES ASSUME NEW k \in DOMAIN bytes, bytes[k].stream = s
                 PROVE  bytes[k].place \in PlacesIn(events', s) \cup PlacesIn(bytes', s)
      BY DEF PlacesIn
    <3>1. bytes[k] \in T
      BY <1>0, FrameOf DEF T
    <3> QED BY <3>1, <1>4 DEF PlacesIn
  <2>5. PlacesIn(events', s) \cup PlacesIn(bytes', s) = PlacesIn(events, s) \cup PlacesIn(bytes, s)
    BY <2>2, <2>3, <2>4
  <2> QED BY <2>1, <2>5, <1>0, <1>2 DEF AllUnderWay, UnderWay
<1>9. Answered'
  <2>1. Sent' = Sent /\ \A r : Whole(r)' = Whole(r)
    BY <1>2 DEF Sent, Whole
  <2>2. SentOnce'
    BY <2>1, <1>0 DEF Answered, SentOnce
  <2>3. pc2 \notin {"serving", "closed"}
    BY <1>2
  <2> QED BY <2>1, <2>2, <2>3, <1>0, <1>2 DEF Answered
<1> QED BY <1>2, <1>5, <1>7, <1>8, <1>9 DEF H2Inv, AllUnderWay

LEMMA H2Flush ==
  ASSUME H2Inv, H2!Flush
  PROVE  H2Inv'
<1>0. H2Types /\ FramesFit /\ AllUnderWay /\ Answered
  BY DEF H2Inv
<1>1. /\ pc2 = "event" /\ events = <<>> /\ pc2' = "recv" /\ got2' = got2 \o out /\ out' = <<>>
      /\ UNCHANGED <<kind, client, size, bytes, events, streams2, known, reset, taken>>
  BY DEF H2!Flush
<1>2. got2 \in Seq(H2!Reply) /\ out \in Seq(H2!Reply)
  BY <1>0 DEF H2Types
<1>3. got2' \in Seq(H2!Reply) /\ out' \in Seq(H2!Reply)
  BY <1>1, <1>2
<1>4. Sent' = Sent
  <2>1. (got2 \o out) \o <<>> = got2 \o out
    BY <1>2, ConcatEmptySeq
  <2> QED BY <2>1, <1>1 DEF Sent
<1>5. H2Types'
  BY <1>0, <1>1, <1>3 DEF H2Types
<1>6. FramesFit'
  BY <1>0, <1>1 DEF FramesFit, Fits
<1>7. AllUnderWay'
  BY <1>0, <1>1 DEF AllUnderWay, UnderWay, NextOf, LastOf
<1>8. \A r : Whole(r)' = Whole(r)
  BY <1>1 DEF Whole
<1>9. SentOnce'
  BY <1>0, <1>4 DEF Answered, SentOnce
<1>10. Answered'
  BY <1>0, <1>1, <1>4, <1>8, <1>9 DEF Answered
<1> QED BY <1>5, <1>6, <1>7, <1>10 DEF H2Inv

(* The first event, of a request that was not reset, is the next of it.     *)
LEMMA FirstIsNext ==
  ASSUME H2Inv, events # <<>>, NEW f, f = Head(events), NEW s \in Requests \ reset, s = f.stream
  PROVE  /\ f.place = NextOf(s) /\ NextOf(s) \in Nat
         /\ PlacesIn(Tail(events), s) \cup PlacesIn(bytes, s) = NextOf(s) + 1 .. LastOf(s)
<1> DEFINE x == NextOf(s)
           y == LastOf(s)
<1>0. H2Types /\ FramesFit /\ UnderWay(s) /\ s # 0 /\ MaxData \in Nat
  BY H2Requests DEF H2Inv, AllUnderWay
<1>1. events \in Seq(H2!Frame) /\ InTurn(events) /\ Before(events, bytes)
  BY <1>0 DEF H2Types, FramesFit
<1>2. /\ f \in H2!Frame /\ PlacesIn(Tail(events), s) = PlacesIn(events, s) \ {f.place} /\ f.place \in PlacesIn(events, s)
      /\ \A p \in PlacesIn(Tail(events), s) : f.place < p
      /\ 1 \in DOMAIN events /\ f = events[1]
  BY <1>0, <1>1, TakeFirst
<1>3. f.place \in Nat
  BY <1>0, <1>2 DEF H2!Frame
<1>4. \A p \in PlacesIn(bytes, s) : f.place < p
  BY <1>0, <1>1, <1>2 DEF PlacesIn, Before
<1>5. x \in Nat /\ y \in Int
  BY <1>0 DEF NextOf, LastOf, H2Types
<1>6. PlacesIn(events, s) \cup PlacesIn(bytes, s) = x .. y
  BY <1>0 DEF UnderWay
<1> HIDE DEF x, y
<1>7. f.place \in x .. y /\ x \in x .. y
  <2>1. f.place \in x .. y
    BY <1>2, <1>6
  <2> QED BY <2>1, <1>3, <1>5
<1>8. f.place <= x
  <2>1. x \in PlacesIn(events, s) \cup PlacesIn(bytes, s)
    BY <1>6, <1>7
  <2>2. CASE x \in PlacesIn(bytes, s)
    BY <2>2, <1>3, <1>4, <1>5
  <2>3. CASE x \in PlacesIn(events, s)
    <3>1. x = f.place \/ x \in PlacesIn(Tail(events), s)
      BY <2>3, <1>2
    <3> QED BY <3>1, <1>2, <1>3, <1>5
  <2> QED BY <2>1, <2>2, <2>3
<1>9. f.place = x
  BY <1>3, <1>5, <1>7, <1>8
<1>10. f.place \notin PlacesIn(bytes, s)
  BY <1>3, <1>4
<1>11. PlacesIn(Tail(events), s) \cup PlacesIn(bytes, s) = (x .. y) \ {x}
  BY <1>2, <1>6, <1>9, <1>10
<1>12. (x .. y) \ {x} = x + 1 .. y
  BY <1>5
<1> QED BY <1>5, <1>9, <1>11, <1>12 DEF x, y

(* A step that takes an event: what is left of the frames.                  *)
LEMMA EventTaken ==
  ASSUME H2Inv, events # <<>>, NEW f, f = Head(events), events' = Tail(events), bytes' = bytes, UNCHANGED <<kind, client, size, got2>>,
         streams2' \in [Requests -> 0 .. MaxData], \A s \in Requests : streams2'[s] <= size[s],
         \A s \in Requests : s # f.stream => streams2'[s] = streams2[s],
         f.stream # 0 =>
           streams2'[f.stream] <= f.place \/
           streams2'[f.stream] <= streams2[f.stream],
         known' \subseteq Requests, reset' \subseteq Requests, taken' \subseteq Requests,
         pc2' \in {"event", "serving", "closed"}, out' \in Seq(H2!Reply), reset \subseteq reset',
         \A s \in Requests \ {f.stream} : (s \in known <=> s \in known') /\ (s \in taken <=> s \in taken')
  PROVE  /\ H2Types' /\ FramesFit'
         /\ \A s \in Requests \ reset : s # f.stream => UnderWay(s)'
<1>0. H2Types /\ FramesFit /\ AllUnderWay
  BY DEF H2Inv
<1>1. events \in Seq(H2!Frame) /\ InTurn(events) /\ Before(events, bytes)
  BY <1>0 DEF H2Types, FramesFit
<1>2. /\ events' \in Seq(H2!Frame) /\ f \in H2!Frame /\ InTurn(events') /\ Before(events', bytes')
      /\ \A i \in DOMAIN events' : i + 1 \in DOMAIN events /\ events'[i] = events[i + 1]
      /\ \A s : s # f.stream => PlacesIn(events', s) = PlacesIn(events, s)
      /\ f.stream # 0 => \A p \in PlacesIn(events', f.stream) : f.place < p
      /\ 1 \in DOMAIN events /\ f = events[1]
  BY <1>1, TakeFirst
<1>3. H2Types'
  BY <1>0, <1>2 DEF H2Types
<1>4. ASSUME NEW g \in H2!Frame, Fits(g), g.stream = f.stream => f.place < g.place \/ g.stream = 0
      PROVE  Fits(g)'
  <2>1. CASE g.stream # f.stream
    <3>1. g.stream # 0 => g.stream \in Requests
      BY DEF H2!Frame
    <3> QED BY <3>1, <2>1, <1>4 DEF Fits
  <2>2. CASE g.stream = f.stream /\ g.stream # 0
    <3>1. /\ g.stream \in Requests /\ f.place < g.place /\ g.place \in Nat /\ f.place \in Nat
          /\ streams2[g.stream] \in Nat /\ streams2'[g.stream] \in Nat /\ size[g.stream] \in Nat
      <4>1. g.stream \in Requests /\ g.place \in Nat /\ f.place \in Nat
        BY <2>2, <1>2, H2Requests DEF H2!Frame
      <4>2. streams2 \in [Requests -> 0 .. MaxData] /\ streams2' \in [Requests -> 0 .. MaxData] /\ size \in [Requests -> 0 .. MaxData]
        BY <1>0 DEF H2Types
      <4>3. streams2[g.stream] \in Nat /\ streams2'[g.stream] \in Nat /\ size[g.stream] \in Nat
        <5>1. \A n \in 0 .. MaxData : n \in Nat
          BY H2Requests
        <5>2. streams2[g.stream] \in 0 .. MaxData
          BY <4>1, <4>2
        <5>3. streams2'[g.stream] \in 0 .. MaxData
          BY <4>1, <4>2
        <5>4. size[g.stream] \in 0 .. MaxData
          BY <4>1, <4>2
        <5> QED BY <5>1, <5>2, <5>3, <5>4
      <4> QED BY <4>1, <4>3, <2>2, <1>4
    <3>2. g.type = "data" => g.place \in streams2'[g.stream] + 1 .. size[g.stream]
      BY <2>2, <3>1, <1>4 DEF Fits
    <3> QED BY <2>2, <3>2, <1>4 DEF Fits
  <2>3. CASE g.stream = 0
    BY <2>3, <1>4 DEF Fits
  <2> QED BY <2>1, <2>2, <2>3
<1>5. \A i \in DOMAIN events' : Fits(events[i])'
  <2> SUFFICES ASSUME NEW i \in DOMAIN events' PROVE Fits(events[i])'
    OBVIOUS
  <2>1. i + 1 \in DOMAIN events /\ events'[i] = events[i + 1]
    BY <1>2
  <2>2. events[i + 1] \in H2!Frame /\ Fits(events[i + 1])
    BY <2>1, <1>0, FrameOf DEF FramesFit
  <2>3. f.stream # 0 /\ events'[i].stream = f.stream => f.place < events'[i].place
    BY <1>2 DEF PlacesIn
  <2> QED BY <2>1, <2>2, <2>3, <1>4
<1>6. \A i \in DOMAIN bytes' : Fits(bytes[i])'
  <2> SUFFICES ASSUME NEW i \in DOMAIN bytes PROVE Fits(bytes[i])'
    OBVIOUS
  <2>1. bytes[i] \in H2!Frame /\ Fits(bytes[i])
    BY <1>0, FrameOf DEF FramesFit
  <2>2. f.stream # 0 /\ bytes[i].stream = f.stream => f.place < bytes[i].place
    BY <1>1, <1>2 DEF Before
  <2> QED BY <2>1, <2>2, <1>4
<1>7. FramesFit'
  BY <1>0, <1>2, <1>5, <1>6 DEF FramesFit
<1>8. ASSUME NEW s \in Requests \ reset, s # f.stream PROVE UnderWay(s)'
  <2>1. PlacesIn(events', s) = PlacesIn(events, s)
    BY <1>2, <1>8
  <2>2. NextOf(s)' = NextOf(s) /\ LastOf(s)' = LastOf(s)
    BY <1>8 DEF NextOf, LastOf
  <2>3. (s \in known' <=> s \in known) /\ (s \in taken' <=> s \in taken)
    BY <1>8
  <2>4. UnderWay(s)
    BY <1>0 DEF AllUnderWay
  <2> QED BY <2>1, <2>2, <2>3, <2>4 DEF UnderWay
<1> QED BY <1>3, <1>7, <1>8

(* What was answered, when nothing or a reset goes out.                     *)
LEMMA NothingAnswered ==
  ASSUME H2Inv, UNCHANGED <<client, size>>, Sent' \in Seq(H2!Reply),
         Sent' = Sent \/ \E r \in H2!Reply : r.type = "reset" /\ Sent' = Append(Sent, r),
         \A s \in taken \ reset : s \in taken' /\ s \notin reset',
         \A s \in taken' \ reset' : s \in taken \ reset \/ pc2' \in {"serving", "closed"},
         pc2 = "event" \/ pc2' = pc2
  PROVE  Answered'
<1>0. Answered /\ Sent \in Seq(H2!Reply)
  BY DEF H2Inv, H2Types, Sent
<1>1. \A r : Whole(r) => Whole(r)'
  BY DEF Whole
<1>p. PICK p : p = Sent
  OBVIOUS
<1>q. PICK q : q = Sent'
  OBVIOUS
<1>t. p \in Seq(H2!Reply) /\ DOMAIN p = 1 .. Len(p) /\ Len(p) \in Nat
  <2>1. p \in Seq(H2!Reply)
    BY <1>0, <1>p
  <2> QED BY <2>1
<1>a. /\ DOMAIN q = 1 .. Len(q) /\ \A i \in DOMAIN p : i \in DOMAIN q /\ q[i] = p[i]
      /\ \A i \in DOMAIN q : i \in DOMAIN p \/ q[i].type = "reset"
  <2>1. CASE q = p
    BY <2>1, <1>t
  <2>2. ASSUME NEW r \in H2!Reply, r.type = "reset", q = Append(p, r)
        PROVE  /\ DOMAIN q = 1 .. Len(q) /\ \A i \in DOMAIN p : i \in DOMAIN q /\ q[i] = p[i]
               /\ \A i \in DOMAIN q : i \in DOMAIN p \/ q[i].type = "reset"
    BY <2>2, <1>t
  <2>3. q = p \/ \E r \in H2!Reply : r.type = "reset" /\ q = Append(p, r)
    BY <1>p, <1>q
  <2> QED BY <2>1, <2>2, <2>3
<1>3. \A i \in DOMAIN Sent' : Whole(Sent[i])'
  <2> SUFFICES ASSUME NEW i \in DOMAIN q PROVE Whole(q[i])'
    BY <1>q
  <2>1. CASE i \in DOMAIN p
    <3>1. Whole(p[i])
      BY <2>1, <1>0, <1>p DEF Answered
    <3> QED BY <3>1, <2>1, <1>1, <1>a
  <2>2. CASE q[i].type = "reset"
    BY <2>2 DEF Whole
  <2> QED BY <2>1, <2>2, <1>a
<1>4. SentOnce'
  <2> SUFFICES ASSUME NEW i \in DOMAIN q, NEW j \in DOMAIN q, q[i].type # "reset", q[j].type # "reset",
                      q[i].stream = q[j].stream
               PROVE  i = j
    BY <1>q DEF SentOnce
  <2>1. i \in DOMAIN p /\ j \in DOMAIN p
    BY <1>a
  <2>2. q[i] = p[i] /\ q[j] = p[j]
    BY <2>1, <1>a
  <2> QED BY <2>1, <2>2, <1>0, <1>p DEF Answered, SentOnce
<1>5. ASSUME NEW s \in taken' \ reset' PROVE pc2' \in {"serving", "closed"} \/ \E i \in DOMAIN Sent' : Sent'[i].stream = s
  <2>1. CASE s \in taken \ reset
    <3>1. pc2 \in {"serving", "closed"} \/ \E i \in DOMAIN Sent : Sent[i].stream = s
      BY <2>1, <1>0 DEF Answered
    <3>2. CASE pc2 \in {"serving", "closed"}
      BY <3>2
    <3>3. CASE \E i \in DOMAIN Sent : Sent[i].stream = s
      <4>1. PICK i \in DOMAIN p : p[i].stream = s
        BY <3>3, <1>p
      <4>2. i \in DOMAIN q /\ q[i].stream = s
        BY <4>1, <1>a
      <4> QED BY <4>2, <1>q
    <3> QED BY <3>1, <3>2, <3>3
  <2> QED BY <2>1
<1> QED BY <1>3, <1>4, <1>5 DEF Answered

LEMMA EventIs ==
  ASSUME H2Inv, H2!Event, NEW f, f = Head(events)
  PROVE  /\ pc2 = "event" /\ events # <<>> /\ events' = Tail(events) /\ UNCHANGED <<kind, client, size, bytes, got2>>
         /\ f \in H2!Frame /\ Fits(f) /\ f.place \in Nat
         /\ f.type \in {"headers", "data", "end", "away"}
         /\ f.type # "away" => f.stream \in Requests
         /\ f.type = "headers" => H2!Begin(f.stream)
         /\ f.type = "data" => H2!Data(f.stream)
         /\ f.type = "end" => H2!End(f.stream)
         /\ f.type = "away" => pc2' = "closed" /\ UNCHANGED <<streams2, known, reset, out, taken>>
<1>0. H2Types /\ FramesFit
  BY DEF H2Inv
<1>1. pc2 = "event" /\ events # <<>> /\ events' = Tail(events) /\ UNCHANGED <<kind, client, size, bytes, got2>>
  BY DEF H2!Event
<1>2. events \in Seq(H2!Frame) /\ InTurn(events)
  BY <1>0 DEF H2Types, FramesFit
<1>3. f \in H2!Frame /\ 1 \in DOMAIN events /\ f = events[1]
  BY <1>1, <1>2, TakeFirst
<1>4. Fits(f)
  BY <1>0, <1>3 DEF FramesFit
<1>5. /\ f.type \in {"headers", "data", "end", "away"} /\ f.stream \in Requests \cup {0}
      /\ f.place \in Nat
  BY <1>3, H2Requests DEF H2!Frame
<1>6. f.type # "away" => f.stream \in Requests
  BY <1>4, <1>5 DEF Fits
<1>7. CASE f.type = "headers" /\ H2!Begin(f.stream)
  BY <1>1, <1>3, <1>4, <1>5, <1>6, <1>7
<1>8. CASE f.type = "data" /\ H2!Data(f.stream)
  BY <1>1, <1>3, <1>4, <1>5, <1>6, <1>8
<1>9. CASE f.type = "end" /\ H2!End(f.stream)
  BY <1>1, <1>3, <1>4, <1>5, <1>6, <1>9
<1>10. CASE f.type = "away" /\ pc2' = "closed" /\ UNCHANGED <<streams2, known, reset, out, taken>>
  BY <1>1, <1>3, <1>4, <1>5, <1>6, <1>10
<1>11. \/ f.type = "headers" /\ H2!Begin(f.stream)
       \/ f.type = "data" /\ H2!Data(f.stream)
       \/ f.type = "end" /\ H2!End(f.stream)
       \/ f.type = "away" /\ pc2' = "closed" /\ UNCHANGED <<streams2, known, reset, out, taken>>
  <2>1. CASE f.type = "headers"
    BY <2>1 DEF H2!Event
  <2>2. CASE f.type = "data"
    BY <2>2 DEF H2!Event
  <2>3. CASE f.type = "end"
    BY <2>3 DEF H2!Event
  <2>4. CASE f.type = "away"
    BY <2>4 DEF H2!Event
  <2> QED BY <2>1, <2>2, <2>3, <2>4, <1>5
<1> QED BY <1>7, <1>8, <1>9, <1>10, <1>11

LEMMA H2EventAway ==
  ASSUME H2Inv, H2!Event, NEW f, f = Head(events), f.type = "away"
  PROVE  H2Inv'
<1>0. H2Types /\ AllUnderWay
  BY DEF H2Inv
<1>1. /\ pc2 = "event" /\ events # <<>> /\ events' = Tail(events) /\ UNCHANGED <<kind, client, size, bytes, got2>>
      /\ f.stream = 0 /\ pc2' = "closed" /\ UNCHANGED <<streams2, known, reset, out, taken>>
  BY EventIs DEF Fits
<1>2. /\ streams2 \in [Requests -> 0 .. MaxData] /\ \A s \in Requests : streams2[s] <= size[s]
      /\ known \subseteq Requests /\ reset \subseteq Requests /\ taken \subseteq Requests /\ out \in Seq(H2!Reply)
      /\ got2 \in Seq(H2!Reply)
  BY <1>0 DEF H2Types
<1>3. H2Types' /\ FramesFit' /\ \A s \in Requests \ reset : s # f.stream => UnderWay(s)'
  BY <1>1, <1>2, EventTaken
<1>4. AllUnderWay'
  BY <1>1, <1>3, H2Requests DEF AllUnderWay
<1>5. Sent' = Sent /\ Sent \in Seq(H2!Reply)
  BY <1>1, <1>2 DEF Sent
<1>6. Answered'
  BY <1>1, <1>5, NothingAnswered
<1> QED BY <1>3, <1>4, <1>6 DEF H2Inv

LEMMA H2EventBegin ==
  ASSUME H2Inv, H2!Event, NEW f, f = Head(events), f.type = "headers", NEW s, s = f.stream
  PROVE  H2Inv'
<1>0. H2Types /\ AllUnderWay
  BY DEF H2Inv
<1>1. /\ pc2 = "event" /\ events # <<>> /\ events' = Tail(events) /\ UNCHANGED <<kind, client, size, bytes, got2>>
      /\ s \in Requests /\ f.place = 0 /\ Fits(f) /\ client[s] # "none"
      /\ known' = known \cup {s} /\ streams2' = [streams2 EXCEPT ![s] = 0] /\ UNCHANGED <<pc2, reset, out, taken>>
  BY EventIs, H2Requests DEF Fits, H2!Begin
<1>2. /\ streams2 \in [Requests -> 0 .. MaxData] /\ (\A d \in Requests : streams2[d] <= size[d])
      /\ known \subseteq Requests /\ reset \subseteq Requests /\ taken \subseteq Requests /\ out \in Seq(H2!Reply)
      /\ got2 \in Seq(H2!Reply) /\ size \in [Requests -> 0 .. MaxData]
  BY <1>0 DEF H2Types
<1>3. /\ streams2' \in [Requests -> 0 .. MaxData] /\ streams2'[s] = 0
      /\ \A d \in Requests : d # s => streams2'[d] = streams2[d]
  BY <1>1, <1>2, H2Requests
<1>4. \A d \in Requests : streams2'[d] <= size[d]
  BY <1>1, <1>2, <1>3
<1>5. H2Types' /\ FramesFit' /\ \A d \in Requests \ reset : d # s => UnderWay(d)'
  <2>1. f.stream = s
    OBVIOUS
  <2> QED BY <2>1, <1>1, <1>2, <1>3, <1>4, EventTaken
<1>6. ASSUME s \notin reset PROVE UnderWay(s)'
  <2>1. /\ f.place = NextOf(s)
        /\ PlacesIn(Tail(events), s) \cup PlacesIn(bytes, s) = NextOf(s) + 1 .. LastOf(s)
    BY <1>1, <1>6, FirstIsNext
  <2>2. s \notin known /\ s \notin taken
    <3>1. streams2[s] \in Nat /\ size[s] \in Nat
      BY <1>1, <1>2, H2Requests
    <3> QED BY <2>1, <3>1, <1>1 DEF NextOf
  <2>3. NextOf(s)' = 1 /\ LastOf(s)' = LastOf(s)
    BY <1>1, <1>3 DEF NextOf, LastOf
  <2>4. NextOf(s) + 1 = 1
    BY <2>1, <1>1
  <2> QED BY <2>1, <2>2, <2>3, <2>4, <1>1 DEF UnderWay
<1>7. AllUnderWay'
  BY <1>1, <1>5, <1>6 DEF AllUnderWay
<1>8. Sent' = Sent /\ Sent \in Seq(H2!Reply)
  BY <1>1, <1>2 DEF Sent
<1>9. Answered'
  BY <1>1, <1>8, NothingAnswered
<1> QED BY <1>5, <1>7, <1>9 DEF H2Inv

LEMMA AppendBehind ==
  ASSUME NEW S, NEW p \in Seq(S), NEW q \in Seq(S), NEW e \in S
  PROVE  p \o Append(q, e) = Append(p \o q, e)
<1>1. Append(q, e) = q \o <<e>> /\ <<e>> \in Seq(S) /\ p \o q \in Seq(S)
  BY AppendIsConcat
<1>2. Append(p \o q, e) = (p \o q) \o <<e>>
  BY <1>1, AppendIsConcat
<1>3. (p \o q) \o <<e>> = p \o (q \o <<e>>)
  BY <1>1, ConcatAssociative
<1> QED BY <1>1, <1>2, <1>3

LEMMA H2EventData ==
  ASSUME H2Inv, H2!Event, NEW f, f = Head(events), f.type = "data", NEW s, s = f.stream
  PROVE  H2Inv'
<1> DEFINE r == [stream |-> s, type |-> "reset", of |-> 0]
<1>0. H2Types /\ AllUnderWay
  BY DEF H2Inv
<1>1. /\ pc2 = "event" /\ events # <<>> /\ events' = Tail(events) /\ UNCHANGED <<kind, client, size, bytes, got2>>
      /\ s \in Requests /\ Fits(f) /\ client[s] # "none" /\ f.place \in streams2[s] + 1 .. size[s]
      /\ streams2' = (IF s \in known THEN [streams2 EXCEPT ![s] = @ + 1] ELSE streams2)
      /\ (reset' = reset \cup {s} /\ out' = Append(out, r)) \/ UNCHANGED <<reset, out>>
      /\ UNCHANGED <<pc2, known, taken>>
  BY EventIs, H2Requests DEF Fits, H2!Data, H2!Kept
<1>2. /\ streams2 \in [Requests -> 0 .. MaxData] /\ (\A d \in Requests : streams2[d] <= size[d])
      /\ known \subseteq Requests /\ reset \subseteq Requests /\ taken \subseteq Requests /\ out \in Seq(H2!Reply)
      /\ got2 \in Seq(H2!Reply) /\ size \in [Requests -> 0 .. MaxData] /\ MaxData \in Nat
  BY <1>0, H2Requests DEF H2Types
<1>3. r \in H2!Reply /\ r.type = "reset"
  BY <1>1, <1>2 DEF H2!Reply
<1> HIDE DEF r
<1>4. f.place \in Nat /\ streams2[s] \in 0 .. MaxData /\ size[s] \in 0 .. MaxData
  BY <1>1, <1>2
<1>5. /\ streams2' \in [Requests -> 0 .. MaxData] /\ streams2'[s] = (IF s \in known THEN streams2[s] + 1 ELSE streams2[s])
      /\ \A d \in Requests : d # s => streams2'[d] = streams2[d]
  <2>1. streams2[s] + 1 \in 0 .. MaxData
    BY <1>1, <1>2, <1>4
  <2> QED BY <2>1, <1>1, <1>2, <1>4
<1>6. streams2'[s] <= f.place /\ \A d \in Requests : streams2'[d] <= size[d]
  <2>1. streams2'[s] <= f.place /\ streams2'[s] <= size[s]
    BY <1>1, <1>2, <1>4, <1>5
  <2> QED BY <2>1, <1>2, <1>5
<1>7. out' \in Seq(H2!Reply) /\ reset' \subseteq Requests /\ reset \subseteq reset'
  <2>1. out \in Seq(H2!Reply) /\ r \in H2!Reply
    BY <1>2, <1>3
  <2>2. Append(out, r) \in Seq(H2!Reply)
    BY <2>1, AppendProperties
  <2> QED BY <2>1, <2>2, <1>1, <1>2
<1>8. H2Types' /\ FramesFit' /\ \A d \in Requests \ reset : d # s => UnderWay(d)'
  <2>1. f.stream = s
    OBVIOUS
  <2> QED BY <2>1, <1>1, <1>2, <1>5, <1>6, <1>7, EventTaken
<1>9. ASSUME s \notin reset PROVE s \in known /\ s \notin taken /\ UnderWay(s)'
  <2>1. /\ f.place = NextOf(s) /\ NextOf(s) \in Nat
        /\ PlacesIn(Tail(events), s) \cup PlacesIn(bytes, s) = NextOf(s) + 1 .. LastOf(s)
    BY <1>1, <1>9, FirstIsNext
  <2>2. s \in known
    BY <2>1, <1>1, <1>4 DEF NextOf
  <2>3. s \notin taken
    BY <2>2, <1>0, <1>1, <1>9 DEF AllUnderWay, UnderWay
  <2>4. NextOf(s)' = NextOf(s) + 1 /\ LastOf(s)' = LastOf(s)
    <3>1. NextOf(s) = streams2[s] + 1
      BY <2>2 DEF NextOf
    <3>2. NextOf(s)' = streams2'[s] + 1
      BY <2>2, <1>1 DEF NextOf
    <3>3. LastOf(s)' = LastOf(s)
      BY <1>1 DEF LastOf
    <3> QED BY <2>2, <3>1, <3>2, <3>3, <1>5
  <2> QED BY <2>1, <2>2, <2>3, <2>4, <1>1 DEF UnderWay
<1>10. AllUnderWay'
  BY <1>1, <1>7, <1>8, <1>9 DEF AllUnderWay
<1>11. /\ Sent' = Sent \/ Sent' = Append(Sent, r)
       /\ Sent' \in Seq(H2!Reply)
  <2>1. out \in Seq(H2!Reply) /\ got2 \in Seq(H2!Reply) /\ r \in H2!Reply
    BY <1>2, <1>3
  <2>2. got2 \o Append(out, r) = Append(got2 \o out, r) /\ got2 \o out \in Seq(H2!Reply)
    BY <2>1, AppendBehind, ConcatProperties
  <2>3. Append(got2 \o out, r) \in Seq(H2!Reply)
    BY <2>1, <2>2, AppendProperties
  <2> QED BY <2>2, <2>3, <1>1 DEF Sent
<1>12. Answered'
  <2>1. \A d \in taken \ reset : d \in taken' /\ d \notin reset'
    BY <1>1, <1>9
  <2>2. \A d \in taken' \ reset' : d \in taken \ reset
    BY <1>1, <1>7
  <2>3. Sent' = Sent \/ \E u \in H2!Reply : u.type = "reset" /\ Sent' = Append(Sent, u)
    BY <1>3, <1>11
  <2> QED BY <2>1, <2>2, <2>3, <1>1, <1>11, NothingAnswered
<1> QED BY <1>8, <1>10, <1>12 DEF H2Inv

LEMMA H2EventEnd ==
  ASSUME H2Inv, H2!Event, NEW f, f = Head(events), f.type = "end", NEW s, s = f.stream
  PROVE  H2Inv'
<1>r. PICK r : r = [stream |-> s, type |-> IF kind[s] = "large" THEN "headers" ELSE "answer", of |-> streams2[s]]
  OBVIOUS
<1> DEFINE ss == s \in known
<1>0. H2Types /\ AllUnderWay /\ Answered
  BY DEF H2Inv
<1>1. /\ pc2 = "event" /\ events # <<>> /\ events' = Tail(events) /\ UNCHANGED <<kind, client, size, bytes, got2>>
      /\ s \in Requests /\ client[s] = "ended" /\ f.place = size[s] + 1
      /\ known' = known \ {s} /\ UNCHANGED <<streams2, reset>>
      /\ taken' = (IF ss THEN taken \cup {s} ELSE taken)
      /\ H2!End(s)
  BY EventIs, H2Requests DEF Fits, H2!End, H2!Left
<1>2. /\ streams2 \in [Requests -> 0 .. MaxData] /\ (\A d \in Requests : streams2[d] <= size[d])
      /\ known \subseteq Requests /\ reset \subseteq Requests /\ taken \subseteq Requests /\ out \in Seq(H2!Reply)
      /\ got2 \in Seq(H2!Reply) /\ size \in [Requests -> 0 .. MaxData] /\ MaxData \in Nat
      /\ kind \in [Requests -> {"plain", "large", "sse", "bad"}]
  BY <1>0, H2Requests DEF H2Types
<1>3. /\ r \in H2!Reply /\ r.stream = s /\ r.type # "reset" /\ r.of = streams2[s]
  BY <1>r, <1>1, <1>2 DEF H2!Reply
<1>4. \/ ~ss /\ UNCHANGED <<pc2, out>>
      \/ ss /\ pc2' \in {"serving", "closed"} /\ UNCHANGED out
      \/ ss /\ pc2' = pc2 /\ out' = out \o (IF s \in reset THEN <<>> ELSE <<r>>)
  <2>1. CASE ~ss
    BY <2>1, <1>1 DEF H2!End
  <2>2. CASE ss /\ kind[s] = "sse"
    BY <2>2, <1>1 DEF H2!End
  <2>3. CASE ss /\ kind[s] = "bad"
    BY <2>3, <1>1 DEF H2!End
  <2>4. CASE ss /\ kind[s] \notin {"sse", "bad"}
    BY <2>4, <1>r, <1>1 DEF H2!End, H2!Answer
  <2> QED BY <2>1, <2>2, <2>3, <2>4
<1>5. \/ ~ss /\ UNCHANGED <<pc2, out>>
      \/ ss /\ pc2' \in {"serving", "closed"} /\ UNCHANGED out
      \/ ss /\ pc2' = pc2 /\ s \in reset /\ UNCHANGED out
      \/ ss /\ pc2' = pc2 /\ s \notin reset /\ out' = Append(out, r)
  <2>1. out \o <<>> = out
    BY <1>2, ConcatEmptySeq
  <2>2. out \o <<r>> = Append(out, r)
    BY <1>2, <1>3, AppendIsConcat
  <2> HIDE DEF ss
  <2> QED BY <2>1, <2>2, <1>4
<1>6. out' \in Seq(H2!Reply) /\ pc2' \in {"event", "serving", "closed"}
  <2>1. out \in Seq(H2!Reply) /\ r \in H2!Reply
    BY <1>2, <1>3
  <2>2. Append(out, r) \in Seq(H2!Reply)
    BY <2>1, AppendProperties
  <2> HIDE DEF ss
  <2> QED BY <2>1, <2>2, <1>1, <1>5
<1>7. H2Types' /\ FramesFit' /\ \A d \in Requests \ reset : d # s => UnderWay(d)'
  <2>1. f.stream = s /\ streams2'[s] <= streams2[s]
    BY <1>1, <1>2
  <2>2. \A d \in Requests \ {s} : (d \in known <=> d \in known') /\ (d \in taken <=> d \in taken')
    BY <1>1
  <2>3. known' \subseteq Requests /\ taken' \subseteq Requests
    BY <1>1, <1>2
  <2> QED BY <2>1, <2>2, <2>3, <1>1, <1>2, <1>6, EventTaken
<1>8. ASSUME s \notin reset PROVE ss /\ s \notin taken /\ streams2[s] = size[s] /\ UnderWay(s)'
  <2>1. /\ f.place = NextOf(s) /\ NextOf(s) \in Nat
        /\ PlacesIn(Tail(events), s) \cup PlacesIn(bytes, s) = NextOf(s) + 1 .. LastOf(s)
    BY <1>1, <1>8, FirstIsNext
  <2>2. streams2[s] \in Nat /\ size[s] \in Nat
    BY <1>1, <1>2
  <2>3. ss
    BY <2>1, <2>2, <1>1 DEF NextOf
  <2>4. s \notin taken
    BY <2>3, <1>0, <1>1, <1>8 DEF AllUnderWay, UnderWay
  <2>5. streams2[s] = size[s] /\ NextOf(s) = size[s] + 1
    BY <2>1, <2>2, <2>3, <1>1 DEF NextOf
  <2>6. NextOf(s)' = size[s] + 2 /\ LastOf(s)' = LastOf(s)
    <3>1. s \notin known' /\ s \in taken'
      BY <2>3, <1>1
    <3> QED BY <3>1, <1>1 DEF NextOf, LastOf
  <2>7. (NextOf(s) + 1 .. LastOf(s)) = (NextOf(s)' .. LastOf(s)')
    BY <2>2, <2>5, <2>6
  <2> QED BY <2>1, <2>3, <2>4, <2>5, <2>7, <1>1 DEF UnderWay
<1>9. AllUnderWay'
  BY <1>1, <1>7, <1>8 DEF AllUnderWay
<1>10. CASE UNCHANGED out
  <2>1. Sent' = Sent /\ Sent \in Seq(H2!Reply)
    BY <1>1, <1>2, <1>10 DEF Sent
  <2>2. ss /\ s \notin reset => pc2' \in {"serving", "closed"}
    <3>1. Len(Append(out, r)) # Len(out)
      BY <1>2, <1>3
    <3> QED BY <3>1, <1>5, <1>10
  <2>3. \A d \in taken' \ reset' : d \in taken \ reset \/ pc2' \in {"serving", "closed"}
    BY <2>2, <1>1
  <2>4. Answered'
    BY <2>1, <2>3, <1>1, NothingAnswered
  <2> QED BY <2>4, <1>7, <1>9 DEF H2Inv
<1>11. CASE ss /\ pc2' = pc2 /\ s \notin reset /\ out' = Append(out, r)
  <2>1. Sent' = Append(Sent, r) /\ Sent \in Seq(H2!Reply)
    <3>1. out \in Seq(H2!Reply) /\ got2 \in Seq(H2!Reply) /\ r \in H2!Reply
      BY <1>2, <1>3
    <3>2. got2 \o Append(out, r) = Append(got2 \o out, r) /\ got2 \o out \in Seq(H2!Reply)
      BY <3>1, AppendBehind, ConcatProperties
    <3> QED BY <3>2, <1>1, <1>11 DEF Sent
  <2>2. /\ DOMAIN Sent = 1 .. Len(Sent) /\ Len(Sent) \in Nat /\ DOMAIN Sent' = 1 .. Len(Sent) + 1
        /\ Sent'[Len(Sent) + 1] = r /\ \A i \in DOMAIN Sent : i \in DOMAIN Sent' /\ Sent'[i] = Sent[i]
        /\ \A i \in DOMAIN Sent' : i \in DOMAIN Sent \/ i = Len(Sent) + 1
    BY <2>1, <1>3
  <2>3. \A u : Whole(u) => Whole(u)'
    BY <1>1 DEF Whole
  <2>4. Whole(r)'
    BY <1>1, <1>3, <1>8, <1>11 DEF Whole
  <2>5. \A i \in DOMAIN Sent' : Whole(Sent[i])'
    BY <2>2, <2>3, <2>4, <1>0 DEF Answered
  <2>6. \A i \in DOMAIN Sent : Sent[i].type # "reset" => Sent[i].stream # s
    BY <1>0, <1>8, <1>11 DEF Answered, Whole
  <2>7. SentOnce'
    <3> SUFFICES ASSUME NEW i \in DOMAIN Sent', NEW j \in DOMAIN Sent', Sent'[i].type # "reset", Sent'[j].type # "reset",
                        Sent'[i].stream = Sent'[j].stream
                 PROVE  i = j
      BY DEF SentOnce
    <3>1. CASE i \in DOMAIN Sent /\ j \in DOMAIN Sent
      BY <3>1, <2>2, <1>0 DEF Answered, SentOnce
    <3>2. CASE i = Len(Sent) + 1 \/ j = Len(Sent) + 1
      BY <3>2, <2>2, <2>6, <1>3
    <3> QED BY <3>1, <3>2, <2>2
  <2>8. ASSUME NEW d \in taken' \ reset' PROVE pc2' \in {"serving", "closed"} \/ \E i \in DOMAIN Sent' : Sent'[i].stream = d
    <3>1. CASE d = s
      BY <3>1, <2>2, <1>3
    <3>2. CASE d # s
      <4>1. d \in taken \ reset
        BY <3>2, <1>1
      <4>2. pc2 \in {"serving", "closed"} \/ \E i \in DOMAIN Sent : Sent[i].stream = d
        BY <4>1, <1>0 DEF Answered
      <4> QED BY <4>2, <2>2, <1>11
    <3> QED BY <3>1, <3>2
  <2>9. Answered'
    BY <2>5, <2>7, <2>8 DEF Answered
  <2> QED BY <2>9, <1>7, <1>9 DEF H2Inv
<1> QED BY <1>5, <1>10, <1>11

LEMMA H2Step == H2Inv /\ (H2!Next \/ UNCHANGED h2Vars) => H2Inv'
<1> SUFFICES ASSUME H2Inv, H2!Next \/ UNCHANGED h2Vars PROVE H2Inv'
  OBVIOUS
<1>1. CASE UNCHANGED h2Vars
  <2>0. H2Types /\ FramesFit /\ AllUnderWay /\ Answered
    BY DEF H2Inv
  <2>1. UNCHANGED <<kind, client, size, bytes, pc2, events, streams2, known, reset, out, got2, taken, away>>
    BY <1>1 DEF h2Vars
  <2>2. H2Types'
    BY <2>0, <2>1 DEF H2Types
  <2>3. FramesFit'
    BY <2>0, <2>1 DEF FramesFit, Fits
  <2>4. AllUnderWay'
    BY <2>0, <2>1 DEF AllUnderWay, UnderWay, NextOf, LastOf
  <2>5. Sent' = Sent /\ \A r : Whole(r)' = Whole(r)
    BY <2>1 DEF Sent, Whole
  <2>6. SentOnce'
    BY <2>0, <2>5 DEF Answered, SentOnce
  <2>7. Answered'
    BY <2>0, <2>1, <2>5, <2>6 DEF Answered
  <2> QED BY <2>2, <2>3, <2>4, <2>7 DEF H2Inv
<1>2. CASE H2!Event
  <2>1. PICK f : f = Head(events)
    OBVIOUS
  <2>2. PICK s : s = f.stream
    OBVIOUS
  <2>3. f.type \in {"headers", "data", "end", "away"}
    BY <1>2, <2>1, EventIs
  <2> QED BY <2>1, <2>2, <2>3, <1>2, H2EventAway, H2EventBegin, H2EventData, H2EventEnd
<1>3. CASE H2!Next
  BY <1>2, <1>3, H2Request, H2Away, H2Recv, H2Flush DEF H2!Next
<1> QED BY <1>1, <1>3

LEMMA H2Follows == H2Inv => H2!AnswerIsWhole /\ H2!ReadIsAnswered
<1> SUFFICES ASSUME H2Inv PROVE H2!AnswerIsWhole /\ H2!ReadIsAnswered
  OBVIOUS
<1>0. H2Types /\ FramesFit /\ AllUnderWay /\ Answered
  BY DEF H2Inv
<1>1. H2!AnswerIsWhole
  BY <1>0 DEF H2!AnswerIsWhole, Answered, SentOnce, Sent, Whole
<1>2. ASSUME pc2 = "recv", NEW s \in Requests, client[s] = "ended", s \notin reset,
             \A i \in DOMAIN bytes : bytes[i].stream # s
      PROVE  \E i \in DOMAIN got2 : got2[i].stream = s
  <2>1. events = <<>> /\ out = <<>> /\ got2 \in Seq(H2!Reply) /\ streams2[s] \in Nat /\ size[s] \in Nat /\ streams2[s] <= size[s]
    BY <1>0, <1>2 DEF H2Types
  <2>2. UnderWay(s)
    BY <1>0, <1>2 DEF AllUnderWay
  <2>3. PlacesIn(events, s) \cup PlacesIn(bytes, s) = {}
    BY <1>2, <2>1 DEF PlacesIn
  <2>4. s \in taken
    <3>1. NextOf(s) .. LastOf(s) = {} /\ LastOf(s) = size[s] + 1
      BY <1>2, <2>2, <2>3 DEF UnderWay, LastOf
    <3>2. ASSUME s \notin taken PROVE NextOf(s) \in NextOf(s) .. LastOf(s)
      BY <2>1, <3>1, <3>2 DEF NextOf
    <3> QED BY <3>1, <3>2
  <2>5. Sent = got2
    BY <2>1, ConcatEmptySeq DEF Sent
  <2> QED BY <2>4, <2>5, <1>0, <1>2 DEF Answered
<1>3. H2!ReadIsAnswered
  BY <1>2 DEF H2!ReadIsAnswered
<1> QED BY <1>1, <1>3

-----------------------------------------------------------------------------
(* All parts that follow events.                                            *)
FollowInv ==
  /\ part = "frames" => FrameInv
  /\ part = "hooks" => HookInv
  /\ part \in {"submit", "watch"} => EvInv

LEMMA FollowStep == FollowInv /\ [MCNext]_<<part, vars, wsVars, evVars, h2Vars>> => FollowInv'
<1> SUFFICES ASSUME FollowInv, [MCNext]_<<part, vars, wsVars, evVars, h2Vars>> PROVE FollowInv'
  OBVIOUS
<1>1. part' = part
  BY DEF MCNext
<1>2. part = "frames" => Frames!Next \/ UNCHANGED wsVars
  BY DEF MCNext, Parts
<1>3. part = "hooks" => Hooks!Next \/ UNCHANGED wsVars
  BY DEF MCNext, Parts
<1>4. part \in {"submit", "watch"} => Ev!Next \/ UNCHANGED evVars
  BY DEF MCNext, Parts
<1> QED BY <1>1, <1>2, <1>3, <1>4, FrameStep, HookStep, EvStep DEF FollowInv

(* FollowersMissNone of run events, for any connections, publishers, hooks, *)
(* submitters and watchers: the halves of a frame stay together although    *)
(* several threads write to the socket, a client that reconnects gets every *)
(* event that was in the log when it read it or came later, a hook is told  *)
(* of an event once, and a watcher of evidence misses only what was stored  *)
(* between its replay and its registration.                                 *)
THEOREM FollowersHold == MCSpec => []FollowersMissNone
<1>1. MCInit => FollowInv
  BY FrameInit, HookInit, EvInit DEF MCInit, FollowInv
<1>2. FollowInv => FollowersMissNone
  BY FramesFollow, HooksFollow, EvFollows DEF FollowInv, FollowersMissNone
<1> QED BY <1>1, <1>2, FollowStep, PTL DEF MCSpec

(* RequestsAreAnswered of run events, for any requests, however their       *)
(* frames are mixed and cut up: an answer is made of all data of a complete *)
(* request and of no other's, there is one at most, and when the thread     *)
(* reads again every request that came whole, and was not reset, has its    *)
(* own.                                                                     *)
THEOREM RequestsHold == MCSpec => []RequestsAreAnswered
<1> DEFINE I == part = "http2" => H2Inv
<1>1. MCInit => I
  BY H2Init DEF MCInit
<1>2. I /\ [MCNext]_<<part, vars, wsVars, evVars, h2Vars>> => I'
  <2> SUFFICES ASSUME I, [MCNext]_<<part, vars, wsVars, evVars, h2Vars>>, part' = "http2" PROVE H2Inv'
    OBVIOUS
  <2>1. part = "http2"
    BY DEF MCNext
  <2>2. H2!Next \/ UNCHANGED h2Vars
    BY <2>1 DEF MCNext, Parts
  <2> QED BY <2>1, <2>2, H2Step
<1>3. I => RequestsAreAnswered
  BY H2Follows DEF RequestsAreAnswered
<1> QED BY <1>1, <1>2, <1>3, PTL DEF MCSpec

-----------------------------------------------------------------------------
(* The types and bounds of all parts.                                       *)
LogBound == wsLog \in Seq(Nat) /\ Len(wsLog) <= WsLogMax
FrameBounds ==
  /\ LogBound /\ wsSeq \in 0 .. FrameEvents /\ reg \in [{} -> {Free}]
  /\ \A c \in Connections : cl[c].since \in Sinces \cup {Never}
HookBounds == LogBound /\ wsSeq \in 0 .. HookEvents

LEMMA LogCut ==
  ASSUME NEW l \in Seq(Nat), Len(l) <= WsLogMax, NEW e \in Nat
  PROVE  LET all == Append(l, e) IN
         /\ (IF Len(all) > WsLogMax THEN Tail(all) ELSE all) \in Seq(Nat)
         /\ Len(IF Len(all) > WsLogMax THEN Tail(all) ELSE all) <= WsLogMax
<1> DEFINE all == Append(l, e)
<1>1. all \in Seq(Nat) /\ Len(all) = Len(l) + 1 /\ Len(l) \in Nat /\ all # <<>>
  OBVIOUS
<1>2. WsLogMax \in Nat
  BY FollowAssumption
<1> HIDE DEF all
<1>3. Tail(all) \in Seq(Nat) /\ Len(Tail(all)) = Len(all) - 1
  BY <1>1
<1>4. CASE Len(all) > WsLogMax
  BY <1>1, <1>2, <1>3, <1>4
<1>5. CASE ~(Len(all) > WsLogMax)
  BY <1>1, <1>2, <1>5
<1> QED BY <1>4, <1>5 DEF all

LEMMA FrameBoundsInit == Frames!Init => FrameBounds
<1> SUFFICES ASSUME Frames!Init PROVE FrameBounds
  OBVIOUS
<1>1. wsLog = <<>> /\ wsSeq = 0 /\ cl = [c \in Connections |-> Frames!NoOne] /\ reg \in [{} -> {Free}]
  BY DEF Frames!Init
<1>2. LogBound /\ wsSeq \in 0 .. FrameEvents
  BY <1>1, FollowAssumption DEF LogBound
<1>3. \A c \in Connections : cl[c].since = Never
  BY <1>1 DEF Frames!NoOne
<1> QED BY <1>1, <1>2, <1>3 DEF FrameBounds

(* Only a client that joins says since when.                                *)
LEMMA SinceStays ==
  ASSUME FrameTypes, Frames!Next, NEW d \in Connections
  PROVE  cl'[d].since = cl[d].since \/ cl'[d].since \in Sinces
<1>1. cl \in [Connections -> Client] /\ cl[d] \in Client
  BY DEF FrameTypes
<1>2. ASSUME NEW c \in Connections, Frames!Join(c) PROVE cl'[d].since = cl[d].since \/ cl'[d].since \in Sinces
  <2>1. PICK s \in Sinces : cl' = [cl EXCEPT ![c] = [Frames!NoOne EXCEPT !.pc = IF s = Never THEN "loop" ELSE "replay", !.since = s]]
    BY <1>2 DEF Frames!Join
  <2>2. CASE d = c
    <3>1. cl'[d] = [Frames!NoOne EXCEPT !.pc = IF s = Never THEN "loop" ELSE "replay", !.since = s]
      BY <2>1, <2>2, <1>1
    <3> QED BY <3>1 DEF Frames!NoOne
  <2>3. CASE d # c
    BY <2>1, <2>3, <1>1
  <2> QED BY <2>2, <2>3
<1>3. ASSUME NEW c \in Connections, NEW y, cl' = [cl EXCEPT ![c] = y], y.since = cl[c].since
      PROVE  cl'[d].since = cl[d].since
  BY <1>1, <1>3
<1>4. ASSUME NEW c \in Connections, Frames!Snapshot(c) PROVE cl'[d].since = cl[d].since
  <2>1. cl[c] \in Client
    BY <1>1
  <2>2. PICK y : y = [cl[c] EXCEPT !.pc = "send", !.todo = Frames!Pick(wsLog, cl[c].since + 1 .. wsSeq), !.lost = Frames!Trimmed]
    OBVIOUS
  <2>3. cl' = [cl EXCEPT ![c] = y]
    BY <1>4, <2>2 DEF Frames!Snapshot
  <2>4. y.since = cl[c].since
    BY <2>1, <2>2 DEF Client
  <2> QED BY <2>3, <2>4, <1>3
<1>5. ASSUME NEW c \in Connections, Frames!Leave(c) PROVE cl'[d].since = cl[d].since
  <2>1. cl[c] \in Client
    BY <1>1
  <2>2. PICK y : y = [cl[c] EXCEPT !.pc = "gone", !.closed = TRUE]
    OBVIOUS
  <2>3. cl' = [cl EXCEPT ![c] = y]
    BY <1>5, <2>2 DEF Frames!Leave
  <2>4. y.since = cl[c].since
    BY <2>1, <2>2 DEF Client
  <2> QED BY <2>3, <2>4, <1>3
<1>6. ASSUME NEW c \in Connections, Frames!Replay(c) PROVE cl'[d].since = cl[d].since
  <2>1. cl[c] \in Client
    BY <1>1
  <2>2. CASE cl' = [cl EXCEPT ![c].pc = "loop"]
    <3>1. PICK y : y = [cl[c] EXCEPT !.pc = "loop"]
      OBVIOUS
    <3>2. cl' = [cl EXCEPT ![c] = y]
      BY <2>2, <3>1
    <3>3. y.since = cl[c].since
      BY <2>1, <3>1 DEF Client
    <3> QED BY <3>2, <3>3, <1>3
  <2>3. CASE cl' = [cl EXCEPT ![c].half = IF c \in broken THEN 1 ELSE 3 - cl[c].half,
                              ![c].closed = @ \/ c \in broken,
                              ![c].todo = IF cl[c].half = 2 \/ c \in broken THEN Tail(@) ELSE @]
    <3>1. PICK y : y = [cl[c] EXCEPT !.half = IF c \in broken THEN 1 ELSE 3 - cl[c].half,
                                     !.closed = @ \/ c \in broken,
                                     !.todo = IF cl[c].half = 2 \/ c \in broken THEN Tail(@) ELSE @]
      OBVIOUS
    <3>2. cl' = [cl EXCEPT ![c] = y]
      BY <2>3, <3>1
    <3>3. y.since = cl[c].since
      BY <2>1, <3>1 DEF Client
    <3> QED BY <3>2, <3>3, <1>3
  <2> QED BY <2>2, <2>3, <1>6 DEF Frames!Replay
<1>7. ASSUME NEW p \in Publishers, Frames!SendWs(p) PROVE cl'[d].since = cl[d].since
  <2>1. CASE UNCHANGED cl
    BY <2>1
  <2>2. ASSUME NEW c, cl' = [cl EXCEPT ![c].closed = @ \/ c \in broken] PROVE cl'[d].since = cl[d].since
    <3>1. CASE c = d
      <4>1. cl'[d] = [cl[d] EXCEPT !.closed = @ \/ d \in broken]
        BY <3>1, <2>2, <1>1
      <4> QED BY <4>1, <1>1 DEF Client
    <3>2. CASE c # d
      BY <3>2, <2>2, <1>1
    <3> QED BY <3>1, <3>2
  <2> QED BY <2>1, <2>2, <1>7 DEF Frames!SendWs
<1>8. CASE UNCHANGED cl
  BY <1>8
<1>9. ASSUME NEW c \in Connections, Frames!AnswerPing(c) \/ Frames!Break(c) PROVE UNCHANGED cl
  BY <1>9 DEF Frames!AnswerPing, Frames!Break
<1>10. ASSUME NEW p \in Publishers, Frames!Publish(p) \/ Frames!AppendLog(p) \/ Frames!List(p) \/ Frames!EndWs(p)
       PROVE  UNCHANGED cl
  BY <1>10 DEF Frames!Publish, Frames!AppendLog, Frames!List, Frames!EndWs, Frames!clientVars
<1>11. ASSUME NEW j \in jobs, Frames!Deliver(j) PROVE UNCHANGED cl
  BY <1>11 DEF Frames!Deliver, Frames!clientVars
<1> QED BY <1>2, <1>4, <1>5, <1>6, <1>7, <1>8, <1>9, <1>10, <1>11 DEF Frames!Next

LEMMA FrameBoundsStep == FrameInv /\ FrameBounds /\ (Frames!Next \/ UNCHANGED wsVars) => FrameBounds'
<1> SUFFICES ASSUME FrameInv, FrameBounds, Frames!Next \/ UNCHANGED wsVars PROVE FrameBounds'
  OBVIOUS
<1>0. FrameTypes /\ LogBound /\ wsSeq \in 0 .. FrameEvents /\ reg \in [{} -> {Free}]
  BY DEF FrameInv, FrameBounds
<1>1. CASE UNCHANGED wsVars
  BY <1>1 DEF wsVars, FrameBounds, LogBound
<1>2. CASE Frames!Next
  <2>1. \A c \in Connections : cl'[c].since \in Sinces \cup {Never}
    BY <1>0, <1>2, SinceStays DEF FrameBounds
  <2>2. ASSUME NEW p \in Publishers, Frames!Publish(p) PROVE FrameBounds'
    <3>1. /\ wsSeq < FrameEvents /\ wsSeq' = wsSeq + 1
          /\ UNCHANGED <<wsLog, reg>>
      BY <2>2 DEF Frames!Publish, Frames!hookVars
    <3>2. wsSeq' \in 0 .. FrameEvents
      BY <3>1, <1>0, FollowAssumption
    <3> QED BY <3>1, <3>2, <2>1, <1>0 DEF FrameBounds, LogBound
  <2>a. ASSUME NEW p \in Publishers, Frames!AppendLog(p) PROVE FrameBounds'
    <3>1. /\ UNCHANGED <<wsSeq, reg>>
          /\ wsLog' = LET all == Append(wsLog, wsPub[p].ev) IN IF Len(all) > WsLogMax THEN Tail(all) ELSE all
      BY <2>a DEF Frames!AppendLog, Frames!hookVars
    <3>2. wsPub[p].ev \in Nat
      BY <1>0 DEF FrameTypes, FramePub
    <3>3. LogBound'
      BY <3>1, <3>2, <1>0, LogCut DEF LogBound
    <3> QED BY <3>1, <3>3, <2>1, <1>0 DEF FrameBounds
  <2>3. CASE UNCHANGED <<wsLog, wsSeq, reg>>
    BY <2>1, <2>3, <1>0 DEF FrameBounds, LogBound
  <2>4. ASSUME NEW c \in Connections,
               Frames!Join(c) \/ Frames!Snapshot(c) \/ Frames!Replay(c) \/ Frames!AnswerPing(c) \/ Frames!Leave(c) \/ Frames!Break(c)
        PROVE  UNCHANGED <<wsLog, wsSeq, reg>>
    BY <2>4 DEF Frames!Join, Frames!Snapshot, Frames!Replay, Frames!AnswerPing, Frames!Leave, Frames!Break, Frames!hookVars
  <2>5. ASSUME NEW p \in Publishers, Frames!List(p) \/ Frames!SendWs(p) \/ Frames!EndWs(p) PROVE UNCHANGED <<wsLog, wsSeq, reg>>
    BY <2>5 DEF Frames!List, Frames!SendWs, Frames!EndWs, Frames!hookVars
  <2>6. ASSUME NEW j \in jobs, Frames!Deliver(j) PROVE UNCHANGED <<wsLog, wsSeq, reg>>
    BY <2>6 DEF Frames!Deliver
  <2> QED BY <1>2, <2>2, <2>a, <2>3, <2>4, <2>5, <2>6 DEF Frames!Next
<1> QED BY <1>1, <1>2

LEMMA HookBoundsStep == HookInv /\ HookBounds /\ (Hooks!Next \/ UNCHANGED wsVars) => HookBounds'
<1> SUFFICES ASSUME HookInv, HookBounds, Hooks!Next \/ UNCHANGED wsVars PROVE HookBounds'
  OBVIOUS
<1>0. LogBound /\ wsSeq \in 0 .. HookEvents
  BY DEF HookBounds
<1>1. CASE UNCHANGED wsVars
  BY <1>1 DEF wsVars, HookBounds, LogBound
<1>2. CASE UNCHANGED <<wsLog, wsSeq>>
  BY <1>2, <1>0 DEF HookBounds, LogBound
<1>3. ASSUME NEW p \in HookPublishers, Hooks!Publish(p) PROVE HookBounds'
  <2>1. wsSeq < HookEvents /\ wsSeq' = wsSeq + 1 /\ wsLog' = wsLog
    BY <1>3 DEF Hooks!Publish
  <2>2. wsSeq' \in 0 .. HookEvents
    BY <2>1, <1>0, FollowAssumption
  <2> QED BY <2>1, <2>2, <1>0 DEF HookBounds, LogBound
<1>a. ASSUME NEW p \in HookPublishers, Hooks!AppendLog(p) PROVE HookBounds'
  <2>1. /\ wsSeq' = wsSeq
        /\ wsLog' = LET all == Append(wsLog, wsPub[p].ev) IN IF Len(all) > WsLogMax THEN Tail(all) ELSE all
    BY <1>a DEF Hooks!AppendLog
  <2>2. wsPub[p].ev \in Nat
    BY DEF HookInv, HookShape, HookPub
  <2>3. LogBound'
    BY <2>1, <2>2, <1>0, LogCut DEF LogBound
  <2> QED BY <2>1, <2>3, <1>0 DEF HookBounds
<1>4. ASSUME NEW p \in HookPublishers, Hooks!List(p) \/ Hooks!SendWs(p) \/ Hooks!EndWs(p) PROVE UNCHANGED <<wsLog, wsSeq>>
  BY <1>4 DEF Hooks!List, Hooks!SendWs, Hooks!EndWs
<1>5. ASSUME NEW r \in Registrars, Hooks!AddHook(r) PROVE UNCHANGED <<wsLog, wsSeq>>
  BY <1>5 DEF Hooks!AddHook
<1>6. ASSUME NEW r \in Registrars, NEW u \in Urls, Hooks!LookHook(r, u) PROVE UNCHANGED <<wsLog, wsSeq>>
  BY <1>6 DEF Hooks!LookHook
<1>7. ASSUME NEW u \in Urls, Hooks!DropHook(u) PROVE UNCHANGED <<wsLog, wsSeq>>
  BY <1>7 DEF Hooks!DropHook
<1>8. ASSUME NEW j \in jobs, Hooks!Deliver(j) PROVE UNCHANGED <<wsLog, wsSeq>>
  BY <1>8 DEF Hooks!Deliver
<1>9. CASE Hooks!Next
  BY <1>9, <1>2, <1>3, <1>a, <1>4, <1>5, <1>6, <1>7, <1>8 DEF Hooks!Next
<1> QED BY <1>1, <1>9

(* As many entries as submissions began, at most: their names differ.       *)
EvNames ==
  /\ begun <= MaxEntries
  /\ \A i \in DOMAIN entries : entries[i].id \in 1 .. begun
  /\ \A i, j \in DOMAIN entries : entries[i].id = entries[j].id => i = j
  /\ \A s \in Submitters : Busy(s) => sb[s].id \in 1 .. begun
  /\ \A s, t \in Submitters : Busy(s) /\ Busy(t) /\ sb[s].id = sb[t].id => s = t
  /\ \A s \in Submitters : sb[s].pc = "store" => \A i \in DOMAIN entries : entries[i].id # sb[s].id
EvBounds ==
  /\ EvNames
  /\ \A s \in Submitters : sb[s].seq <= MaxEntries
  /\ \A x \in Followers : Len(w[x].queue) <= QueueMax

LEMMA EntriesBound == EvShape /\ EvNames => Len(entries) <= MaxEntries
<1> SUFFICES ASSUME EvShape, EvNames PROVE Len(entries) <= MaxEntries
  OBVIOUS
<1>1. /\ entries \in Seq(Entry) /\ begun \in Nat /\ Len(entries) \in Nat /\ DOMAIN entries = 1 .. Len(entries)
      /\ begun <= MaxEntries /\ MaxEntries \in Nat
  BY FollowAssumption DEF EvShape, EvNames
<1> DEFINE f == [i \in 1 .. Len(entries) |-> entries[i].id]
<1>2. f \in Injection(1 .. Len(entries), 1 .. begun)
  <2>1. f \in [1 .. Len(entries) -> 1 .. begun]
    BY <1>1 DEF EvNames
  <2>2. \A i, j \in 1 .. Len(entries) : f[i] = f[j] => i = j
    BY <1>1 DEF EvNames
  <2> HIDE DEF f
  <2>3. IsInjective(f)
    BY <2>1, <2>2 DEF IsInjective
  <2> QED BY <2>1, <2>3 DEF Injection
<1> HIDE DEF f
<1>3. /\ IsFiniteSet(1 .. begun) /\ Cardinality(1 .. begun) = IF 1 > begun THEN 0 ELSE begun - 1 + 1
      /\ Cardinality(1 .. Len(entries)) = IF 1 > Len(entries) THEN 0 ELSE Len(entries) - 1 + 1
  BY <1>1, FS_Interval
<1>4. Cardinality(1 .. Len(entries)) <= Cardinality(1 .. begun)
  BY <1>2, <1>3, FS_Injection
<1> QED BY <1>1, <1>3, <1>4

LEMMA EvBoundsInit == Ev!Init => EvBounds
<1> SUFFICES ASSUME Ev!Init PROVE EvBounds
  OBVIOUS
<1>1. entries = <<>> /\ begun = 0 /\ sb = [s \in Submitters |-> Ev!IdleSub] /\ w = [x \in Followers |-> Ev!NoWatch]
  BY DEF Ev!Init
<1>2. \A s \in Submitters : sb[s].pc = "idle" /\ sb[s].seq = 0
  BY <1>1 DEF Ev!IdleSub
<1>3. \A x \in Followers : w[x].queue = <<>>
  BY <1>1 DEF Ev!NoWatch
<1>4. EvNames
  BY <1>1, <1>2, FollowAssumption DEF EvNames, Busy
<1> QED BY <1>2, <1>3, <1>4, FollowAssumption DEF EvBounds

LEMMA EvBoundsStep == EvInv /\ EvBounds /\ (Ev!Next \/ UNCHANGED evVars) => EvBounds'
<1> SUFFICES ASSUME EvInv, EvBounds, Ev!Next \/ UNCHANGED evVars PROVE EvBounds'
  OBVIOUS
<1>0. /\ EvShape /\ EvNames /\ sb \in [Submitters -> Submission] /\ w \in [Followers -> Following]
      /\ entries \in Seq(Entry) /\ begun \in Nat /\ MaxEntries \in Nat /\ QueueMax \in Nat
      /\ (\A s \in Submitters : sb[s].seq <= MaxEntries) /\ (\A x \in Followers : Len(w[x].queue) <= QueueMax)
  BY FollowAssumption DEF EvInv, EvShape, EvBounds
<1>1. CASE UNCHANGED evVars
  BY <1>1 DEF evVars, EvBounds, EvNames, Busy
(* A step of a submitter that is not its begin.                             *)
<1>2. ASSUME UNCHANGED <<entries, begun>>, NEW s \in Submitters, sb' \in [Submitters -> Submission],
             \A t \in Submitters : t # s => sb'[t] = sb[t],
             sb'[s].seq <= MaxEntries, sb'[s].pc # "store", sb'[s].pc # "idle" => sb[s].pc # "idle" /\ sb'[s].id = sb[s].id
      PROVE  EvNames' /\ \A t \in Submitters : sb'[t].seq <= MaxEntries
  <2>1. \A t \in Submitters : Busy(t)' => Busy(t) /\ sb'[t].id = sb[t].id
    BY <1>2 DEF Busy
  <2>2. \A t \in Submitters : sb'[t].pc = "store" => sb[t].pc = "store" /\ sb'[t].id = sb[t].id
    BY <1>2
  <2>3. \A t \in Submitters : Busy(t)' => sb'[t].id \in 1 .. begun
    BY <2>1, <1>0 DEF EvNames
  <2>4. \A t, u \in Submitters : Busy(t)' /\ Busy(u)' /\ sb'[t].id = sb'[u].id => t = u
    BY <2>1, <1>0 DEF EvNames
  <2>5. \A t \in Submitters : sb'[t].pc = "store" => \A i \in DOMAIN entries : entries[i].id # sb'[t].id
    BY <2>2, <1>0 DEF EvNames
  <2>6. EvNames'
    BY <2>3, <2>4, <2>5, <1>0, <1>2 DEF EvNames
  <2>7. \A t \in Submitters : sb'[t].seq <= MaxEntries
    BY <1>0, <1>2
  <2> QED BY <2>6, <2>7
<1>3. ASSUME UNCHANGED <<entries, begun, sb>> PROVE EvNames' /\ \A t \in Submitters : sb'[t].seq <= MaxEntries
  BY <1>0, <1>3 DEF EvNames, Busy
<1>4. ASSUME NEW s \in Submitters, Ev!Begin(s) PROVE EvBounds'
  <2>1. PICK y : y = [Ev!IdleSub EXCEPT !.pc = "store", !.id = begun + 1, !.seq = Len(entries)]
    OBVIOUS
  <2>2. /\ sb' = [sb EXCEPT ![s] = y] /\ begun' = begun + 1 /\ begun < MaxEntries /\ UNCHANGED <<entries, w>> /\ sb[s].pc = "idle"
    BY <1>4, <2>1 DEF Ev!Begin
  <2>3. y.pc = "store" /\ y.id = begun + 1 /\ y.seq = Len(entries)
    BY <2>1 DEF Ev!IdleSub
  <2>4. sb'[s] = y /\ \A t \in Submitters : t # s => sb'[t] = sb[t]
    BY <1>0, <2>2
  <2>5. Len(entries) <= MaxEntries
    BY <1>0, EntriesBound
  <2>6. \A t \in Submitters : Busy(t) => t # s /\ sb[t].id \in 1 .. begun
    BY <1>0, <2>2 DEF EvNames, Busy
  <2>7. EvNames'
    <3>1. begun' <= MaxEntries /\ \A n \in 1 .. begun : n \in 1 .. begun' /\ n # begun + 1
      BY <1>0, <2>2
    <3>2. begun + 1 \in 1 .. begun'
      BY <1>0, <2>2
    <3>3. \A i \in DOMAIN entries' : entries'[i].id \in 1 .. begun' /\ entries'[i].id # begun + 1
      BY <1>0, <2>2, <3>1 DEF EvNames
    <3>4. \A t \in Submitters : Busy(t)' => (t = s /\ sb'[t].id = begun + 1) \/ (t # s /\ Busy(t) /\ sb'[t].id = sb[t].id /\ sb[t].id \in 1 .. begun)
      BY <2>3, <2>4, <1>0 DEF EvNames, Busy
    <3>5. \A t \in Submitters : Busy(t)' => sb'[t].id \in 1 .. begun'
      BY <3>1, <3>2, <3>4
    <3>6. \A t, u \in Submitters : Busy(t)' /\ Busy(u)' /\ sb'[t].id = sb'[u].id => t = u
      BY <3>1, <3>4, <1>0 DEF EvNames
    <3>7. \A t \in Submitters : sb'[t].pc = "store" => \A i \in DOMAIN entries' : entries'[i].id # sb'[t].id
      BY <3>3, <2>2, <2>3, <2>4, <1>0 DEF EvNames
    <3>8. \A i, j \in DOMAIN entries' : entries'[i].id = entries'[j].id => i = j
      BY <1>0, <2>2 DEF EvNames
    <3> QED BY <3>1, <3>3, <3>5, <3>6, <3>7, <3>8 DEF EvNames
  <2>8. \A t \in Submitters : sb'[t].seq <= MaxEntries
    BY <1>0, <2>3, <2>4, <2>5
  <2> QED BY <1>0, <2>2, <2>7, <2>8 DEF EvBounds
<1>5. ASSUME NEW s \in Submitters, Ev!Store(s) PROVE EvBounds'
  <2>1. PICK e : e = [id |-> sb[s].id, seq |-> sb[s].seq]
    OBVIOUS
  <2>2. /\ entries' = Append(entries, e) /\ sb' = [sb EXCEPT ![s].pc = "list"] /\ sb[s].pc = "store" /\ UNCHANGED <<w, begun>>
    BY <1>5, <2>1 DEF Ev!Store
  <2>3. /\ \A t \in Submitters : sb'[t].id = sb[t].id /\ sb'[t].seq = sb[t].seq
        /\ \A t \in Submitters : t # s => sb'[t].pc = sb[t].pc
        /\ sb'[s].pc = "list"
    BY <1>0, <2>2 DEF Submission
  <2>4. Busy(s) /\ e.id = sb[s].id /\ e.id \in 1 .. begun /\ \A i \in DOMAIN entries : entries[i].id # e.id
    BY <1>0, <2>1, <2>2 DEF EvNames, Busy
  <2>5. /\ DOMAIN entries = 1 .. Len(entries) /\ Len(entries) \in Nat /\ DOMAIN entries' = 1 .. Len(entries) + 1
        /\ entries'[Len(entries) + 1] = e /\ \A i \in DOMAIN entries : entries'[i] = entries[i]
    <3>1. e \in Entry
      BY <1>0, <2>1 DEF Entry, Submission
    <3> QED BY <3>1, <1>0, <2>2
  <2>6. \A t \in Submitters : Busy(t)' = Busy(t)
    BY <2>2, <2>3 DEF Busy
  <2>7. \A i \in DOMAIN entries' : (i \in DOMAIN entries /\ entries'[i].id = entries[i].id) \/ (i = Len(entries) + 1 /\ entries'[i].id = sb[s].id)
    BY <2>4, <2>5
  <2>8. \A i \in DOMAIN entries' : entries'[i].id \in 1 .. begun
    BY <2>4, <2>7, <1>0 DEF EvNames
  <2>9. \A i, j \in DOMAIN entries' : entries'[i].id = entries'[j].id => i = j
    BY <2>4, <2>7, <1>0 DEF EvNames
  <2>10. \A t \in Submitters : sb'[t].pc = "store" => t # s /\ sb[t].pc = "store" /\ Busy(t)
    BY <2>3 DEF Busy
  <2>11. \A t \in Submitters : sb'[t].pc = "store" => \A i \in DOMAIN entries' : entries'[i].id # sb'[t].id
    BY <2>3, <2>4, <2>7, <2>10, <1>0 DEF EvNames
  <2>12. EvNames'
    BY <2>2, <2>3, <2>6, <2>8, <2>9, <2>11, <1>0 DEF EvNames
  <2> QED BY <2>2, <2>3, <2>12, <1>0 DEF EvBounds
<1>6. ASSUME NEW s \in Submitters, Ev!ListSubs(s) PROVE EvBounds'
  <2>1. PICK y : y = [sb[s] EXCEPT !.pc = "put", !.todo = evSubs]
    OBVIOUS
  <2>2. sb' = [sb EXCEPT ![s] = y] /\ UNCHANGED <<entries, begun, w>> /\ sb[s].pc = "list"
    BY <1>6, <2>1 DEF Ev!ListSubs
  <2>3. y \in Submission /\ y.pc = "put" /\ y.id = sb[s].id /\ y.seq = sb[s].seq
    BY <1>0, <2>1 DEF Submission, EvShape
  <2>4. sb' \in [Submitters -> Submission] /\ sb'[s] = y /\ \A t \in Submitters : t # s => sb'[t] = sb[t]
    BY <1>0, <2>2, <2>3
  <2>5. EvNames' /\ \A t \in Submitters : sb'[t].seq <= MaxEntries
    BY <1>0, <1>2, <2>2, <2>3, <2>4
  <2> QED BY <2>2, <2>5, <1>0 DEF EvBounds
<1>7. ASSUME NEW s \in Submitters, Ev!Put(s) PROVE EvBounds'
  <2>1. UNCHANGED <<entries, begun>> /\ sb[s].pc = "put"
    BY <1>7 DEF Ev!Put
  <2>2. CASE sb' = [sb EXCEPT ![s] = Ev!IdleSub] /\ UNCHANGED w
    <3>1. Ev!IdleSub \in Submission /\ Ev!IdleSub.pc = "idle" /\ Ev!IdleSub.seq = 0
      BY DEF Ev!IdleSub, Submission
    <3>2. sb' \in [Submitters -> Submission] /\ sb'[s].pc = "idle" /\ sb'[s].seq = 0 /\ \A t \in Submitters : t # s => sb'[t] = sb[t]
      BY <1>0, <2>2, <3>1
    <3>3. EvNames' /\ \A t \in Submitters : sb'[t].seq <= MaxEntries
      BY <1>0, <1>2, <2>1, <3>2
    <3> QED BY <2>2, <3>3, <1>0 DEF EvBounds
  <2>3. ASSUME NEW x \in sb[s].todo,
               w' = IF Len(w[x].queue) < QueueMax THEN [w EXCEPT ![x].queue = Append(@, sb[s].id)]
                    ELSE [w EXCEPT ![x].dropped = @ \cup {sb[s].id}],
               sb' = [sb EXCEPT ![s].todo = @ \ {x}]
        PROVE  EvBounds'
    <3>1. PICK y : y = [sb[s] EXCEPT !.todo = @ \ {x}]
      OBVIOUS
    <3>2. sb' = [sb EXCEPT ![s] = y]
      BY <2>3, <3>1
    <3>3. y \in Submission /\ y.pc = "put" /\ y.id = sb[s].id /\ y.seq = sb[s].seq
      BY <1>0, <2>1, <3>1 DEF Submission
    <3>4. sb' \in [Submitters -> Submission] /\ sb'[s] = y /\ \A t \in Submitters : t # s => sb'[t] = sb[t]
      BY <1>0, <3>2, <3>3
    <3>5. EvNames' /\ \A t \in Submitters : sb'[t].seq <= MaxEntries
      BY <1>0, <1>2, <2>1, <3>3, <3>4
    <3>6. \A z \in Followers : Len(w'[z].queue) <= QueueMax
      <4> SUFFICES ASSUME NEW z \in Followers PROVE Len(w'[z].queue) <= QueueMax
        OBVIOUS
      <4>1. w[z] \in Following /\ w[z].queue \in Seq(Nat) /\ sb[s].id \in Nat /\ Len(w[z].queue) <= QueueMax
        BY <1>0 DEF Following, Submission
      <4>2. CASE z = x /\ Len(w[x].queue) < QueueMax
        <5>1. w'[z] = [w[z] EXCEPT !.queue = Append(@, sb[s].id)]
          BY <2>3, <4>2, <1>0
        <5>2. w'[z].queue = Append(w[z].queue, sb[s].id)
          BY <5>1, <4>1 DEF Following
        <5> QED BY <5>2, <4>1, <4>2, <1>0
      <4>3. CASE z = x /\ ~(Len(w[x].queue) < QueueMax)
        <5>1. w'[z] = [w[z] EXCEPT !.dropped = @ \cup {sb[s].id}]
          BY <2>3, <4>3, <1>0
        <5>2. w'[z].queue = w[z].queue
          BY <5>1, <4>1 DEF Following
        <5> QED BY <5>2, <4>1
      <4>4. CASE z # x
        <5>1. w'[z] = w[z]
          BY <2>3, <4>4, <1>0
        <5> QED BY <5>1, <4>1
      <4> QED BY <4>2, <4>3, <4>4
    <3> QED BY <3>5, <3>6 DEF EvBounds
  <2> QED BY <2>2, <2>3, <1>7 DEF Ev!Put
<1>8. ASSUME NEW x \in Followers, UNCHANGED <<entries, begun, sb>>, NEW y, w' = [w EXCEPT ![x] = y],
             Len(y.queue) <= QueueMax
      PROVE  EvBounds'
  <2>1. EvNames' /\ \A t \in Submitters : sb'[t].seq <= MaxEntries
    BY <1>3, <1>8
  <2>2. \A z \in Followers : Len(w'[z].queue) <= QueueMax
    BY <1>0, <1>8
  <2> QED BY <2>1, <2>2 DEF EvBounds
<1>9. ASSUME NEW x \in Followers, Ev!Open(x) PROVE EvBounds'
  <2>1. PICK y : y = [Ev!NoWatch EXCEPT !.pc = "replay", !.got = Ev!Ids]
    OBVIOUS
  <2>2. w' = [w EXCEPT ![x] = y] /\ UNCHANGED <<entries, begun, sb>>
    BY <1>9, <2>1 DEF Ev!Open
  <2>3. y.queue = <<>>
    BY <2>1 DEF Ev!NoWatch
  <2>4. Len(y.queue) <= QueueMax
    BY <2>3, <1>0
  <2> QED BY <2>2, <2>4, <1>8
<1>10. ASSUME NEW x \in Followers, Ev!Register(x) PROVE EvBounds'
  <2>1. PICK y : y = [w[x] EXCEPT !.pc = "live", !.from = Len(entries)]
    OBVIOUS
  <2>2. w' = [w EXCEPT ![x] = y] /\ UNCHANGED <<entries, begun, sb>>
    BY <1>10, <2>1 DEF Ev!Register
  <2>3. w[x] \in Following /\ Len(w[x].queue) <= QueueMax
    BY <1>0
  <2>4. y.queue = w[x].queue
    BY <2>1, <2>3 DEF Following
  <2> QED BY <2>2, <2>3, <2>4, <1>8
<1>11. ASSUME NEW x \in Followers, Ev!Write(x) PROVE EvBounds'
  <2>1. PICK y : y = [w[x] EXCEPT !.queue = Tail(@), !.got = Append(@, Head(w[x].queue))]
    OBVIOUS
  <2>2. w' = [w EXCEPT ![x] = y] /\ UNCHANGED <<entries, begun, sb>> /\ w[x].queue # <<>>
    BY <1>11, <2>1 DEF Ev!Write
  <2>3. w[x] \in Following /\ w[x].queue \in Seq(Nat) /\ w[x].got \in Seq(Nat) /\ Len(w[x].queue) <= QueueMax
    BY <1>0 DEF Following
  <2>4. Tail(w[x].queue) \in Seq(Nat) /\ Head(w[x].queue) \in Nat /\ Len(Tail(w[x].queue)) <= QueueMax
    BY <2>2, <2>3, <1>0
  <2>5. y.queue = Tail(w[x].queue)
    BY <2>1, <2>3 DEF Following
  <2> QED BY <2>2, <2>4, <2>5, <1>8
<1>12. ASSUME NEW x \in Followers, Ev!Leave(x) PROVE EvBounds'
  <2>1. PICK y : y = [w[x] EXCEPT !.pc = "gone"]
    OBVIOUS
  <2>2. w' = [w EXCEPT ![x] = y] /\ UNCHANGED <<entries, begun, sb>>
    BY <1>12, <2>1 DEF Ev!Leave
  <2>3. w[x] \in Following /\ Len(w[x].queue) <= QueueMax
    BY <1>0
  <2>4. y.queue = w[x].queue
    BY <2>1, <2>3 DEF Following
  <2> QED BY <2>2, <2>3, <2>4, <1>8
<1>13. CASE Ev!Next
  BY <1>13, <1>4, <1>5, <1>6, <1>7, <1>9, <1>10, <1>11, <1>12 DEF Ev!Next
<1> QED BY <1>1, <1>13

-----------------------------------------------------------------------------
BoundsInv ==
  /\ FollowInv /\ TypeOK /\ (part = "http2" => H2Inv)
  /\ part = "frames" => FrameBounds
  /\ part = "hooks" => HookBounds
  /\ part \in {"submit", "watch"} => EvBounds

(* TypesOK of run events: every part keeps its types, the logs, the queues  *)
(* and the numbers their bounds.                                            *)
THEOREM FollowTypes == MCSpec => []TypesOK
<1>1. MCInit => BoundsInv
  <2> SUFFICES ASSUME MCInit PROVE BoundsInv
    OBVIOUS
  <2>1. FollowInv
    BY FrameInit, HookInit, EvInit DEF MCInit, FollowInv
  <2>2. TypeOK
    BY InitTypes DEF MCInit
  <2>3. part = "http2" => H2Inv
    BY H2Init DEF MCInit
  <2>4. part = "hooks" => HookBounds
    <3> SUFFICES ASSUME Hooks!Init PROVE HookBounds
      BY DEF MCInit
    <3>1. wsLog = <<>> /\ wsSeq = 0
      BY DEF Hooks!Init
    <3> QED BY <3>1, FollowAssumption DEF HookBounds, LogBound
  <2> QED BY <2>1, <2>2, <2>3, <2>4, FrameBoundsInit, EvBoundsInit DEF MCInit, BoundsInv
<1>2. BoundsInv /\ [MCNext]_<<part, vars, wsVars, evVars, h2Vars>> => BoundsInv'
  <2> SUFFICES ASSUME BoundsInv, [MCNext]_<<part, vars, wsVars, evVars, h2Vars>> PROVE BoundsInv'
    OBVIOUS
  <2>1. part' = part
    BY DEF MCNext
  <2>2. part = "frames" => Frames!Next \/ UNCHANGED wsVars
    BY DEF MCNext, Parts
  <2>3. part = "hooks" => Hooks!Next \/ UNCHANGED wsVars
    BY DEF MCNext, Parts
  <2>4. part \in {"submit", "watch"} => Ev!Next \/ UNCHANGED evVars
    BY DEF MCNext, Parts
  <2>5. part = "http2" => H2!Next \/ UNCHANGED h2Vars
    BY DEF MCNext, Parts
  <2>6. Next \/ UNCHANGED vars
    BY DEF MCNext, Parts
  <2>7. FollowInv'
    BY FollowStep DEF BoundsInv
  <2>8. TypeOK'
    BY <2>6, StreamTypeStep DEF BoundsInv
  <2>9. part = "frames" => FrameBounds'
    BY <2>2, FrameBoundsStep DEF BoundsInv, FollowInv
  <2>10. part = "hooks" => HookBounds'
    BY <2>3, HookBoundsStep DEF BoundsInv, FollowInv
  <2>11. part \in {"submit", "watch"} => EvBounds'
    BY <2>4, EvBoundsStep DEF BoundsInv, FollowInv
  <2>12. part = "http2" => H2Inv'
    BY <2>5, H2Step DEF BoundsInv
  <2> QED BY <2>1, <2>7, <2>8, <2>9, <2>10, <2>11, <2>12 DEF BoundsInv
<1>3. BoundsInv => TypesOK
  <2> SUFFICES ASSUME BoundsInv PROVE TypesOK
    OBVIOUS
  <2>1. ASSUME part = "frames" PROVE Frames!TypeOK
    <3>1. FrameTypes /\ Locks /\ FrameBounds
      BY <2>1 DEF BoundsInv, FollowInv, FrameInv
    <3>2. \A c \in Connections : lock[c] \in Publishers => wsPub[lock[c]].to = c
      BY <3>1 DEF Locks, LockIsHeld
    <3>3. \A c \in Connections : lock[c] \in Connections => lock[c] = c /\ cl[c].half = 2
      BY <3>1 DEF Locks, LockIsHeld
    <3>4. reg \in [{} -> {} \cup {Free}]
      BY <3>1 DEF FrameBounds
    <3> QED BY <3>1, <3>2, <3>3, <3>4 DEF Frames!TypeOK, FrameTypes, FrameBounds, LogBound
  <2>2. ASSUME part = "hooks" PROVE Hooks!TypeOK
    <3>1. HookShape /\ HookBounds
      BY <2>2 DEF BoundsInv, FollowInv, HookInv
    <3> QED BY <3>1 DEF Hooks!TypeOK, HookShape, HookBounds, LogBound
  <2>3. ASSUME part \in {"submit", "watch"} PROVE Ev!TypeOK
    <3>1. EvShape /\ EvBounds
      BY <2>3 DEF BoundsInv, FollowInv, EvInv
    <3>2. Len(entries) <= MaxEntries
      BY <3>1, EntriesBound DEF EvBounds
    <3>3. \A s \in Submitters : sb[s].todo \subseteq Followers /\ sb[s].seq \in 0 .. MaxEntries
      BY <3>1, FollowAssumption DEF EvShape, EvBounds, Submission
    <3> QED BY <3>1, <3>2, <3>3 DEF Ev!TypeOK, EvShape, EvBounds
  <2>4. ASSUME part = "http2" PROVE H2!TypeOK
    <3>1. H2Types
      BY <2>4 DEF BoundsInv, H2Inv
    <3> QED BY <3>1 DEF H2!TypeOK, H2Types
  <2> QED BY <2>1, <2>2, <2>3, <2>4 DEF TypesOK, BoundsInv
<1> QED BY <1>1, <1>2, <1>3, PTL DEF MCSpec

=============================================================================
