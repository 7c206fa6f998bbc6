---------------------------- MODULE SendPathProofs ----------------------------
(* Proofs about SendPath, for every set of threads, ids and bounds: its     *)
(* types, what the answers to clients say, and that two relays implement    *)
(* Mailbox.                                                                 *)
EXTENDS SendPath, PickingProofs, FiniteSetTheorems

-----------------------------------------------------------------------------
(* The inductive invariant, in parts.                                       *)

(* A client of relay r uses the id: no client of the other relay does.      *)
Sender(id, r) == \E t \in Threads : Home[t] = r /\ id \in Uses[t]

Req == [id : Ids \cup {""}, mode : AllModes \cup {""}, at : 0 .. MaxReqs, old : 0 .. MaxReqs,
        size : Nat, drop : Seq(Ids), seq : 0 .. MaxReqs]

Unique(s) == \A i, j \in DOMAIN s : s[i].id = s[j].id => i = j

Types ==
  /\ seen \in [Relays -> Seq(Entry)] /\ \A r \in Relays : Unique(seen[r])
  /\ number \in [Relays -> Nat]
  /\ pc \in [Threads -> Places] /\ req \in [Threads -> Req]
  /\ \A t \in Threads : pc[t] # "idle" =>
       /\ req[t].id \in Uses[t] /\ req[t].mode \in Modes[t]
       /\ req[t].at \in 1 .. clock /\ req[t].old \in 0 .. expired
  /\ ws \in [Relays -> {"up", "broken", "none"}]
  /\ wire \in [Relays -> Seq(Frame)]
  /\ offline \in [Relays -> Seq(Frame)]
  /\ inbox \in [Relays -> Seq(Ids)]
  /\ ackOf \in [Ids -> {"none", "unset", "set"}]
  /\ replyOf \in [Ids -> {"none", "unset", "set"}]
  /\ clock \in 0 .. MaxReqs /\ expired \in 0 .. clock
  /\ forgot \in [Relays -> SUBSET Ids]

(* Who waits for an ack has its Event, and nobody else has one.             *)
WaitersHaveEvents ==
  \A i \in Ids : ackOf[i] # "none" <=> \E t \in Threads : pc[t] = "wait" /\ req[t].id = i

(* A number is taken by a request that came; those still to take one came,  *)
(* too, each at a time of its own.                                          *)
Unnumbered(t) == pc[t] \in {"scan", "evict", "check"}
Pending(r) == {req[t].at : t \in {u \in Threads : Home[u] = r /\ Unnumbered(u)}}
NumbersAreRequests ==
  /\ \A t, u \in Threads : Unnumbered(t) /\ Unnumbered(u) /\ req[t].at = req[u].at => t = u
  /\ \A r \in Relays : number[r] + Cardinality(Pending(r)) <= clock

(* The connection is there for both relays or for none; what is on the wire *)
(* needs it, what is offline waits for it.                                  *)
Joined ==
  /\ ws[1] = "up" <=> ws[2] = "up"
  /\ \A r \in Relays : wire[r] # <<>> => ws[r] = "up"
  /\ \A r \in Relays : offline[r] # <<>> => ws[r] # "up"

(* Messages come from clients of the other relay, and are stored with their *)
(* ids; acks and replies tell of what is stored.                            *)
FramesAreTrue ==
  \A r \in Relays :
    /\ \A f \in ToSet(wire[r]) : IF f.kind = "msg" THEN Sender(f.id, Other(r))
                                 ELSE f.id \in ToSet(inbox[Other(r)])
    /\ \A f \in ToSet(offline[r]) : IF f.kind = "msg" THEN Sender(f.id, r)
                                    ELSE f.id \in ToSet(inbox[r])
    /\ \A id \in ToSet(inbox[r]) : Sender(id, Other(r))

Stored(id) == \E r \in Relays : id \in ToSet(inbox[r])
ToldIsStored ==
  /\ \A id \in Ids : ackOf[id] = "set" \/ replyOf[id] = "set" => Stored(id)
  /\ \A a \in answers : a.kind \in {"acked", "replied"} => a.id \in Ids /\ Stored(a.id)

(* What a relay has stored is in its table, without a time, or forgotten;   *)
(* and its table holds what it stored and what its own clients sent.        *)
TableIsTrue ==
  \A r \in Relays :
    /\ \A e \in ToSet(seen[r]) : IF e.at = 0 THEN e.id \in ToSet(inbox[r]) ELSE Sender(e.id, r)
    /\ \A id \in ToSet(inbox[r]) : id \in forgot[r] \/ Has(seen[r], id)

(* A cached number was sent.                                                *)
CachedIsSent ==
  /\ \A r \in Relays : \A e \in ToSet(seen[r]) : e.seq # 0 => <<e.id, e.seq>> \in sent
  /\ \A t \in Threads : pc[t] = "record" => <<req[t].id, req[t].seq>> \in sent
  /\ CachedSeqWasSent

(* Whoever let an id through finds it in the table, with its time or a      *)
(* later one, until it is older than the window or the cap removed it; a    *)
(* thread on its way to let it through has found just that.                 *)
Covered(x, r) == x.at <= expired \/ x.id \in forgot[r]
                 \/ \E e \in ToSet(seen[r]) : e.id = x.id /\ e.at >= x.at
AdmitsAreRemembered ==
  /\ \A x \in admits : x.at \in 1 .. clock
                       /\ \E t \in Threads : x.id \in Uses[t] /\ Covered(x, Home[t])
  /\ \A t \in Threads : pc[t] \in {"scan", "evict"} =>
       \A x \in admits : x.id = req[t].id =>
         x.at < req[t].at /\ (x.at <= req[t].old \/ x.id \in forgot[Home[t]])
  /\ \A t \in Threads : pc[t] = "evict" =>
       \A e \in ToSet(seen[Home[t]]) : e.id \in ToSet(req[t].drop) => e.at <= req[t].old
  /\ AdmittedOncePerWindow

SendInv == /\ Types /\ WaitersHaveEvents /\ NumbersAreRequests /\ Joined /\ FramesAreTrue
           /\ ToldIsStored /\ TableIsTrue /\ CachedIsSent

-----------------------------------------------------------------------------
(* The table of ids, as a set of entries.                                   *)

LEMMA HasSet ==
  ASSUME NEW s \in Seq(Entry), NEW id
  PROVE  Has(s, id) <=> \E e \in ToSet(s) : e.id = id
BY DEF Has, ToSet

LEMMA OfSet ==
  ASSUME NEW s \in Seq(Entry), NEW id, Has(s, id)
  PROVE  Of(s, id) \in ToSet(s) /\ Of(s, id).id = id /\ Of(s, id) \in Entry
<1>1. PICK i \in DOMAIN s : s[i].id = id /\ Of(s, id) = s[i]
  BY DEF Has, Of
<1>2. DOMAIN s = 1 .. Len(s) /\ s[i] \in Entry
  OBVIOUS
<1> QED BY <1>1, <1>2 DEF ToSet

LEMMA UniqueSet ==
  ASSUME NEW s \in Seq(Entry), Unique(s), NEW e \in ToSet(s), NEW f \in ToSet(s), e.id = f.id
  PROVE  e = f
BY DEF Unique, ToSet

LEMMA DelSet ==
  ASSUME NEW s \in Seq(Entry), Unique(s), NEW id
  PROVE  /\ Del(s, id) \in Seq(Entry) /\ Unique(Del(s, id))
         /\ ToSet(Del(s, id)) = {e \in ToSet(s) : e.id # id}
<1> DEFINE T == {e \in Entry : e.id # id}
           F == [e \in Entry |-> e.id]
<1>1. Del(s, id) \in Seq(Entry) /\ ToSet(Del(s, id)) = ToSet(s) \cap T
  BY ElementsOfPick DEF Del
<1>2. ToSet(s) \subseteq Entry
  BY ElementsOf
<1>3. ASSUME NEW i \in DOMAIN s, NEW j \in DOMAIN s, F[s[i]] = F[s[j]] PROVE i = j
  <2>1. s[i] \in Entry /\ s[j] \in Entry
    OBVIOUS
  <2> QED BY <2>1, <1>3 DEF Unique
<1>4. \A k, l \in DOMAIN Pick(s, T) : F[Pick(s, T)[k]] = F[Pick(s, T)[l]] => k = l
  <2> HIDE DEF T, F
  <2> QED BY <1>3, PickKeepsInjective
<1>5. \A k \in DOMAIN Del(s, id) : Del(s, id)[k] \in Entry
  BY <1>1
<1>6. Unique(Del(s, id))
  BY <1>4, <1>5 DEF Unique, Del
<1> QED BY <1>1, <1>2, <1>6

LEMMA PutSet ==
  ASSUME NEW s \in Seq(Entry), Unique(s), NEW e \in Entry
  PROVE  /\ Put(s, e) \in Seq(Entry) /\ Unique(Put(s, e))
         /\ ToSet(Put(s, e)) = {f \in ToSet(s) : f.id # e.id} \cup {e}
<1> DEFINE t == Put(s, e)
<1>1. CASE Has(s, e.id)
  <2>1. t = [i \in DOMAIN s |-> IF s[i].id = e.id THEN e ELSE s[i]]
    BY <1>1 DEF Put
  <2>2. PICK k \in DOMAIN s : s[k].id = e.id
    BY <1>1 DEF Has
  <2>3. t \in Seq(Entry) /\ DOMAIN t = DOMAIN s
    BY <2>1
  <2>4. \A i \in DOMAIN s : t[i] = (IF s[i].id = e.id THEN e ELSE s[i]) /\ t[i].id = s[i].id
    BY <2>1
  <2>5. t[k] = e
    BY <2>2, <2>4
  <2> HIDE DEF t
  <2>6. Unique(t)
    BY <2>3, <2>4 DEF Unique
  <2>7. ToSet(t) = {f \in ToSet(s) : f.id # e.id} \cup {e}
    <3>1. ASSUME NEW f \in ToSet(t) PROVE f \in {g \in ToSet(s) : g.id # e.id} \cup {e}
      BY <2>3, <2>4, <3>1 DEF ToSet
    <3>2. ASSUME NEW f \in ToSet(s), f.id # e.id PROVE f \in ToSet(t)
      BY <2>3, <2>4, <3>2 DEF ToSet
    <3>3. e \in ToSet(t)
      BY <2>2, <2>3, <2>5 DEF ToSet
    <3> QED BY <3>1, <3>2, <3>3
  <2> QED BY <2>3, <2>6, <2>7 DEF t
<1>2. CASE ~Has(s, e.id)
  <2>1. t = Append(s, e)
    BY <1>2 DEF Put
  <2>2. t \in Seq(Entry) /\ ToSet(t) = ToSet(s) \cup {e}
    BY <2>1, ElementsOfAppend
  <2>3. \A i \in DOMAIN s : s[i].id # e.id
    BY <1>2 DEF Has
  <2>4. Unique(t)
    <3>1. DOMAIN t = 1 .. Len(s) + 1 /\ DOMAIN s = 1 .. Len(s) /\ Len(s) \in Nat
      BY <2>1
    <3>2. t[Len(s) + 1] = e /\ \A i \in DOMAIN s : t[i] = s[i]
      BY <2>1
    <3> HIDE DEF t
    <3> QED BY <2>3, <3>1, <3>2 DEF Unique
  <2>5. \A f \in ToSet(s) : f.id # e.id
    BY <2>3 DEF ToSet
  <2> HIDE DEF t
  <2> QED BY <2>2, <2>4, <2>5 DEF t
<1> QED BY <1>1, <1>2

LEMMA CappedSet ==
  ASSUME NEW s \in Seq(Entry), Unique(s)
  PROVE  /\ Capped(s) \in Seq(Entry) /\ Unique(Capped(s))
         /\ ToSet(Capped(s)) \subseteq ToSet(s)
         /\ \A e \in ToSet(s) : e \in ToSet(Capped(s)) \/ e.id \in Lost(s)
         /\ Lost(s) \subseteq Ids
<1>1. CASE Len(s) > SeenMax
  <2>1. Capped(s) = Tail(s) /\ Lost(s) = {Head(s).id}
    BY <1>1 DEF Capped, Lost
  <2>2. s # <<>>
    BY <1>1, SendAssumption
  <2>3. Tail(s) \in Seq(Entry) /\ ToSet(Tail(s)) \subseteq ToSet(s)
        /\ ToSet(s) = ToSet(Tail(s)) \cup {Head(s)}
    BY <2>2, ElementsOfTail
  <2>4. Head(s) \in Entry
    BY <2>2
  <2>5. Unique(Tail(s))
    <3>1. DOMAIN Tail(s) = 1 .. Len(s) - 1 /\ DOMAIN s = 1 .. Len(s) /\ Len(s) \in Nat
      BY <2>2
    <3>2. \A i \in DOMAIN Tail(s) : Tail(s)[i] = s[i + 1] /\ i + 1 \in DOMAIN s /\ i \in Nat
      BY <2>2, <3>1
    <3> QED BY <3>2 DEF Unique
  <2> QED BY <2>1, <2>3, <2>4, <2>5 DEF Entry
<1>2. CASE ~(Len(s) > SeenMax)
  BY <1>2 DEF Capped, Lost
<1> QED BY <1>1, <1>2

-----------------------------------------------------------------------------
(* What every step of a proof below starts from.                            *)

LEMMA ConstantsTyped ==
  /\ MaxReqs \in Nat /\ MaxExpire \in Nat /\ MaxBreaks \in Nat
  /\ \A t \in Threads : Home[t] \in Relays /\ Uses[t] \subseteq Ids /\ Modes[t] \subseteq AllModes
  /\ \A r \in Relays : Other(r) \in Relays /\ Other(r) # r /\ Other(Other(r)) = r
<1>1. \A t \in Threads : Home[t] \in Relays /\ Uses[t] \subseteq Ids /\ Modes[t] \subseteq AllModes
  BY SendAssumption
<1> QED BY <1>1, SendAssumption DEF Relays, Other

LEMMA IdHasOneSender ==
  ASSUME NEW id, NEW r \in Relays
  PROVE  ~(Sender(id, r) /\ Sender(id, Other(r)))
BY SendAssumption, ConstantsTyped DEF Sender

(* A thread that has yet to take its number finds one left for it.          *)
LEMMA PendingAreTimes ==
  ASSUME Types, NEW r \in Relays
  PROVE  /\ Pending(r) \subseteq 1 .. clock
         /\ IsFiniteSet(Pending(r)) /\ Cardinality(Pending(r)) \in Nat
<1>1. Pending(r) \subseteq 1 .. clock
  BY DEF Pending, Unnumbered, Types
<1>2. clock \in Int
  BY ConstantsTyped DEF Types
<1>3. IsFiniteSet(1 .. clock)
  BY <1>2, FS_Interval
<1>4. IsFiniteSet(Pending(r))
  BY <1>1, <1>3, FS_Subset
<1> QED BY <1>1, <1>4, FS_CardinalityType

LEMMA NumberLeft ==
  ASSUME Types, NumbersAreRequests, NEW t \in Threads, Unnumbered(t)
  PROVE  number[Home[t]] + 1 <= clock
<1> DEFINE P == Pending(Home[t])
<1>1. Home[t] \in Relays
  BY ConstantsTyped
<1>2. IsFiniteSet(P) /\ Cardinality(P) \in Nat
  BY <1>1, PendingAreTimes
<1>3. req[t].at \in P
  BY DEF Pending
<1>4. Cardinality(P) # 0
  BY <1>2, <1>3, FS_EmptySet
<1>5. number[Home[t]] + Cardinality(P) <= clock /\ number[Home[t]] \in Nat /\ clock \in Nat
  BY <1>1 DEF NumbersAreRequests, Types
<1> QED BY <1>2, <1>4, <1>5

-----------------------------------------------------------------------------
(* Types.                                                                   *)

LEMMA NoReqTyped == NoReq \in Req
BY ConstantsTyped DEF NoReq, Req

(* The locals of a thread that goes on or is done.                          *)
LEMMA GotoTyped ==
  ASSUME Types, NEW t \in Threads, NEW place \in Places, Goto(t, place), pc[t] # "idle",
         clock' = clock, expired' = expired
  PROVE  /\ pc' \in [Threads -> Places] /\ req' \in [Threads -> Req]
         /\ \A u \in Threads : pc'[u] # "idle" =>
              /\ req'[u].id \in Uses[u] /\ req'[u].mode \in Modes[u]
              /\ req'[u].at \in 1 .. clock' /\ req'[u].old \in 0 .. expired'
BY DEF Types, Goto

LEMMA DoneTyped ==
  ASSUME Types, NEW t \in Threads, Done(t), clock' = clock, expired' = expired
  PROVE  /\ pc' \in [Threads -> Places] /\ req' \in [Threads -> Req]
         /\ \A u \in Threads : pc'[u] # "idle" =>
              /\ req'[u].id \in Uses[u] /\ req'[u].mode \in Modes[u]
              /\ req'[u].at \in 1 .. clock' /\ req'[u].old \in 0 .. expired'
BY NoReqTyped DEF Types, Done, Places

(* The locals of a thread that notes something and goes on.                 *)
LEMMA NotesTyped ==
  ASSUME Types, NEW t \in Threads, pc[t] # "idle", NEW place \in Places, NEW new \in Req,
         new.id = req[t].id, new.mode = req[t].mode, new.at = req[t].at, new.old = req[t].old,
         pc' = [pc EXCEPT ![t] = place], req' = [req EXCEPT ![t] = new],
         clock' = clock, expired' = expired
  PROVE  /\ pc' \in [Threads -> Places] /\ req' \in [Threads -> Req]
         /\ \A u \in Threads : pc'[u] # "idle" =>
              /\ req'[u].id \in Uses[u] /\ req'[u].mode \in Modes[u]
              /\ req'[u].at \in 1 .. clock' /\ req'[u].old \in 0 .. expired'
BY DEF Types

LEMMA DropTyped ==
  ASSUME NEW q \in Req, NEW d \in Seq(Ids)
  PROVE  /\ q.drop \in Seq(Ids) /\ [q EXCEPT !.drop = d] \in Req
         /\ [q EXCEPT !.drop = d].id = q.id /\ [q EXCEPT !.drop = d].mode = q.mode
         /\ [q EXCEPT !.drop = d].at = q.at /\ [q EXCEPT !.drop = d].old = q.old
BY DEF Req

LEMMA SeqTyped ==
  ASSUME NEW q \in Req, NEW n \in 0 .. MaxReqs
  PROVE  /\ [q EXCEPT !.seq = n] \in Req
         /\ [q EXCEPT !.seq = n].id = q.id /\ [q EXCEPT !.seq = n].mode = q.mode
         /\ [q EXCEPT !.seq = n].at = q.at /\ [q EXCEPT !.seq = n].old = q.old
BY DEF Req

LEMMA NewReqTyped ==
  ASSUME NEW id \in Ids, NEW mode \in AllModes, NEW at \in 0 .. MaxReqs, NEW old \in 0 .. MaxReqs,
         NEW size \in Nat
  PROVE  LET new == [id |-> id, mode |-> mode, at |-> at, old |-> old, size |-> size,
                     drop |-> <<>>, seq |-> 0]
         IN new \in Req /\ new.id = id /\ new.mode = mode /\ new.at = at /\ new.old = old
<1>1. 0 \in 0 .. MaxReqs /\ <<>> \in Seq(Ids)
  BY ConstantsTyped
<1> QED BY <1>1 DEF Req

LEMMA IdsOfEntries ==
  ASSUME NEW es \in Seq(Entry)
  PROVE  [i \in DOMAIN es |-> es[i].id] \in Seq(Ids)
<1> DEFINE ids == [i \in DOMAIN es |-> es[i].id]
<1>1. \A i \in 1 .. Len(es) : es[i] \in Entry
  OBVIOUS
<1>2. \A i \in 1 .. Len(es) : es[i].id \in Ids
  BY <1>1 DEF Entry
<1>3. ids \in [1 .. Len(es) -> Ids] /\ Len(es) \in Nat
  BY <1>2
<1> HIDE DEF ids
<1>4. ids \in Seq(Ids)
  BY <1>3, FunctionIsSeq
<1> QED BY <1>4 DEF ids

LEMMA TypesStep ==
  ASSUME Types, NumbersAreRequests, [Next]_vars
  PROVE  Types'
<1> USE DEF table, net, time, waiters, past
<1>c. /\ MaxReqs \in Nat
      /\ \A t \in Threads : Home[t] \in Relays /\ Uses[t] \subseteq Ids /\ Modes[t] \subseteq AllModes
      /\ \A r \in Relays : Other(r) \in Relays
  BY ConstantsTyped
<1>s. \A r \in Relays : seen[r] \in Seq(Entry) /\ Unique(seen[r])
  BY DEF Types
<1>q. \A t \in Threads : req[t] \in Req
  BY DEF Types
<1>1. ASSUME NEW t \in Threads, NEW id \in Uses[t], NEW mode \in Modes[t], Request(t, id, mode)
      PROVE  Types'
  <2>1. clock \in 0 .. MaxReqs /\ clock < MaxReqs /\ clock' = clock + 1 /\ expired' = expired
        /\ expired \in 0 .. clock
    BY <1>1 DEF Request, Types
  <2>2. clock' \in 1 .. MaxReqs /\ expired' \in 0 .. clock' /\ expired \in 0 .. MaxReqs
    BY <2>1, <1>c
  <2> DEFINE new == [id |-> id, mode |-> mode, at |-> clock + 1, old |-> expired,
                     size |-> Len(seen[Home[t]]), drop |-> <<>>, seq |-> 0]
  <2>3. /\ new \in Req /\ new.id = id /\ new.mode = mode /\ new.at = clock' /\ new.old = expired
    <3>1. Len(seen[Home[t]]) \in Nat
      BY <1>s, <1>c
    <3>2. id \in Ids /\ mode \in AllModes
      BY <1>c
    <3>3. clock + 1 \in 0 .. MaxReqs /\ 0 \in 0 .. MaxReqs
      BY <2>1, <2>2, <1>c
    <3> QED BY <3>1, <3>2, <3>3, <2>2, <2>1, NewReqTyped
  <2> HIDE DEF new
  <2>4. \/ pc' = pc /\ req' = req
        \/ pc' = [pc EXCEPT ![t] = "scan"] /\ req' = [req EXCEPT ![t] = new]
    BY <1>1 DEF Request, new
  <2>5. /\ pc' \in [Threads -> Places] /\ req' \in [Threads -> Req]
        /\ \A u \in Threads : pc'[u] # "idle" =>
             /\ req'[u].id \in Uses[u] /\ req'[u].mode \in Modes[u]
             /\ req'[u].at \in 1 .. clock' /\ req'[u].old \in 0 .. expired'
    <3>1. CASE pc' = pc /\ req' = req
      BY <3>1, <2>1 DEF Types
    <3>2. CASE pc' = [pc EXCEPT ![t] = "scan"] /\ req' = [req EXCEPT ![t] = new]
      <4>1. pc' \in [Threads -> Places] /\ req' \in [Threads -> Req]
        BY <3>2, <2>3 DEF Types, Places
      <4>2. ASSUME NEW u \in Threads, pc'[u] # "idle"
            PROVE  /\ req'[u].id \in Uses[u] /\ req'[u].mode \in Modes[u]
                   /\ req'[u].at \in 1 .. clock' /\ req'[u].old \in 0 .. expired'
        <5>1. CASE u = t
          <6> req'[u] = new
            BY <3>2, <5>1 DEF Types
          <6> QED BY <5>1, <2>2, <2>3, <2>1
        <5>2. CASE u # t
          BY <4>2, <5>2, <3>2, <2>1 DEF Types
        <5> QED BY <5>1, <5>2
      <4> QED BY <4>1, <4>2
    <3> QED BY <2>4, <3>1, <3>2
  <2>6. UNCHANGED <<seen, forgot, number, ws, wire, offline, inbox, ackOf, replyOf>>
    BY <1>1 DEF Request
  <2> QED BY <2>2, <2>5, <2>6 DEF Types
<1>2. ASSUME NEW t \in Threads, Scan(t) PROVE Types'
  <2>1. UNCHANGED <<seen, forgot, number, ws, wire, offline, inbox, ackOf, replyOf, clock, expired>>
    BY <1>2 DEF Scan
  <2>2. CASE Done(t)
    BY <2>1, <2>2, DoneTyped DEF Types
  <2> DEFINE dead == Pick(seen[Home[t]], {e \in Entry : IsExpired(e, req[t].old, req[t].at)})
             ids == [i \in DOMAIN dead |-> dead[i].id]
  <2>3. CASE pc' = [pc EXCEPT ![t] = "evict"] /\ req' = [req EXCEPT ![t].drop = ids] /\ pc[t] = "scan"
    <3>1. dead \in Seq(Entry)
      BY <1>s, <1>c, ElementsOfPick
    <3> HIDE DEF dead
    <3>2. ids \in Seq(Ids)
      BY <3>1, IdsOfEntries
    <3> HIDE DEF ids
    <3> DEFINE new == [req[t] EXCEPT !.drop = ids]
    <3>3. /\ new \in Req /\ new.id = req[t].id /\ new.mode = req[t].mode
          /\ new.at = req[t].at /\ new.old = req[t].old
      BY <3>2, <1>q, DropTyped
    <3>4. req' = [req EXCEPT ![t] = new]
      BY <2>3
    <3> HIDE DEF new
    <3>5. /\ pc' \in [Threads -> Places] /\ req' \in [Threads -> Req]
          /\ \A u \in Threads : pc'[u] # "idle" =>
               /\ req'[u].id \in Uses[u] /\ req'[u].mode \in Modes[u]
               /\ req'[u].at \in 1 .. clock' /\ req'[u].old \in 0 .. expired'
      BY <2>1, <2>3, <3>3, <3>4, NotesTyped DEF Places
    <3> QED BY <2>1, <3>5 DEF Types
  <2> QED BY <1>2, <2>2, <2>3 DEF Scan
<1>3. ASSUME NEW t \in Threads, Evict(t) PROVE Types'
  <2>1. UNCHANGED <<number, ws, wire, offline, inbox, ackOf, replyOf, clock, expired>>
    BY <1>3 DEF Evict
  <2>2. CASE Done(t) /\ UNCHANGED <<seen, forgot>>
    BY <2>1, <2>2, DoneTyped DEF Types
  <2> DEFINE r == Home[t]
             id == Head(req[t].drop)
  <2>3. CASE ~(Done(t) /\ UNCHANGED <<seen, forgot>>)
    <3>1. /\ pc[t] = "evict" /\ req[t].drop # <<>> /\ pc' = pc
          /\ seen' = [seen EXCEPT ![r] = Del(@, id)]
          /\ forgot' = [forgot EXCEPT ![r] = IF Of(seen[r], id).at = 0 THEN @ \cup {id} ELSE @]
          /\ req' = [req EXCEPT ![t].drop = Tail(@)]
      BY <1>3, <2>3 DEF Evict
    <3>2. req[t].drop \in Seq(Ids) /\ id \in Ids /\ Tail(req[t].drop) \in Seq(Ids)
      <4> req[t].drop \in Seq(Ids)
        BY <1>q DEF Req
      <4> QED BY <3>1
    <3>3. Del(seen[r], id) \in Seq(Entry) /\ Unique(Del(seen[r], id))
      BY <1>s, <1>c, DelSet
    <3>4. seen' \in [Relays -> Seq(Entry)] /\ \A x \in Relays : Unique(seen'[x])
      BY <3>1, <3>3, <1>s, <1>c DEF Types
    <3>5. forgot' \in [Relays -> SUBSET Ids]
      BY <3>1, <3>2, <1>c DEF Types
    <3> DEFINE new == [req[t] EXCEPT !.drop = Tail(@)]
    <3>6. /\ new \in Req /\ new.id = req[t].id /\ new.mode = req[t].mode
          /\ new.at = req[t].at /\ new.old = req[t].old
      BY <3>2, <1>q, DropTyped
    <3>7. req' = [req EXCEPT ![t] = new] /\ pc' = [pc EXCEPT ![t] = "evict"]
      BY <3>1 DEF Types
    <3> HIDE DEF new
    <3>8. /\ pc' \in [Threads -> Places] /\ req' \in [Threads -> Req]
          /\ \A u \in Threads : pc'[u] # "idle" =>
               /\ req'[u].id \in Uses[u] /\ req'[u].mode \in Modes[u]
               /\ req'[u].at \in 1 .. clock' /\ req'[u].old \in 0 .. expired'
      BY <2>1, <3>1, <3>6, <3>7, NotesTyped DEF Places
    <3> QED BY <2>1, <3>4, <3>5, <3>8 DEF Types
  <2> QED BY <2>2, <2>3
<1>4. ASSUME NEW t \in Threads, Record(t) PROVE Types'
  <2> DEFINE r == Home[t]
             e == [id |-> req[t].id, at |-> req[t].at, seq |-> 0]
  <2>1. /\ pc[t] = "evict" /\ Goto(t, "check")
        /\ seen' = [seen EXCEPT ![r] = Put(Capped(seen[r]), e)]
        /\ forgot' = [forgot EXCEPT ![r] = @ \cup Lost(seen[r])]
        /\ UNCHANGED <<number, ws, wire, offline, inbox, ackOf, replyOf, clock, expired>>
    BY <1>4 DEF Record
  <2>2. req[t].id \in Ids /\ req[t].at \in 0 .. MaxReqs
    <3> req[t].id \in Uses[t]
      BY <2>1 DEF Types
    <3> QED BY <1>c, <1>q DEF Req
  <2>3. e \in Entry
    BY <2>2, <1>c DEF Entry
  <2>4. Capped(seen[r]) \in Seq(Entry) /\ Unique(Capped(seen[r])) /\ Lost(seen[r]) \subseteq Ids
    BY <1>s, <1>c, CappedSet
  <2>5. Put(Capped(seen[r]), e) \in Seq(Entry) /\ Unique(Put(Capped(seen[r]), e))
    BY <2>3, <2>4, PutSet
  <2>6. seen' \in [Relays -> Seq(Entry)] /\ \A x \in Relays : Unique(seen'[x])
    BY <2>1, <2>5, <1>s, <1>c DEF Types
  <2>7. forgot' \in [Relays -> SUBSET Ids]
    BY <2>1, <2>4, <1>c DEF Types
  <2>8. /\ pc' \in [Threads -> Places] /\ req' \in [Threads -> Req]
        /\ \A u \in Threads : pc'[u] # "idle" =>
             /\ req'[u].id \in Uses[u] /\ req'[u].mode \in Modes[u]
             /\ req'[u].at \in 1 .. clock' /\ req'[u].old \in 0 .. expired'
    BY <2>1, GotoTyped DEF Places
  <2> QED BY <2>1, <2>6, <2>7, <2>8 DEF Types
<1>5. ASSUME NEW t \in Threads, Refuse(t) PROVE Types'
  <2>1. number' \in [Relays -> Nat]
    <3> number[Home[t]] + 1 \in Nat
      BY <1>c DEF Types
    <3> QED BY <1>5 DEF Refuse, Types
  <2>2. /\ Done(t)
        /\ UNCHANGED <<seen, forgot, ws, wire, offline, inbox, ackOf, replyOf, clock, expired>>
    BY <1>5 DEF Refuse
  <2> QED BY <2>1, <2>2, DoneTyped DEF Types
<1>6. ASSUME NEW t \in Threads, Accept(t) PROVE Types'
  <2>1. /\ pc[t] = "check"
        /\ number' = [number EXCEPT ![Home[t]] = @ + 1]
        /\ req' = [req EXCEPT ![t].seq = number[Home[t]] + 1]
        /\ replyOf' \in {replyOf, [replyOf EXCEPT ![req[t].id] = "unset"]}
        /\ pc' = [pc EXCEPT ![t] = "send"]
        /\ UNCHANGED <<seen, forgot, ws, wire, offline, inbox, ackOf, clock, expired>>
    BY <1>6 DEF Accept
  <2>2. number[Home[t]] \in Nat /\ number[Home[t]] + 1 \in 0 .. MaxReqs
    <3>1. number[Home[t]] \in Nat /\ clock \in 0 .. MaxReqs
      BY <1>c DEF Types
    <3>2. number[Home[t]] + 1 <= clock
      BY <2>1, NumberLeft DEF Unnumbered
    <3> QED BY <3>1, <3>2, <1>c
  <2>3. number' \in [Relays -> Nat]
    <3> number[Home[t]] + 1 \in Nat
      BY <2>2
    <3> QED BY <2>1 DEF Types
  <2> DEFINE new == [req[t] EXCEPT !.seq = number[Home[t]] + 1]
  <2>4. /\ new \in Req /\ new.id = req[t].id /\ new.mode = req[t].mode
        /\ new.at = req[t].at /\ new.old = req[t].old
    BY <2>2, <1>q, SeqTyped
  <2>5. /\ pc' \in [Threads -> Places] /\ req' \in [Threads -> Req]
        /\ \A u \in Threads : pc'[u] # "idle" =>
             /\ req'[u].id \in Uses[u] /\ req'[u].mode \in Modes[u]
             /\ req'[u].at \in 1 .. clock' /\ req'[u].old \in 0 .. expired'
    <3> req' = [req EXCEPT ![t] = new]
      BY <2>1
    <3> HIDE DEF new
    <3> QED BY <2>1, <2>4, NotesTyped DEF Places
  <2>6. replyOf' \in [Ids -> {"none", "unset", "set"}]
    BY <2>1 DEF Types
  <2> QED BY <2>1, <2>3, <2>5, <2>6 DEF Types
<1>7. ASSUME NEW t \in Threads, Send(t) PROVE Types'
  <2> DEFINE r == Home[t]
             m == [kind |-> "msg", id |-> req[t].id]
  <2>1. pc[t] = "send" /\ UNCHANGED <<seen, forgot, number, inbox, ackOf, replyOf, clock, expired>>
    BY <1>7 DEF Send
  <2>2. m \in Frame
    <3> req[t].id \in Uses[t]
      BY <2>1 DEF Types
    <3> QED BY <1>c DEF Frame
  <2>3. wire' \in {wire, [wire EXCEPT ![Other(r)] = Append(@, m)]}
        /\ offline' \in {offline, [offline EXCEPT ![r] = Append(@, m)]}
        /\ ws' \in {ws, [ws EXCEPT ![r] = "none"]}
    BY <1>7 DEF Send, Types
  <2>4. wire' \in [Relays -> Seq(Frame)] /\ offline' \in [Relays -> Seq(Frame)]
        /\ ws' \in [Relays -> {"up", "broken", "none"}]
    <3> HIDE DEF m
    <3>1. Append(wire[Other(r)], m) \in Seq(Frame) /\ Append(offline[r], m) \in Seq(Frame)
      BY <2>2, <1>c DEF Types
    <3>2. wire' \in [Relays -> Seq(Frame)]
      BY <2>3, <3>1 DEF Types
    <3>3. offline' \in [Relays -> Seq(Frame)]
      BY <2>3, <3>1 DEF Types
    <3>4. ws' \in [Relays -> {"up", "broken", "none"}]
      BY <2>3 DEF Types
    <3> QED BY <3>2, <3>3, <3>4
  <2>5. Done(t) \/ \E place \in Places : Goto(t, place)
    BY <1>7 DEF Send, Places
  <2>6. /\ pc' \in [Threads -> Places] /\ req' \in [Threads -> Req]
        /\ \A u \in Threads : pc'[u] # "idle" =>
             /\ req'[u].id \in Uses[u] /\ req'[u].mode \in Modes[u]
             /\ req'[u].at \in 1 .. clock' /\ req'[u].old \in 0 .. expired'
    BY <2>1, <2>5, GotoTyped, DoneTyped
  <2> QED BY <2>1, <2>4, <2>6 DEF Types
<1>8. ASSUME NEW t \in Threads, RecordSeq(t) PROVE Types'
  <2> DEFINE r == Home[t]
             e == [Of(seen[r], req[t].id) EXCEPT !.seq = req[t].seq]
  <2>1. /\ pc[t] = "record"
        /\ seen' = [seen EXCEPT ![r] = IF Has(@, req[t].id) THEN Put(@, e) ELSE @]
        /\ Done(t) \/ Goto(t, "register")
        /\ UNCHANGED <<forgot, number, ws, wire, offline, inbox, ackOf, replyOf, clock, expired>>
    BY <1>8 DEF RecordSeq
  <2>2. ASSUME Has(seen[r], req[t].id)
        PROVE  Put(seen[r], e) \in Seq(Entry) /\ Unique(Put(seen[r], e))
    <3>1. Of(seen[r], req[t].id) \in Entry
      BY <2>2, <1>s, <1>c, OfSet
    <3>2. req[t].seq \in 0 .. MaxReqs
      BY <1>q DEF Req
    <3>3. e \in Entry
      BY <3>1, <3>2 DEF Entry
    <3> HIDE DEF e
    <3> QED BY <3>3, <1>s, <1>c, PutSet
  <2> HIDE DEF e
  <2>3. seen' \in [Relays -> Seq(Entry)] /\ \A x \in Relays : Unique(seen'[x])
    BY <2>1, <2>2, <1>s, <1>c DEF Types
  <2>4. /\ pc' \in [Threads -> Places] /\ req' \in [Threads -> Req]
        /\ \A u \in Threads : pc'[u] # "idle" =>
             /\ req'[u].id \in Uses[u] /\ req'[u].mode \in Modes[u]
             /\ req'[u].at \in 1 .. clock' /\ req'[u].old \in 0 .. expired'
    BY <2>1, GotoTyped, DoneTyped DEF Places
  <2> QED BY <2>1, <2>3, <2>4 DEF Types
<1>9. ASSUME NEW t \in Threads, Register(t) \/ Acked(t) \/ Replied(t) \/ TimeOut(t) PROVE Types'
  <2>1. UNCHANGED <<seen, forgot, number, ws, wire, offline, inbox, clock, expired>>
    BY <1>9 DEF Register, Acked, Replied, TimeOut
  <2>2. pc[t] # "idle" /\ (Done(t) \/ Goto(t, "wait"))
    BY <1>9 DEF Register, Acked, Replied, TimeOut
  <2>3. /\ pc' \in [Threads -> Places] /\ req' \in [Threads -> Req]
        /\ \A u \in Threads : pc'[u] # "idle" =>
             /\ req'[u].id \in Uses[u] /\ req'[u].mode \in Modes[u]
             /\ req'[u].at \in 1 .. clock' /\ req'[u].old \in 0 .. expired'
    BY <2>1, <2>2, GotoTyped, DoneTyped DEF Places
  <2>4. /\ ackOf' \in [Ids -> {"none", "unset", "set"}]
        /\ replyOf' \in [Ids -> {"none", "unset", "set"}]
    BY <1>9, ZenonT(40) DEF Register, Acked, Replied, TimeOut, Types
  <2> QED BY <2>1, <2>3, <2>4 DEF Types
<1>10. ASSUME NEW r \in Relays, ReceiveMsg(r) PROVE Types'
  <2> DEFINE id == Head(wire[r]).id
             s == Append(seen[r], [id |-> id, at |-> 0, seq |-> 0])
  <2>1. wire[r] # <<>> /\ Head(wire[r]) \in Frame /\ Tail(wire[r]) \in Seq(Frame)
        /\ wire[Other(r)] \in Seq(Frame)
    BY <1>10, <1>c DEF ReceiveMsg, Incoming, Types
  <2>2. id \in Ids /\ [kind |-> "ack", id |-> id] \in Frame
        /\ [id |-> id, at |-> 0, seq |-> 0] \in Entry
    BY <2>1, <1>c DEF Frame, Entry
  <2>3. UNCHANGED <<number, pc, req, ws, offline, ackOf, replyOf, clock, expired>>
    BY <1>10 DEF ReceiveMsg
  <2>4. CASE Has(seen[r], id)
    <3>1. UNCHANGED <<seen, forgot, inbox>> /\ wire' = [wire EXCEPT ![r] = Tail(@)]
      BY <1>10, <2>4 DEF ReceiveMsg
    <3>2. wire' \in [Relays -> Seq(Frame)]
      BY <2>1, <3>1 DEF Types
    <3> QED BY <2>3, <3>1, <3>2 DEF Types
  <2>5. CASE ~Has(seen[r], id)
    <3>1. /\ inbox' = [inbox EXCEPT ![r] = Append(@, id)]
          /\ seen' = [seen EXCEPT ![r] = Capped(s)]
          /\ forgot' = [forgot EXCEPT ![r] = @ \cup Lost(s)]
          /\ Back(r, "ack", id) \/ wire' = [wire EXCEPT ![r] = Tail(@)]
      BY <1>10, <2>5 DEF ReceiveMsg
    <3>2. s = Put(seen[r], [id |-> id, at |-> 0, seq |-> 0])
      BY <2>5 DEF Put
    <3>3. s \in Seq(Entry) /\ Unique(s)
      <4> DEFINE e == [id |-> id, at |-> 0, seq |-> 0]
      <4>1. Put(seen[r], e) \in Seq(Entry) /\ Unique(Put(seen[r], e))
        <5> HIDE DEF e
        <5> QED BY <2>2, <1>s, PutSet DEF e
      <4> QED BY <4>1, <3>2
    <3>4. Capped(s) \in Seq(Entry) /\ Unique(Capped(s)) /\ Lost(s) \subseteq Ids
      BY <3>3, CappedSet
    <3> HIDE DEF s, id
    <3>5. seen' \in [Relays -> Seq(Entry)] /\ \A x \in Relays : Unique(seen'[x])
      BY <3>1, <3>4, <1>s DEF Types
    <3>6. forgot' \in [Relays -> SUBSET Ids] /\ inbox' \in [Relays -> Seq(Ids)]
      BY <3>1, <3>4, <2>2 DEF Types
    <3>7. wire' \in [Relays -> Seq(Frame)]
      <4>1. Append(wire[Other(r)], [kind |-> "ack", id |-> id]) \in Seq(Frame)
        BY <2>1, <2>2
      <4>2. CASE wire' = [wire EXCEPT ![r] = Tail(@)]
        BY <2>1, <4>2 DEF Types
      <4>3. CASE Back(r, "ack", id)
        <5>1. wire' = [[wire EXCEPT ![r] = Tail(wire[r])]
                         EXCEPT ![Other(r)] = Append(wire[Other(r)], [kind |-> "ack", id |-> id])]
          BY <4>3, <1>c DEF Back, Types
        <5> QED BY <2>1, <4>1, <5>1 DEF Types
      <4> QED BY <3>1, <4>2, <4>3
    <3> QED BY <2>3, <3>5, <3>6, <3>7 DEF Types
  <2> QED BY <2>4, <2>5
<1>11. ASSUME NEW r \in Relays, ReceiveAck(r) \/ ReceiveReply(r) PROVE Types'
  <2>1. UNCHANGED <<seen, forgot, number, pc, req, ws, offline, inbox, clock, expired>>
    BY <1>11 DEF ReceiveAck, ReceiveReply
  <2>2. wire[r] # <<>> /\ wire' = [wire EXCEPT ![r] = Tail(@)]
    BY <1>11 DEF ReceiveAck, ReceiveReply, Incoming
  <2>3. wire' \in [Relays -> Seq(Frame)]
    <3> Tail(wire[r]) \in Seq(Frame)
      BY <2>2 DEF Types
    <3> QED BY <2>2 DEF Types
  <2>4. /\ ackOf' \in [Ids -> {"none", "unset", "set"}]
        /\ replyOf' \in [Ids -> {"none", "unset", "set"}]
    <3> DEFINE id == Head(wire[r]).id
    <3>1. ackOf' = ackOf \/ ackOf' = [ackOf EXCEPT ![id] = IF @ = "none" THEN @ ELSE "set"]
      BY <1>11 DEF ReceiveAck, ReceiveReply
    <3>2. replyOf' = replyOf \/ replyOf' = [replyOf EXCEPT ![id] = IF @ = "none" THEN @ ELSE "set"]
      BY <1>11 DEF ReceiveAck, ReceiveReply
    <3> HIDE DEF id
    <3> QED BY <3>1, <3>2, ZenonT(40) DEF Types
  <2> QED BY <2>1, <2>3, <2>4 DEF Types
<1>12. ASSUME NEW r \in Relays, Reply(r) PROVE Types'
  <2> DEFINE f == [kind |-> "reply", id |-> Last(inbox[r])]
  <2>1. UNCHANGED <<seen, forgot, number, pc, req, ws, inbox, ackOf, replyOf, clock, expired>>
    BY <1>12 DEF Reply
  <2>2. /\ inbox[r] # <<>>
        /\ \/ wire' = [wire EXCEPT ![Other(r)] = Append(@, f)] /\ offline' = offline
           \/ offline' = [offline EXCEPT ![r] = Append(@, f)] /\ wire' = wire
    BY <1>12 DEF Reply
  <2>3. Last(inbox[r]) \in Ids
    BY <2>2 DEF Last, Types
  <2>4. wire' \in [Relays -> Seq(Frame)] /\ offline' \in [Relays -> Seq(Frame)]
    <3>1. f \in Frame /\ wire[Other(r)] \in Seq(Frame) /\ offline[r] \in Seq(Frame)
      BY <2>3, <1>c DEF Frame, Types
    <3> HIDE DEF f
    <3>2. Append(wire[Other(r)], f) \in Seq(Frame) /\ Append(offline[r], f) \in Seq(Frame)
      BY <3>1
    <3> QED BY <2>2, <3>2 DEF Types
  <2> QED BY <2>1, <2>4 DEF Types
<1>13. ASSUME NEW r \in Relays, Notice(r) PROVE Types'
  BY <1>13 DEF Notice, Types
<1>14. CASE Break
  BY <1>14 DEF Break, Types
<1>15. CASE Connect
  <2>1. wire' = [r \in Relays |-> offline[Other(r)]]
    BY <1>15 DEF Connect
  <2>2. wire' \in [Relays -> Seq(Frame)]
    BY <2>1, <1>c DEF Types
  <2> QED BY <1>15, <2>2 DEF Connect, Types
<1>16. CASE Expire
  <2>1. expired' \in expired .. clock /\ clock' = clock
    BY <1>16 DEF Expire, Types
  <2>2. expired' \in 0 .. clock'
    BY <2>1, <1>c DEF Types
  <2>3. \A u \in Threads : pc[u] # "idle" => req[u].old \in 0 .. expired'
    BY <2>1, <1>c DEF Types
  <2> QED BY <1>16, <2>2, <2>3 DEF Expire, Types
<1>17. CASE UNCHANGED vars
  BY <1>17 DEF vars, Types
<1> QED BY <1>1, <1>2, <1>3, <1>4, <1>5, <1>6, <1>7, <1>8, <1>9, <1>10, <1>11, <1>12, <1>13,
           <1>14, <1>15, <1>16, <1>17 DEF Next, Serve

-----------------------------------------------------------------------------
(* Where a step of a thread leaves it; the others stay where they are.      *)

Own(t) == Serve(t) \/ \E id \in Uses[t], mode \in Modes[t] : Request(t, id, mode)

LEMMA OthersStay ==
  ASSUME Types, NEW t \in Threads, Own(t)
  PROVE  \A u \in Threads \ {t} : pc'[u] = pc[u] /\ req'[u] = req[u]
<1>1. ASSUME NEW id \in Uses[t], NEW mode \in Modes[t], Request(t, id, mode)
      PROVE  \A u \in Threads \ {t} : pc'[u] = pc[u] /\ req'[u] = req[u]
  BY <1>1 DEF Request, Types
<1>2. CASE Done(t)
  BY <1>2 DEF Done, Types
<1>3. ASSUME NEW place, Goto(t, place)
      PROVE  \A u \in Threads \ {t} : pc'[u] = pc[u] /\ req'[u] = req[u]
  BY <1>3 DEF Goto, Types
<1>4. CASE Scan(t)
  BY <1>2, <1>4 DEF Scan, Types
<1>5. CASE Evict(t)
  BY <1>2, <1>5 DEF Evict, Types
<1>6. CASE Record(t)
  BY <1>3, <1>6 DEF Record
<1>7. CASE Refuse(t)
  BY <1>2, <1>7 DEF Refuse
<1>8. CASE Accept(t)
  BY <1>8 DEF Accept, Types
<1>9. CASE Send(t)
  BY <1>2, <1>3, <1>9 DEF Send
<1>10. CASE RecordSeq(t)
  BY <1>2, <1>3, <1>10 DEF RecordSeq
<1>11. CASE Register(t)
  BY <1>3, <1>11 DEF Register
<1>12. CASE Acked(t) \/ Replied(t) \/ TimeOut(t)
  BY <1>2, <1>12 DEF Acked, Replied, TimeOut
<1> QED BY <1>1, <1>4, <1>5, <1>6, <1>7, <1>8, <1>9, <1>10, <1>11, <1>12 DEF Own, Serve

(* The place and the locals of the thread itself.                           *)
Same(t) == /\ req'[t].id = req[t].id /\ req'[t].mode = req[t].mode
           /\ req'[t].at = req[t].at /\ req'[t].old = req[t].old

LEMMA OwnStep ==
  ASSUME Types, NEW t \in Threads
  PROVE  /\ Scan(t) => pc[t] = "scan" /\ (pc'[t] = "idle" \/ (pc'[t] = "evict" /\ Same(t)))
         /\ Evict(t) => pc[t] = "evict" /\ (pc'[t] = "idle" \/ (pc'[t] = "evict" /\ Same(t)))
         /\ Record(t) => pc[t] = "evict" /\ pc'[t] = "check" /\ req' = req
         /\ Refuse(t) => pc[t] = "check" /\ pc'[t] = "idle"
         /\ Accept(t) => pc[t] = "check" /\ pc'[t] = "send" /\ Same(t)
         /\ Send(t) => pc[t] = "send" /\ (pc'[t] = "idle" \/ (pc'[t] \in {"await", "record"} /\ req' = req))
         /\ RecordSeq(t) => pc[t] = "record" /\ (pc'[t] = "idle" \/ (pc'[t] = "register" /\ req' = req))
         /\ Register(t) => pc[t] = "register" /\ pc'[t] = "wait" /\ req' = req
         /\ Acked(t) => pc[t] = "wait" /\ pc'[t] = "idle"
         /\ Replied(t) => pc[t] = "await" /\ pc'[t] = "idle"
         /\ TimeOut(t) => pc[t] \in {"wait", "await"} /\ pc'[t] = "idle"
<1>q. req[t] \in Req /\ t \in DOMAIN pc /\ t \in DOMAIN req
  BY DEF Types
<1>d. Done(t) => pc'[t] = "idle"
  BY <1>q DEF Done
<1>g. \A place \in Places : Goto(t, place) => pc'[t] = place /\ req' = req
  BY <1>q DEF Goto
<1>1. ASSUME Scan(t) PROVE pc[t] = "scan" /\ (pc'[t] = "idle" \/ (pc'[t] = "evict" /\ Same(t)))
  <2> DEFINE dead == Pick(seen[Home[t]], {e \in Entry : IsExpired(e, req[t].old, req[t].at)})
             ids == [i \in DOMAIN dead |-> dead[i].id]
  <2>1. pc[t] = "scan" /\ \/ Done(t)
                          \/ pc' = [pc EXCEPT ![t] = "evict"] /\ req' = [req EXCEPT ![t].drop = ids]
    BY <1>1 DEF Scan
  <2> HIDE DEF ids
  <2>2. CASE Done(t)
    BY <2>1, <2>2, <1>d
  <2>3. CASE pc' = [pc EXCEPT ![t] = "evict"] /\ req' = [req EXCEPT ![t].drop = ids]
    <3>1. pc'[t] = "evict" /\ req'[t] = [req[t] EXCEPT !.drop = ids]
      BY <2>3, <1>q
    <3> QED BY <2>1, <3>1, <1>q DEF Same, Req
  <2> QED BY <2>1, <2>2, <2>3
<1>2. ASSUME Evict(t) PROVE pc[t] = "evict" /\ (pc'[t] = "idle" \/ (pc'[t] = "evict" /\ Same(t)))
  <2>1. pc[t] = "evict" /\ \/ Done(t)
                           \/ pc' = pc /\ req' = [req EXCEPT ![t].drop = Tail(@)]
    BY <1>2 DEF Evict
  <2>2. CASE Done(t)
    BY <2>1, <2>2, <1>d
  <2>3. CASE pc' = pc /\ req' = [req EXCEPT ![t].drop = Tail(@)]
    <3>1. pc'[t] = "evict" /\ req'[t] = [req[t] EXCEPT !.drop = Tail(@)]
      BY <2>1, <2>3, <1>q
    <3> QED BY <2>1, <3>1, <1>q DEF Same, Req
  <2> QED BY <2>1, <2>2, <2>3
<1>3. Record(t) => pc[t] = "evict" /\ pc'[t] = "check" /\ req' = req
  BY <1>g DEF Record, Places
<1>4. Refuse(t) => pc[t] = "check" /\ pc'[t] = "idle"
  BY <1>d DEF Refuse
<1>5. ASSUME Accept(t) PROVE pc[t] = "check" /\ pc'[t] = "send" /\ Same(t)
  <2>1. pc[t] = "check" /\ pc'[t] = "send" /\ req'[t] = [req[t] EXCEPT !.seq = number[Home[t]] + 1]
    BY <1>5, <1>q DEF Accept
  <2> QED BY <2>1, <1>q DEF Same, Req
<1>6. Send(t) => pc[t] = "send" /\ (pc'[t] = "idle" \/ (pc'[t] \in {"await", "record"} /\ req' = req))
  BY <1>d, <1>g DEF Send, Places
<1>7. RecordSeq(t) => pc[t] = "record" /\ (pc'[t] = "idle" \/ (pc'[t] = "register" /\ req' = req))
  BY <1>d, <1>g DEF RecordSeq, Places
<1>8. Register(t) => pc[t] = "register" /\ pc'[t] = "wait" /\ req' = req
  BY <1>g DEF Register, Places
<1>9. Acked(t) => pc[t] = "wait" /\ pc'[t] = "idle"
  BY <1>d DEF Acked
<1>10. Replied(t) => pc[t] = "await" /\ pc'[t] = "idle"
  BY <1>d DEF Replied
<1>11. TimeOut(t) => pc[t] \in {"wait", "await"} /\ pc'[t] = "idle"
  BY <1>d DEF TimeOut
<1> QED BY <1>1, <1>2, <1>3, <1>4, <1>5, <1>6, <1>7, <1>8, <1>9, <1>10, <1>11

-----------------------------------------------------------------------------
(* Numbers and Events.                                                      *)

(* Nothing is lost when the requests that have yet to take a number are     *)
(* some of those before, and no number is taken.                            *)
LEMMA FewerPending ==
  ASSUME Types, Types', NumbersAreRequests,
         \A u \in Threads : Unnumbered(u)' => Unnumbered(u) /\ req'[u].at = req[u].at,
         number' = number, clock <= clock'
  PROVE  NumbersAreRequests'
<1>1. \A t, u \in Threads : Unnumbered(t)' /\ Unnumbered(u)' /\ req'[t].at = req'[u].at => t = u
  BY DEF NumbersAreRequests
<1>2. ASSUME NEW r \in Relays PROVE number'[r] + Cardinality(Pending(r)') <= clock'
  <2>1. Pending(r)' \subseteq Pending(r)
    BY DEF Pending
  <2>2. Cardinality(Pending(r)') \in Nat /\ Cardinality(Pending(r)') <= Cardinality(Pending(r))
        /\ Cardinality(Pending(r)) \in Nat
    BY <2>1, PendingAreTimes, FS_Subset, FS_CardinalityType
  <2>3. number[r] + Cardinality(Pending(r)) <= clock /\ number[r] \in Nat /\ clock \in Int /\ clock' \in Int
    BY ConstantsTyped DEF NumbersAreRequests, Types
  <2> QED BY <2>2, <2>3
<1> QED BY <1>1, <1>2 DEF NumbersAreRequests

LEMMA NumbersStep ==
  ASSUME Types, Types', NumbersAreRequests, [Next]_vars
  PROVE  NumbersAreRequests'
<1>h. \A t \in Threads : Home[t] \in Relays
  BY ConstantsTyped
<1>n. clock \in Int
  BY ConstantsTyped DEF Types
<1>1. ASSUME NEW t \in Threads, NEW id \in Uses[t], NEW mode \in Modes[t], Request(t, id, mode)
      PROVE  NumbersAreRequests'
  <2>1. number' = number /\ clock' = clock + 1 /\ pc[t] = "idle"
    BY <1>1 DEF Request
  <2>2. CASE UNCHANGED <<pc, req>>
    BY <2>1, <2>2, <1>n, FewerPending DEF Unnumbered
  <2>3. CASE ~UNCHANGED <<pc, req>>
    <3>1. pc' = [pc EXCEPT ![t] = "scan"] /\ req'[t].at = clock' /\ \A u \in Threads \ {t} : req'[u] = req[u]
      BY <1>1, <2>1, <2>3 DEF Request, Types
    <3>2. \A u \in Threads \ {t} : pc'[u] = pc[u]
      BY <3>1 DEF Types
    <3>3. pc'[t] = "scan"
      BY <3>1 DEF Types
    <3>4. \A u \in Threads : Unnumbered(u) => req[u].at <= clock /\ req[u].at \in Int
      BY DEF Unnumbered, Types
    <3>5. ASSUME NEW u \in Threads, NEW v \in Threads, Unnumbered(u)', Unnumbered(v)',
                 req'[u].at = req'[v].at
          PROVE  u = v
      BY <2>1, <3>1, <3>2, <3>4, <3>5, <1>n DEF Unnumbered, NumbersAreRequests
    <3>6. ASSUME NEW r \in Relays PROVE number'[r] + Cardinality(Pending(r)') <= clock'
      <4>1. Pending(r)' \subseteq Pending(r) \cup {clock'}
        BY <3>1, <3>2 DEF Pending, Unnumbered
      <4>2. IsFiniteSet(Pending(r)) /\ Cardinality(Pending(r)) \in Nat
        BY PendingAreTimes
      <4> DEFINE P == Pending(r)
                 Q == P \cup {clock'}
      <4> HIDE DEF P
      <4>3. IsFiniteSet(Q) /\ Cardinality(Q) \in Nat /\ Cardinality(Q) <= Cardinality(P) + 1
        <5>1. IsFiniteSet(P) /\ Cardinality(P) \in Nat
          BY <4>2 DEF P
        <5>2. IsFiniteSet(Q) /\ (Cardinality(Q) = Cardinality(P) \/ Cardinality(Q) = Cardinality(P) + 1)
          BY <5>1, FS_AddElement
        <5> QED BY <5>1, <5>2
      <4>4. Cardinality(Pending(r)') <= Cardinality(Q) /\ Cardinality(Pending(r)') \in Nat
        <5> Pending(r)' \subseteq Q
          BY <4>1 DEF P
        <5> HIDE DEF Q
        <5> QED BY <4>3, FS_Subset, FS_CardinalityType
      <4>5. number[r] + Cardinality(Pending(r)) <= clock /\ number[r] \in Nat
        BY DEF NumbersAreRequests, Types
      <4> QED BY <2>1, <4>2, <4>3, <4>4, <4>5, <1>n DEF P
    <3> QED BY <3>5, <3>6 DEF NumbersAreRequests
  <2> QED BY <2>2, <2>3
<1>2. ASSUME NEW t \in Threads, Refuse(t) \/ Accept(t) PROVE NumbersAreRequests'
  <2>1. /\ pc[t] = "check" /\ pc'[t] \notin {"scan", "evict", "check"} /\ clock' = clock
        /\ \A u \in Threads \ {t} : pc'[u] = pc[u] /\ req'[u] = req[u]
    BY <1>2, OthersStay, OwnStep DEF Refuse, Accept, Own, Serve
  <2>2. \A r \in Relays : number'[r] = number[r] \/ (r = Home[t] /\ number'[r] = number[r] + 1)
    <3>1. number' = number \/ number' = [number EXCEPT ![Home[t]] = @ + 1]
      BY <1>2 DEF Refuse, Accept
    <3>2. CASE number' = number
      BY <3>2
    <3>3. CASE number' = [number EXCEPT ![Home[t]] = @ + 1]
      BY <3>3 DEF Types
    <3> QED BY <3>1, <3>2, <3>3
  <2>3. \A u \in Threads : Unnumbered(u)' => Unnumbered(u) /\ req'[u].at = req[u].at /\ u # t
    BY <2>1 DEF Unnumbered
  <2>4. Unnumbered(t)
    BY <2>1 DEF Unnumbered
  <2>5. ASSUME NEW r \in Relays PROVE number'[r] + Cardinality(Pending(r)') <= clock'
    <3>1. IsFiniteSet(Pending(r)) /\ Cardinality(Pending(r)) \in Nat
      BY PendingAreTimes
    <3>2. number[r] + Cardinality(Pending(r)) <= clock /\ number[r] \in Nat
      BY DEF NumbersAreRequests, Types
    <3>3. CASE r = Home[t]
      <4>1. req[t].at \in Pending(r)
        BY <2>4, <3>3 DEF Pending
      <4>2. Pending(r)' \subseteq Pending(r) \ {req[t].at}
        BY <2>3, <2>4 DEF Pending, NumbersAreRequests
      <4>3. IsFiniteSet(Pending(r) \ {req[t].at})
            /\ Cardinality(Pending(r) \ {req[t].at}) = Cardinality(Pending(r)) - 1
        BY <3>1, <4>1, FS_RemoveElement
      <4>4. Cardinality(Pending(r)') \in Nat
            /\ Cardinality(Pending(r)') <= Cardinality(Pending(r)) - 1
        BY <4>2, <4>3, FS_Subset, FS_CardinalityType
      <4> QED BY <2>1, <2>2, <3>1, <3>2, <4>4, <1>n
    <3>4. CASE r # Home[t]
      <4>1. Pending(r)' \subseteq Pending(r)
        BY <2>3 DEF Pending
      <4>2. Cardinality(Pending(r)') \in Nat /\ Cardinality(Pending(r)') <= Cardinality(Pending(r))
        BY <3>1, <4>1, FS_Subset, FS_CardinalityType
      <4> QED BY <2>1, <2>2, <3>1, <3>2, <3>4, <4>2, <1>n
    <3> QED BY <3>3, <3>4
  <2>6. \A u, v \in Threads : Unnumbered(u)' /\ Unnumbered(v)' /\ req'[u].at = req'[v].at => u = v
    BY <2>3 DEF NumbersAreRequests
  <2> QED BY <2>5, <2>6 DEF NumbersAreRequests
<1>3. ASSUME NEW t \in Threads,
             Scan(t) \/ Evict(t) \/ Record(t) \/ Send(t) \/ RecordSeq(t) \/ Register(t)
               \/ Acked(t) \/ Replied(t) \/ TimeOut(t)
      PROVE  NumbersAreRequests'
  <2>1. number' = number /\ clock' = clock
    BY <1>3 DEF Scan, Evict, Record, Send, RecordSeq, Register, Acked, Replied, TimeOut
  <2>2. \A u \in Threads \ {t} : pc'[u] = pc[u] /\ req'[u] = req[u]
    BY <1>3, OthersStay DEF Own, Serve
  <2>3. Unnumbered(t)' => Unnumbered(t) /\ req'[t].at = req[t].at
    BY <1>3, OwnStep DEF Unnumbered, Same
  <2>4. \A u \in Threads : Unnumbered(u)' => Unnumbered(u) /\ req'[u].at = req[u].at
    BY <2>2, <2>3 DEF Unnumbered
  <2> QED BY <2>1, <2>4, <1>n, FewerPending
<1>4. CASE \/ \E r \in Relays : ReceiveMsg(r) \/ ReceiveAck(r) \/ ReceiveReply(r) \/ Reply(r) \/ Notice(r)
           \/ Break \/ Connect \/ Expire \/ UNCHANGED vars
  <2>1. UNCHANGED <<pc, req, number, clock>>
    BY <1>4 DEF ReceiveMsg, ReceiveAck, ReceiveReply, Reply, Notice, Break, Connect, Expire, vars
  <2> QED BY <2>1, <1>n, FewerPending DEF Unnumbered
<1> QED BY <1>1, <1>2, <1>3, <1>4 DEF Next, Serve

LEMMA WaitersStep ==
  ASSUME Types, Types', WaitersHaveEvents, [Next]_vars
  PROVE  WaitersHaveEvents'
<1> DEFINE Waits(t, i) == pc[t] = "wait" /\ req[t].id = i
<1>u. \A t, u \in Threads : \A i \in Ids : i \in Uses[t] /\ i \in Uses[u] => t = u
  BY SendAssumption
<1>i. \A t \in Threads : pc[t] # "idle" => req[t].id \in Uses[t] /\ req[t].id \in Ids
  BY ConstantsTyped DEF Types
<1>1. ASSUME NEW t \in Threads, \/ \E id \in Uses[t], mode \in Modes[t] : Request(t, id, mode)
                                \/ Scan(t) \/ Evict(t) \/ Record(t) \/ Refuse(t) \/ Accept(t)
                                \/ Send(t) \/ RecordSeq(t) \/ Replied(t)
      PROVE  WaitersHaveEvents'
  <2>1. ackOf' = ackOf
    BY <1>1 DEF Request, Scan, Evict, Record, Refuse, Accept, Send, RecordSeq, Replied, waiters
  <2>2. \A u \in Threads \ {t} : pc'[u] = pc[u] /\ req'[u] = req[u]
    BY <1>1, OthersStay DEF Own, Serve
  <2>w. pc[t] # "wait" /\ pc'[t] # "wait"
    <3>1. ASSUME NEW id \in Uses[t], NEW mode \in Modes[t], Request(t, id, mode)
          PROVE  pc[t] # "wait" /\ pc'[t] # "wait"
      BY <3>1 DEF Request, Types
    <3> QED BY <1>1, <3>1, OwnStep
  <2>3. \A u \in Threads : \A i \in Ids : Waits(u, i)' <=> Waits(u, i)
    BY <2>w, <2>2
  <2> QED BY <2>1, <2>3 DEF WaitersHaveEvents
<1>2. ASSUME NEW t \in Threads, Register(t) PROVE WaitersHaveEvents'
  <2>1. /\ pc[t] = "register" /\ ackOf' = [ackOf EXCEPT ![req[t].id] = "unset"]
        /\ pc' = [pc EXCEPT ![t] = "wait"] /\ req' = req
    BY <1>2 DEF Register, Goto
  <2>2. \A i \in Ids : ackOf'[i] = IF i = req[t].id THEN "unset" ELSE ackOf[i]
    BY <2>1 DEF Types
  <2>3. \A u \in Threads : \A i \in Ids : Waits(u, i)' <=> Waits(u, i) \/ (u = t /\ i = req[t].id)
    BY <2>1 DEF Types
  <2> QED BY <2>2, <2>3 DEF WaitersHaveEvents
<1>3. ASSUME NEW t \in Threads, Acked(t) \/ TimeOut(t) PROVE WaitersHaveEvents'
  <2>1. CASE pc[t] = "wait"
    <3>1. ackOf' = [ackOf EXCEPT ![req[t].id] = "none"] /\ Done(t)
      BY <1>3, <2>1 DEF Acked, TimeOut
    <3>2. \A i \in Ids : ackOf'[i] = IF i = req[t].id THEN "none" ELSE ackOf[i]
      BY <3>1 DEF Types
    <3>3. \A u \in Threads : \A i \in Ids : Waits(u, i)' <=> Waits(u, i) /\ u # t
      BY <3>1 DEF Types, Done
    <3>4. \A u \in Threads : \A i \in Ids : Waits(u, i) /\ i = req[t].id => u = t
      BY <2>1, <1>u, <1>i
    <3> QED BY <2>1, <3>2, <3>3, <3>4 DEF WaitersHaveEvents
  <2>2. CASE pc[t] # "wait"
    <3>1. ackOf' = ackOf /\ Done(t)
      BY <1>3, <2>2 DEF Acked, TimeOut
    <3>2. \A u \in Threads : \A i \in Ids : Waits(u, i)' <=> Waits(u, i)
      BY <2>2, <3>1 DEF Types, Done
    <3> QED BY <3>1, <3>2 DEF WaitersHaveEvents
  <2> QED BY <2>1, <2>2
<1>4. ASSUME NEW r \in Relays, ReceiveAck(r) PROVE WaitersHaveEvents'
  <2> DEFINE id == Head(wire[r]).id
  <2>1. ackOf' = [ackOf EXCEPT ![id] = IF @ = "none" THEN @ ELSE "set"] /\ UNCHANGED <<pc, req>>
    BY <1>4 DEF ReceiveAck
  <2> HIDE DEF id
  <2>2. \A i \in Ids : ackOf'[i] # "none" <=> ackOf[i] # "none"
    BY <2>1 DEF Types
  <2> QED BY <2>1, <2>2 DEF WaitersHaveEvents
<1>5. CASE \/ \E r \in Relays : ReceiveMsg(r) \/ ReceiveReply(r) \/ Reply(r) \/ Notice(r)
           \/ Break \/ Connect \/ Expire \/ UNCHANGED vars
  <2>1. UNCHANGED <<pc, req, ackOf>>
    BY <1>5 DEF ReceiveMsg, ReceiveReply, Reply, Notice, Break, Connect, Expire, vars, waiters
  <2> QED BY <2>1 DEF WaitersHaveEvents
<1> QED BY <1>1, <1>2, <1>3, <1>4, <1>5 DEF Next, Serve

-----------------------------------------------------------------------------
(* The connection, the frames on it and the inboxes.                        *)

LEMMA InboxGrows ==
  ASSUME Types, [Next]_vars
  PROVE  \A r \in Relays : ToSet(inbox[r]) \subseteq ToSet(inbox'[r])
<1>1. CASE inbox' = inbox
  BY <1>1
<1>2. ASSUME NEW r \in Relays, ReceiveMsg(r), inbox' # inbox
      PROVE  \A x \in Relays : ToSet(inbox[x]) \subseteq ToSet(inbox'[x])
  <2> DEFINE id == Head(wire[r]).id
  <2>1. inbox' = [inbox EXCEPT ![r] = Append(@, id)] /\ wire[r] # <<>>
    BY <1>2 DEF ReceiveMsg, Incoming
  <2>2. id \in Ids /\ inbox[r] \in Seq(Ids)
    <3> Head(wire[r]) \in Frame
      BY <2>1 DEF Types
    <3> QED BY DEF Types, Frame
  <2> HIDE DEF id
  <2>3. ToSet(Append(inbox[r], id)) = ToSet(inbox[r]) \cup {id}
    BY <2>2, ElementsOfAppend
  <2> QED BY <2>1, <2>3 DEF Types
<1>3. ASSUME NEW t \in Threads, Own(t) PROVE inbox' = inbox
  <2>1. ASSUME NEW id \in Uses[t], NEW mode \in Modes[t], Request(t, id, mode) PROVE inbox' = inbox
    BY <2>1 DEF Request
  <2>2. CASE Scan(t) \/ Evict(t) \/ Record(t) \/ Refuse(t) \/ Accept(t) \/ Send(t)
    BY <2>2 DEF Scan, Evict, Record, Refuse, Accept, Send
  <2>3. CASE RecordSeq(t) \/ Register(t) \/ Acked(t) \/ Replied(t) \/ TimeOut(t)
    BY <2>3 DEF RecordSeq, Register, Acked, Replied, TimeOut
  <2> QED BY <1>3, <2>1, <2>2, <2>3 DEF Own, Serve
<1>4. ASSUME NEW r \in Relays, ReceiveAck(r) \/ ReceiveReply(r) \/ Reply(r) \/ Notice(r)
      PROVE  inbox' = inbox
  BY <1>4 DEF ReceiveAck, ReceiveReply, Reply, Notice
<1>5. ASSUME Break \/ Connect \/ Expire \/ UNCHANGED vars PROVE inbox' = inbox
  BY <1>5 DEF Break, Connect, Expire, vars
<1> QED BY <1>1, <1>2, <1>3, <1>4, <1>5 DEF Next, Own

LEMMA JoinedStep ==
  ASSUME Types, Joined, [Next]_vars
  PROVE  Joined'
<1>c. Relays = {1, 2} /\ Other(1) = 2 /\ Other(2) = 1 /\ \A t \in Threads : Home[t] \in Relays
  BY ConstantsTyped DEF Relays, Other
<1>1. ASSUME NEW t \in Threads, Send(t) PROVE Joined'
  <2> DEFINE r == Home[t]
             m == [kind |-> "msg", id |-> req[t].id]
  <2>1. CASE ws[r] = "up"
    <3>1. wire' = [wire EXCEPT ![Other(r)] = Append(@, m)] /\ UNCHANGED <<ws, offline>>
      BY <1>1, <2>1 DEF Send
    <3> HIDE DEF m
    <3>2. \A x \in Relays : ws[x] = "up"
      BY <2>1, <1>c DEF Joined
    <3> QED BY <3>1, <3>2, <1>c DEF Joined
  <2>2. CASE ws[r] # "up"
    <3>1. /\ wire' = wire /\ ws' \in {ws, [ws EXCEPT ![r] = "none"]}
          /\ offline' \in {offline, [offline EXCEPT ![r] = Append(@, m)]}
      BY <1>1, <2>2 DEF Send, Types
    <3> HIDE DEF m
    <3>2. \A x \in Relays : ws[x] # "up" /\ ws'[x] # "up"
      BY <2>2, <3>1, <1>c DEF Joined, Types
    <3> QED BY <3>1, <3>2, <1>c DEF Joined
  <2> QED BY <2>1, <2>2
<1>9. ASSUME NEW r \in Relays, Reply(r) PROVE Joined'
  <2>1. /\ ws' = ws
        /\ \/ ws[r] = "up" /\ offline' = offline
           \/ /\ ws[r] = "none" /\ wire' = wire
              /\ \A x \in Relays \ {r} : offline'[x] = offline[x]
    BY <1>9 DEF Reply, Types
  <2>2. CASE ws[r] = "up" /\ offline' = offline
    <3>1. \A x \in Relays : ws[x] = "up"
      BY <2>2, <1>c DEF Joined
    <3> QED BY <2>1, <2>2, <3>1, <1>c DEF Joined
  <2>3. CASE ws[r] = "none" /\ wire' = wire
    <3>1. \A x \in Relays : ws[x] # "up"
      BY <2>3, <1>c DEF Joined
    <3> QED BY <2>1, <2>3, <3>1, <1>c DEF Joined
  <2> QED BY <2>1, <2>2, <2>3
<1>2. ASSUME NEW r \in Relays, ReceiveMsg(r) \/ ReceiveAck(r) \/ ReceiveReply(r)
      PROVE  Joined'
  <2>1. ws[r] = "up" /\ UNCHANGED <<ws, offline>>
    BY <1>2 DEF ReceiveMsg, ReceiveAck, ReceiveReply, Incoming
  <2>2. \A x \in Relays : ws[x] = "up"
    BY <2>1, <1>c DEF Joined
  <2> QED BY <2>1, <2>2, <1>c DEF Joined
<1>3. ASSUME NEW r \in Relays, Notice(r) PROVE Joined'
  <2>1. ws[r] = "broken" /\ ws' = [ws EXCEPT ![r] = "none"] /\ UNCHANGED <<wire, offline>>
    BY <1>3 DEF Notice
  <2>2. \A x \in Relays : ws[x] # "up" /\ ws'[x] # "up"
    BY <2>1, <1>c DEF Joined, Types
  <2> QED BY <2>1, <2>2, <1>c DEF Joined
<1>4. CASE Break
  BY <1>4, <1>c DEF Break, Joined
<1>5. CASE Connect
  BY <1>5, <1>c DEF Connect, Joined
<1>6. CASE UNCHANGED <<ws, wire, offline>>
  BY <1>6 DEF Joined
<1>7. CASE \E t \in Threads :
             \/ \E id \in Uses[t], mode \in Modes[t] : Request(t, id, mode)
             \/ Scan(t) \/ Evict(t) \/ Record(t) \/ Refuse(t) \/ Accept(t)
             \/ RecordSeq(t) \/ Register(t) \/ Acked(t) \/ Replied(t) \/ TimeOut(t)
  BY <1>6, <1>7, ZenonT(40) DEF Request, Scan, Evict, Record, Refuse, Accept, RecordSeq, Register, Acked, Replied,
       TimeOut, net
<1>8. CASE Expire \/ UNCHANGED vars
  BY <1>6, <1>8 DEF Expire, vars, net
<1> QED BY <1>1, <1>2, <1>3, <1>4, <1>5, <1>7, <1>8, <1>9 DEF Next, Serve

(* The head of the wire, when it is a message.                              *)
LEMMA HeadOfWire ==
  ASSUME Types, NEW r \in Relays, wire[r] # <<>>
  PROVE  /\ Head(wire[r]) \in Frame /\ Head(wire[r]).id \in Ids /\ Head(wire[r]) \in ToSet(wire[r])
         /\ ToSet(Tail(wire[r])) \subseteq ToSet(wire[r]) /\ Tail(wire[r]) \in Seq(Frame)
<1>1. wire[r] \in Seq(Frame)
  BY DEF Types
<1>2. Head(wire[r]) \in Frame
  BY <1>1
<1> QED BY <1>1, <1>2, ElementsOf, ElementsOfTail DEF Frame

LEMMA FramesStep ==
  ASSUME Types, FramesAreTrue, [Next]_vars
  PROVE  FramesAreTrue'
<1>c. /\ \A r \in Relays : Other(r) \in Relays /\ Other(r) # r /\ Other(Other(r)) = r
      /\ \A t \in Threads : Home[t] \in Relays
  BY ConstantsTyped
<1>g. \A r \in Relays : ToSet(inbox[r]) \subseteq ToSet(inbox'[r])
  BY InboxGrows
<1>i. \A t \in Threads : pc[t] # "idle" => Sender(req[t].id, Home[t]) /\ req[t].id \in Ids
  BY ConstantsTyped DEF Types, Sender
<1> DEFINE TrueFrame(f, r) == IF f.kind = "msg" THEN Sender(f.id, Other(r))
                              ELSE f.id \in ToSet(inbox'[Other(r)])
<1>f. \A r \in Relays : \A f \in ToSet(wire[r]) : TrueFrame(f, r)
  BY <1>c, <1>g DEF FramesAreTrue
<1> HIDE DEF TrueFrame
<1>d. ASSUME \A r \in Relays : \A f \in ToSet(wire'[r]) : TrueFrame(f, r),
             \A r \in Relays : \A f \in ToSet(offline'[r]) : TrueFrame(f, Other(r)),
             \A r \in Relays : \A id \in ToSet(inbox'[r]) : Sender(id, Other(r))
      PROVE  FramesAreTrue'
  <2>1. ASSUME NEW r \in Relays, NEW f \in ToSet(offline'[r])
        PROVE  IF f.kind = "msg" THEN Sender(f.id, r) ELSE f.id \in ToSet(inbox'[r])
    <3>1. TrueFrame(f, Other(r)) /\ Other(Other(r)) = r
      BY <2>1, <1>d, <1>c
    <3> QED BY <3>1 DEF TrueFrame
  <2>2. ASSUME NEW r \in Relays, NEW f \in ToSet(wire'[r])
        PROVE  IF f.kind = "msg" THEN Sender(f.id, Other(r)) ELSE f.id \in ToSet(inbox'[Other(r)])
    BY <2>2, <1>d DEF TrueFrame
  <2> QED BY <2>1, <2>2, <1>d DEF FramesAreTrue, Sender
<1>o. \A r \in Relays : \A f \in ToSet(offline[r]) : TrueFrame(f, Other(r))
  <2>1. ASSUME NEW r \in Relays, NEW f \in ToSet(offline[r]) PROVE TrueFrame(f, Other(r))
    <3>1. IF f.kind = "msg" THEN Sender(f.id, r) ELSE f.id \in ToSet(inbox'[r])
      BY <2>1, <1>g DEF FramesAreTrue
    <3>2. Other(Other(r)) = r
      BY <1>c
    <3> QED BY <3>1, <3>2 DEF TrueFrame
  <2> QED BY <2>1
<1>b. \A r \in Relays : \A id \in ToSet(inbox[r]) : Sender(id, Other(r))
  BY DEF FramesAreTrue
<1>1. ASSUME NEW t \in Threads, Send(t) PROVE FramesAreTrue'
  <2> DEFINE r == Home[t]
             m == [kind |-> "msg", id |-> req[t].id]
  <2>1. /\ pc[t] = "send" /\ inbox' = inbox
        /\ wire' \in {wire, [wire EXCEPT ![Other(r)] = Append(@, m)]}
        /\ offline' \in {offline, [offline EXCEPT ![r] = Append(@, m)]}
    BY <1>1 DEF Send
  <2>2. m \in Frame /\ m.kind = "msg" /\ Sender(m.id, r)
    BY <2>1, <1>i DEF Frame
  <2> HIDE DEF m
  <2>3. /\ ToSet(Append(wire[Other(r)], m)) = ToSet(wire[Other(r)]) \cup {m}
        /\ ToSet(Append(offline[r], m)) = ToSet(offline[r]) \cup {m}
    BY <2>2, <1>c, ElementsOfAppend DEF Types
  <2>4. TrueFrame(m, Other(r))
    BY <2>2, <1>c DEF TrueFrame
  <2>5. ASSUME NEW x \in Relays, NEW f \in ToSet(wire'[x]) PROVE TrueFrame(f, x)
    <3>1. f \in ToSet(wire[x]) \/ (x = Other(r) /\ f = m)
      <4>1. CASE wire' = wire
        BY <2>5, <4>1
      <4>2. CASE wire' = [wire EXCEPT ![Other(r)] = Append(@, m)]
        BY <2>3, <2>5, <4>2, <1>c DEF Types
      <4> QED BY <2>1, <4>1, <4>2
    <3> QED BY <3>1, <2>4, <1>f
  <2>6. ASSUME NEW x \in Relays, NEW f \in ToSet(offline'[x]) PROVE TrueFrame(f, Other(x))
    <3>1. f \in ToSet(offline[x]) \/ (x = r /\ f = m)
      <4>1. CASE offline' = offline
        BY <2>6, <4>1
      <4>2. CASE offline' = [offline EXCEPT ![r] = Append(@, m)]
        BY <2>3, <2>6, <4>2, <1>c DEF Types
      <4> QED BY <2>1, <4>1, <4>2
    <3> QED BY <3>1, <2>4, <1>o
  <2> QED BY <2>1, <2>5, <2>6, <1>b, <1>d
<1>2. ASSUME NEW r \in Relays, ReceiveMsg(r) PROVE FramesAreTrue'
  <2> DEFINE id == Head(wire[r]).id
             ack == [kind |-> "ack", id |-> id]
  <2>1. /\ wire[r] # <<>> /\ Head(wire[r]).kind = "msg" /\ offline' = offline
        /\ \/ wire' = [wire EXCEPT ![r] = Tail(@)] /\ inbox' = inbox
           \/ /\ Back(r, "ack", id) \/ wire' = [wire EXCEPT ![r] = Tail(@)]
              /\ inbox' = [inbox EXCEPT ![r] = Append(@, id)]
    BY <1>2 DEF ReceiveMsg, Incoming, table
  <2>2. /\ id \in Ids /\ Sender(id, Other(r))
        /\ ToSet(Tail(wire[r])) \subseteq ToSet(wire[r]) /\ Tail(wire[r]) \in Seq(Frame)
    BY <2>1, HeadOfWire DEF FramesAreTrue
  <2> HIDE DEF id
  <2>3. CASE wire' = [wire EXCEPT ![r] = Tail(@)] /\ inbox' = inbox
    <3>1. \A x \in Relays : ToSet(wire'[x]) \subseteq ToSet(wire[x])
      BY <2>2, <2>3 DEF Types
    <3> QED BY <2>1, <2>3, <3>1, <1>d, <1>f, <1>o, <1>b
  <2>4. CASE Back(r, "ack", id) /\ inbox' = [inbox EXCEPT ![r] = Append(@, id)]
    <3>1. wire'[r] = Tail(wire[r]) /\ wire'[Other(r)] = Append(wire[Other(r)], ack)
      BY <2>4, <1>c DEF Back, Types
    <3>2. ack \in Frame /\ ack.kind = "ack" /\ ack.id = id
      BY <2>2 DEF Frame
    <3> HIDE DEF ack
    <3>3. ToSet(wire'[Other(r)]) = ToSet(wire[Other(r)]) \cup {ack}
      BY <3>1, <3>2, <1>c, ElementsOfAppend DEF Types
    <3>4. ToSet(inbox'[r]) = ToSet(inbox[r]) \cup {id} /\ inbox'[Other(r)] = inbox[Other(r)]
      BY <2>2, <2>4, <1>c, ElementsOfAppend DEF Types
    <3>5. TrueFrame(ack, Other(r))
      BY <3>2, <3>4, <1>c DEF TrueFrame
    <3>6. \A x \in Relays : x = r \/ x = Other(r)
      BY DEF Relays, Other
    <3>7. ASSUME NEW x \in Relays, NEW f \in ToSet(wire'[x]) PROVE TrueFrame(f, x)
      BY <3>1, <3>3, <3>5, <3>6, <3>7, <2>2, <1>f
    <3>8. ASSUME NEW x \in Relays, NEW i \in ToSet(inbox'[x]) PROVE Sender(i, Other(x))
      BY <3>4, <3>6, <3>8, <2>2, <1>b
    <3> QED BY <2>1, <3>7, <3>8, <1>d, <1>o
  <2>5. CASE wire' = [wire EXCEPT ![r] = Tail(@)] /\ inbox' = [inbox EXCEPT ![r] = Append(@, id)]
    <3>1. \A x \in Relays : ToSet(wire'[x]) \subseteq ToSet(wire[x])
      BY <2>2, <2>5 DEF Types
    <3>2. ToSet(inbox'[r]) = ToSet(inbox[r]) \cup {id} /\ inbox'[Other(r)] = inbox[Other(r)]
      BY <2>2, <2>5, <1>c, ElementsOfAppend DEF Types
    <3>3. \A x \in Relays : x = r \/ x = Other(r)
      BY DEF Relays, Other
    <3>4. ASSUME NEW x \in Relays, NEW i \in ToSet(inbox'[x]) PROVE Sender(i, Other(x))
      BY <3>2, <3>3, <3>4, <2>2, <1>b
    <3> QED BY <2>1, <3>1, <3>4, <1>d, <1>f, <1>o
  <2> QED BY <2>1, <2>3, <2>4, <2>5
<1>3. ASSUME NEW r \in Relays, ReceiveAck(r) \/ ReceiveReply(r) PROVE FramesAreTrue'
  <2>1. wire[r] # <<>> /\ wire' = [wire EXCEPT ![r] = Tail(@)] /\ UNCHANGED <<inbox, offline>>
    BY <1>3 DEF ReceiveAck, ReceiveReply, Incoming
  <2>2. \A x \in Relays : ToSet(wire'[x]) \subseteq ToSet(wire[x])
    BY <2>1, HeadOfWire DEF Types
  <2> QED BY <2>1, <2>2, <1>d, <1>f, <1>o, <1>b
<1>4. ASSUME NEW r \in Relays, Reply(r) PROVE FramesAreTrue'
  <2> DEFINE f == [kind |-> "reply", id |-> Last(inbox[r])]
  <2>1. /\ inbox[r] # <<>> /\ inbox' = inbox
        /\ \/ wire' = [wire EXCEPT ![Other(r)] = Append(@, f)] /\ offline' = offline
           \/ offline' = [offline EXCEPT ![r] = Append(@, f)] /\ wire' = wire
    BY <1>4 DEF Reply
  <2>2. Last(inbox[r]) \in Ids /\ Last(inbox[r]) \in ToSet(inbox[r])
    BY <2>1 DEF Last, Types, ToSet
  <2>3. f \in Frame /\ TrueFrame(f, Other(r))
    BY <2>1, <2>2, <1>c DEF TrueFrame, Frame
  <2> HIDE DEF f
  <2>4. /\ ToSet(Append(wire[Other(r)], f)) = ToSet(wire[Other(r)]) \cup {f}
        /\ ToSet(Append(offline[r], f)) = ToSet(offline[r]) \cup {f}
    BY <2>3, <1>c, ElementsOfAppend DEF Types
  <2>5. ASSUME NEW x \in Relays, NEW g \in ToSet(wire'[x]) PROVE TrueFrame(g, x)
    <3>a. wire'[x] = wire[x] \/ (x = Other(r) /\ wire'[x] = Append(wire[x], f))
      BY <2>1, <1>c DEF Types
    <3>1. g \in ToSet(wire[x]) \/ (x = Other(r) /\ g = f)
      <4>1. CASE wire'[x] = wire[x]
        BY <4>1, <2>5
      <4>2. CASE x = Other(r) /\ wire'[x] = Append(wire[x], f)
        BY <4>2, <2>4, <2>5
      <4> QED BY <3>a, <4>1, <4>2
    <3> QED BY <3>1, <2>3, <1>f
  <2>6. ASSUME NEW x \in Relays, NEW g \in ToSet(offline'[x]) PROVE TrueFrame(g, Other(x))
    <3>a. offline'[x] = offline[x] \/ (x = r /\ offline'[x] = Append(offline[x], f))
      BY <2>1, <1>c DEF Types
    <3>1. g \in ToSet(offline[x]) \/ (x = r /\ g = f)
      <4>1. CASE offline'[x] = offline[x]
        BY <4>1, <2>6
      <4>2. CASE x = r /\ offline'[x] = Append(offline[x], f)
        BY <4>2, <2>4, <2>6
      <4> QED BY <3>a, <4>1, <4>2
    <3> QED BY <3>1, <2>3, <1>o
  <2> QED BY <2>1, <2>5, <2>6, <1>d, <1>b
<1>5. CASE Break
  <2>1. UNCHANGED <<inbox, offline>> /\ \A r \in Relays : ToSet(wire'[r]) = {}
    BY <1>5, ElementsOfEmpty DEF Break
  <2> QED BY <2>1, <1>d, <1>o, <1>b
<1>6. CASE Connect
  <2>1. /\ inbox' = inbox
        /\ \A r \in Relays : wire'[r] = offline[Other(r)] /\ ToSet(offline'[r]) = {}
    BY <1>6, ElementsOfEmpty DEF Connect
  <2>2. ASSUME NEW r \in Relays, NEW f \in ToSet(wire'[r]) PROVE TrueFrame(f, r)
    BY <2>1, <2>2, <1>o, <1>c
  <2> QED BY <2>1, <2>2, <1>d, <1>b
<1>7. CASE UNCHANGED <<wire, offline, inbox>>
  BY <1>7, <1>d, <1>f, <1>o, <1>b
<1>8. CASE \E t \in Threads :
             \/ \E id \in Uses[t], mode \in Modes[t] : Request(t, id, mode)
             \/ Scan(t) \/ Evict(t) \/ Record(t) \/ Refuse(t) \/ Accept(t)
             \/ RecordSeq(t) \/ Register(t) \/ Acked(t) \/ Replied(t) \/ TimeOut(t)
  BY <1>7, <1>8, ZenonT(40) DEF Request, Scan, Evict, Record, Refuse, Accept, RecordSeq, Register, Acked, Replied,
       TimeOut, net
<1>9. CASE Expire \/ UNCHANGED vars \/ \E r \in Relays : Notice(r)
  BY <1>7, <1>9 DEF Expire, Notice, vars, net
<1> QED BY <1>1, <1>2, <1>3, <1>4, <1>5, <1>6, <1>8, <1>9 DEF Next, Serve

-----------------------------------------------------------------------------
(* What senders are told.                                                   *)

(* Answers are added one at a time.                                         *)
LEMMA ToldStep ==
  ASSUME Types, FramesAreTrue, ToldIsStored, [Next]_vars
  PROVE  ToldIsStored'
<1>c. \A r \in Relays : Other(r) \in Relays
  BY ConstantsTyped
<1>g. \A id : Stored(id) => Stored(id)'
  BY InboxGrows DEF Stored
<1>t. /\ \A id \in Ids : ackOf[id] = "set" \/ replyOf[id] = "set" => Stored(id)
      /\ \A a \in answers : a.kind \in {"acked", "replied"} => a.id \in Ids /\ Stored(a.id)
  BY DEF ToldIsStored
<1>d. ASSUME \A id \in Ids : ackOf'[id] = "set" \/ replyOf'[id] = "set" => Stored(id),
             \A a \in answers' : a.kind \in {"acked", "replied"} => a.id \in Ids /\ Stored(a.id)
      PROVE  ToldIsStored'
  BY <1>d, <1>g DEF ToldIsStored
<1>1. ASSUME NEW t \in Threads, NEW id \in Uses[t], NEW mode \in Modes[t], Request(t, id, mode)
      PROVE  ToldIsStored'
  <2>1. UNCHANGED <<ackOf, replyOf>>
    BY <1>1 DEF Request, waiters
  <2>2. \A a \in answers' : a \in answers \/ a.kind = "dup"
    BY <1>1 DEF Request, Answer
  <2> QED BY <2>1, <2>2, <1>t, <1>d
<1>2. ASSUME NEW t \in Threads, Acked(t) \/ Replied(t) PROVE ToldIsStored'
  <2>1. req[t].id \in Ids
    <3>1. pc[t] # "idle"
      BY <1>2 DEF Acked, Replied
    <3> QED BY <3>1, ConstantsTyped DEF Types
  <2>2. Stored(req[t].id)
    BY <1>2, <2>1, <1>t DEF Acked, Replied
  <2>3. \A a \in answers' : a \in answers \/ a.id = req[t].id
    BY <1>2 DEF Acked, Replied, Answer
  <2>4. \A id \in Ids : (ackOf'[id] = "set" => ackOf[id] = "set")
                        /\ (replyOf'[id] = "set" => replyOf[id] = "set")
    BY <1>2, <2>1 DEF Acked, Replied, Types
  <2> QED BY <2>1, <2>2, <2>3, <2>4, <1>t, <1>d
<1>3. ASSUME NEW r \in Relays, ReceiveAck(r) \/ ReceiveReply(r) PROVE ToldIsStored'
  <2> DEFINE id == Head(wire[r]).id
  <2>1. wire[r] # <<>> /\ Head(wire[r]).kind # "msg" /\ answers' = answers
        /\ ackOf' \in {ackOf, [ackOf EXCEPT ![id] = IF @ = "none" THEN @ ELSE "set"]}
        /\ replyOf' \in {replyOf, [replyOf EXCEPT ![id] = IF @ = "none" THEN @ ELSE "set"]}
    BY <1>3 DEF ReceiveAck, ReceiveReply, Incoming, past
  <2>2. Stored(id)
    BY <2>1, <1>c, HeadOfWire DEF FramesAreTrue, Stored
  <2> HIDE DEF id
  <2>3. \A i \in Ids : i # id => (ackOf'[i] = "set" => ackOf[i] = "set")
                                 /\ (replyOf'[i] = "set" => replyOf[i] = "set")
    <3>1. \A i \in Ids : i # id => ackOf'[i] = ackOf[i]
      BY <2>1 DEF Types
    <3>2. \A i \in Ids : i # id => replyOf'[i] = replyOf[i]
      BY <2>1 DEF Types
    <3> QED BY <3>1, <3>2
  <2> QED BY <2>1, <2>2, <2>3, <1>t, <1>d
<1>4. ASSUME NEW t \in Threads, Accept(t) \/ Register(t) \/ TimeOut(t) PROVE ToldIsStored'
  <2>1. answers' = answers
    BY <1>4 DEF Accept, Register, TimeOut, past
  <2>2. \A i \in Ids : ackOf'[i] = "set" => ackOf[i] = "set"
    BY <1>4 DEF Accept, Register, TimeOut, Types
  <2>3. \A i \in Ids : replyOf'[i] = "set" => replyOf[i] = "set"
    BY <1>4 DEF Accept, Register, TimeOut, Types
  <2> QED BY <2>1, <2>2, <2>3, <1>t, <1>d
<1>5. CASE UNCHANGED <<answers, ackOf, replyOf>>
  BY <1>5, <1>t, <1>d
<1>6. ASSUME NEW t \in Threads, Scan(t) \/ Evict(t) \/ Record(t) \/ Refuse(t) \/ Send(t) \/ RecordSeq(t)
      PROVE  UNCHANGED <<answers, ackOf, replyOf>>
  BY <1>6 DEF Scan, Evict, Record, Refuse, Send, RecordSeq, past, waiters
<1>7. ASSUME NEW r \in Relays, ReceiveMsg(r) \/ Reply(r) \/ Notice(r)
      PROVE  UNCHANGED <<answers, ackOf, replyOf>>
  BY <1>7 DEF ReceiveMsg, Reply, Notice, past, waiters
<1>8. ASSUME Break \/ Connect \/ Expire \/ UNCHANGED vars PROVE UNCHANGED <<answers, ackOf, replyOf>>
  BY <1>8 DEF Break, Connect, Expire, vars, past, waiters
<1> QED BY <1>1, <1>2, <1>3, <1>4, <1>5, <1>6, <1>7, <1>8 DEF Next, Serve

-----------------------------------------------------------------------------
(* The table of ids.  Steps on it take entries out, and say which, put one  *)
(* in, or note a number in one.                                             *)

(* The table of relay r may lose and change entries of its own, and gain e. *)
Tables(r, lost, new) ==
  /\ \A x \in Relays \ {r} : seen'[x] = seen[x] /\ forgot'[x] = forgot[x]
  /\ forgot[r] \subseteq forgot'[r]
  /\ \A e \in ToSet(seen'[r]) : e \in ToSet(seen[r]) \/ e \in new
  /\ \A e \in ToSet(seen[r]) : e \in ToSet(seen'[r]) \/ e.id \in lost \/ \E f \in new : f.id = e.id
  /\ \A f \in new : f \in ToSet(seen'[r]) \/ f.id \in forgot'[r]

(* What is evicted is expired or lost from the table before its time.       *)
LEMMA EvictTables ==
  ASSUME Types, NEW t \in Threads, Evict(t)
  PROVE  \/ UNCHANGED <<seen, forgot>>
         \/ LET r == Home[t]
                id == Head(req[t].drop)
            IN /\ Tables(r, {id}, {})
               /\ id \in ToSet(req[t].drop)
               /\ \A e \in ToSet(seen[r]) : e.id = id /\ e.at = 0 => id \in forgot'[r]
<1> DEFINE r == Home[t]
           id == Head(req[t].drop)
<1>1. r \in Relays /\ seen[r] \in Seq(Entry) /\ Unique(seen[r])
  BY ConstantsTyped DEF Types
<1>2. CASE ~Has(seen[r], id)
  BY <1>2 DEF Evict, table
<1>3. CASE Has(seen[r], id)
  <2>1. /\ req[t].drop # <<>>
        /\ seen' = [seen EXCEPT ![r] = Del(@, id)]
        /\ forgot' = [forgot EXCEPT ![r] = IF Of(seen[r], id).at = 0 THEN @ \cup {id} ELSE @]
    BY <1>3 DEF Evict
  <2>2. id \in ToSet(req[t].drop)
    <3> req[t].drop \in Seq(Ids)
      BY DEF Types, Req
    <3> QED BY <2>1, ElementsOf
  <2> HIDE DEF id
  <2>3. seen'[r] = Del(seen[r], id) /\ ToSet(seen'[r]) = {e \in ToSet(seen[r]) : e.id # id}
    BY <2>1, <1>1, DelSet DEF Types
  <2>4. Of(seen[r], id) \in ToSet(seen[r]) /\ Of(seen[r], id).id = id
    BY <1>1, <1>3, OfSet
  <2>5. \A e \in ToSet(seen[r]) : e.id = id => e = Of(seen[r], id)
    BY <2>4, <1>1, UniqueSet
  <2>6. forgot'[r] = (IF Of(seen[r], id).at = 0 THEN forgot[r] \cup {id} ELSE forgot[r])
        /\ \A x \in Relays \ {r} : seen'[x] = seen[x] /\ forgot'[x] = forgot[x]
    BY <2>1, <1>1 DEF Types
  <2>7. Tables(r, {id}, {})
    BY <2>3, <2>6 DEF Tables
  <2>8. \A e \in ToSet(seen[r]) : e.id = id /\ e.at = 0 => id \in forgot'[r]
    BY <2>5, <2>6
  <2> QED BY <2>2, <2>7, <2>8 DEF id
<1> QED BY <1>2, <1>3

LEMMA RecordTables ==
  ASSUME Types, NEW t \in Threads, Record(t)
  PROVE  LET r == Home[t]
             e == [id |-> req[t].id, at |-> req[t].at, seq |-> 0]
         IN Tables(r, forgot'[r], {e}) /\ e \in Entry /\ e.id \in Uses[t] /\ e.at \in 1 .. clock
            /\ e \in ToSet(seen'[r])
<1> DEFINE r == Home[t]
           e == [id |-> req[t].id, at |-> req[t].at, seq |-> 0]
           s == Capped(seen[r])
<1>1. r \in Relays /\ seen[r] \in Seq(Entry) /\ Unique(seen[r])
  BY ConstantsTyped DEF Types
<1>2. /\ pc[t] = "evict"
      /\ seen' = [seen EXCEPT ![r] = Put(s, e)]
      /\ forgot' = [forgot EXCEPT ![r] = @ \cup Lost(seen[r])]
  BY DEF Record
<1>3. e \in Entry /\ e.id \in Uses[t] /\ e.at \in 1 .. clock
  <2>1. req[t].id \in Uses[t] /\ req[t].at \in 1 .. clock /\ clock \in 0 .. MaxReqs /\ req[t].id \in Ids
    BY <1>2, ConstantsTyped DEF Types
  <2>2. req[t].at \in 0 .. MaxReqs /\ 0 \in 0 .. MaxReqs
    BY <2>1, ConstantsTyped
  <2> QED BY <2>1, <2>2 DEF Entry
<1> HIDE DEF e
<1>4. /\ s \in Seq(Entry) /\ Unique(s) /\ ToSet(s) \subseteq ToSet(seen[r])
      /\ \A f \in ToSet(seen[r]) : f \in ToSet(s) \/ f.id \in Lost(seen[r])
  BY <1>1, CappedSet
<1> HIDE DEF s
<1>5. ToSet(Put(s, e)) = {f \in ToSet(s) : f.id # e.id} \cup {e}
  BY <1>3, <1>4, PutSet
<1>6. seen'[r] = Put(s, e) /\ forgot'[r] = forgot[r] \cup Lost(seen[r])
      /\ \A x \in Relays \ {r} : seen'[x] = seen[x] /\ forgot'[x] = forgot[x]
  BY <1>1, <1>2 DEF Types
<1>7. Tables(r, forgot'[r], {e}) /\ e \in ToSet(seen'[r])
  BY <1>4, <1>5, <1>6 DEF Tables
<1> QED BY <1>3, <1>7 DEF e

LEMMA RecordSeqTables ==
  ASSUME Types, NEW t \in Threads, RecordSeq(t)
  PROVE  LET r == Home[t]
         IN \/ UNCHANGED <<seen, forgot>>
            \/ \E e \in ToSet(seen[r]) : e.id = req[t].id /\ Tables(r, {}, {[e EXCEPT !.seq = req[t].seq]})
                                         /\ [e EXCEPT !.seq = req[t].seq] \in ToSet(seen'[r])
<1> DEFINE r == Home[t]
           id == req[t].id
           e == Of(seen[r], id)
           n == [e EXCEPT !.seq = req[t].seq]
<1>1. r \in Relays /\ seen[r] \in Seq(Entry) /\ Unique(seen[r])
  BY ConstantsTyped DEF Types
<1>2. seen' = [seen EXCEPT ![r] = IF Has(@, id) THEN Put(@, n) ELSE @] /\ forgot' = forgot
  BY DEF RecordSeq
<1>3. CASE ~Has(seen[r], id)
  BY <1>1, <1>2, <1>3 DEF Types
<1>4. CASE Has(seen[r], id)
  <2>1. e \in ToSet(seen[r]) /\ e.id = id /\ e \in Entry
    BY <1>1, <1>4, OfSet
  <2>2. n \in Entry /\ n.id = id
    <3> req[t].seq \in 0 .. MaxReqs
      BY DEF Types, Req
    <3> QED BY <2>1 DEF Entry
  <2>3. seen'[r] = Put(seen[r], n) /\ \A x \in Relays \ {r} : seen'[x] = seen[x]
    BY <1>1, <1>2, <1>4 DEF Types
  <2> HIDE DEF n, e
  <2>4. ToSet(seen'[r]) = {f \in ToSet(seen[r]) : f.id # id} \cup {n}
    BY <1>1, <2>2, <2>3, PutSet
  <2>5. Tables(r, {}, {n}) /\ n \in ToSet(seen'[r])
    BY <1>2, <2>2, <2>3, <2>4 DEF Tables
  <2> QED BY <2>1, <2>5 DEF n
<1> QED BY <1>3, <1>4

LEMMA ReceiveTables ==
  ASSUME Types, NEW r \in Relays, ReceiveMsg(r), ~Has(seen[r], Head(wire[r]).id)
  PROVE  LET e == [id |-> Head(wire[r]).id, at |-> 0, seq |-> 0]
         IN /\ Tables(r, forgot'[r], {e})
            /\ \E more \in SUBSET Ids : forgot' = [forgot EXCEPT ![r] = @ \cup more]
<1> DEFINE e == [id |-> Head(wire[r]).id, at |-> 0, seq |-> 0]
           s == Append(seen[r], e)
<1>1. seen[r] \in Seq(Entry) /\ Unique(seen[r])
  BY DEF Types
<1>2. wire[r] # <<>> /\ seen' = [seen EXCEPT ![r] = Capped(s)] /\ forgot' = [forgot EXCEPT ![r] = @ \cup Lost(s)]
  BY DEF ReceiveMsg, Incoming
<1>3. e \in Entry
  BY <1>2, HeadOfWire, ConstantsTyped DEF Entry
<1>4. s = Put(seen[r], e)
  BY DEF Put
<1>n. \A f \in ToSet(seen[r]) : f.id # e.id
  BY <1>1, HasSet
<1> HIDE DEF s, e
<1>5. s \in Seq(Entry) /\ Unique(s) /\ ToSet(s) = {f \in ToSet(seen[r]) : f.id # e.id} \cup {e}
  BY <1>1, <1>3, <1>4, PutSet
<1>6. /\ ToSet(Capped(s)) \subseteq ToSet(s) /\ Lost(s) \subseteq Ids
      /\ \A f \in ToSet(s) : f \in ToSet(Capped(s)) \/ f.id \in Lost(s)
  BY <1>5, CappedSet
<1>7. seen'[r] = Capped(s) /\ forgot'[r] = forgot[r] \cup Lost(s)
      /\ \A x \in Relays \ {r} : seen'[x] = seen[x] /\ forgot'[x] = forgot[x]
  BY <1>2 DEF Types
<1>8. Tables(r, forgot'[r], {e})
  BY <1>5, <1>6, <1>7, <1>n DEF Tables
<1> QED BY <1>2, <1>6, <1>8 DEF e

LEMMA TablesKeepTrue ==
  ASSUME Types, Types', TableIsTrue, NEW r \in Relays, NEW lost, NEW new, Tables(r, lost, new),
         \A x \in Relays \ {r} : inbox'[x] = inbox[x],
         ToSet(inbox[r]) \subseteq ToSet(inbox'[r]),
         ToSet(inbox'[r]) \subseteq ToSet(inbox[r]) \cup {f.id : f \in new},
         \A f \in new : IF f.at = 0 THEN f.id \in ToSet(inbox'[r]) ELSE Sender(f.id, r),
         \A e \in ToSet(seen[r]) : e.id \in lost /\ e.id \in ToSet(inbox[r]) => e.id \in forgot'[r]
  PROVE  TableIsTrue'
<1>1. \A x \in Relays : seen[x] \in Seq(Entry) /\ seen'[x] \in Seq(Entry)
  BY DEF Types
<1>2. ASSUME NEW x \in Relays, NEW e \in ToSet(seen'[x])
      PROVE  IF e.at = 0 THEN e.id \in ToSet(inbox'[x]) ELSE Sender(e.id, x)
  <2>1. CASE x = r
    BY <1>2, <2>1 DEF Tables, TableIsTrue
  <2>2. CASE x # r
    BY <1>2, <2>2 DEF Tables, TableIsTrue
  <2> QED BY <2>1, <2>2
<1>3. ASSUME NEW x \in Relays, NEW id \in ToSet(inbox'[x])
      PROVE  id \in forgot'[x] \/ Has(seen'[x], id)
  <2>1. CASE x # r
    BY <1>3, <2>1 DEF Tables, TableIsTrue
  <2>2. CASE x = r
    <3>1. CASE \E f \in new : f.id = id
      <4>1. PICK f \in new : f.id = id
        BY <3>1
      <4>2. f \in ToSet(seen'[r]) \/ f.id \in forgot'[r]
        BY DEF Tables
      <4> QED BY <2>2, <4>1, <4>2, <1>1, HasSet
    <3>2. CASE ~\E f \in new : f.id = id
      <4>1. id \in ToSet(inbox[r])
        BY <1>3, <2>2, <3>2
      <4>2. id \in forgot[r] \/ \E e \in ToSet(seen[r]) : e.id = id
        BY <4>1, <1>1, HasSet DEF TableIsTrue
      <4>3. CASE id \in forgot[r]
        BY <2>2, <4>3 DEF Tables
      <4>4. ASSUME NEW e \in ToSet(seen[r]), e.id = id PROVE id \in forgot'[x] \/ Has(seen'[x], id)
        <5>1. e \in ToSet(seen'[r]) \/ e.id \in lost
          BY <4>4, <3>2 DEF Tables
        <5>2. CASE e \in ToSet(seen'[r])
          BY <5>2, <4>4, <2>2, <1>1, HasSet
        <5>3. CASE e.id \in lost
          BY <5>3, <4>1, <4>4, <2>2
        <5> QED BY <5>1, <5>2, <5>3
      <4> QED BY <4>2, <4>3, <4>4
    <3> QED BY <3>1, <3>2
  <2> QED BY <2>1, <2>2
<1> HIDE DEF Has, Sender
<1>4. TableIsTrue' <=> \A x \in Relays :
        /\ \A e \in ToSet(seen'[x]) : IF e.at = 0 THEN e.id \in ToSet(inbox'[x]) ELSE Sender(e.id, x)
        /\ \A id \in ToSet(inbox'[x]) : id \in forgot'[x] \/ Has(seen'[x], id)
  BY DEF TableIsTrue, Sender
<1> QED BY <1>2, <1>3, <1>4

(* Steps that leave the table alone.                                        *)
LEMMA TableStays ==
  ASSUME [Next]_vars
  PROVE  \/ UNCHANGED <<seen, forgot, inbox>>
         \/ \E t \in Threads : Evict(t) \/ Record(t) \/ RecordSeq(t)
         \/ \E r \in Relays : ReceiveMsg(r)
<1>1. ASSUME NEW t \in Threads, NEW id \in Uses[t], NEW mode \in Modes[t], Request(t, id, mode)
      PROVE  UNCHANGED <<seen, forgot, inbox>>
  BY <1>1 DEF Request, table
<1>2. ASSUME NEW t \in Threads, Scan(t) \/ Refuse(t) \/ Accept(t) \/ Send(t)
      PROVE  UNCHANGED <<seen, forgot, inbox>>
  BY <1>2 DEF Scan, Refuse, Accept, Send, table
<1>3. ASSUME NEW t \in Threads, Register(t) \/ Acked(t) \/ Replied(t) \/ TimeOut(t)
      PROVE  UNCHANGED <<seen, forgot, inbox>>
  BY <1>3 DEF Register, Acked, Replied, TimeOut, table
<1>4. ASSUME NEW r \in Relays, ReceiveAck(r) \/ ReceiveReply(r) \/ Reply(r) \/ Notice(r)
      PROVE  UNCHANGED <<seen, forgot, inbox>>
  BY <1>4 DEF ReceiveAck, ReceiveReply, Reply, Notice, table
<1>5. ASSUME Break \/ Connect \/ Expire \/ UNCHANGED vars PROVE UNCHANGED <<seen, forgot, inbox>>
  BY <1>5 DEF Break, Connect, Expire, vars, table
<1> QED BY <1>1, <1>2, <1>3, <1>4, <1>5 DEF Next, Serve

LEMMA TableStep ==
  ASSUME Types, Types', FramesAreTrue, TableIsTrue, [Next]_vars
  PROVE  TableIsTrue'
<1>h. \A t \in Threads : Home[t] \in Relays
  BY ConstantsTyped
<1>1. CASE UNCHANGED <<seen, forgot, inbox>>
  BY <1>1 DEF TableIsTrue, Has, Sender
<1>2. ASSUME NEW t \in Threads, Evict(t), ~UNCHANGED <<seen, forgot>> PROVE TableIsTrue'
  <2> DEFINE r == Home[t]
             id == Head(req[t].drop)
  <2>1. /\ Tables(r, {id}, {}) /\ \A e \in ToSet(seen[r]) : e.id = id /\ e.at = 0 => id \in forgot'[r]
    BY <1>2, EvictTables
  <2>2. inbox' = inbox
    BY <1>2 DEF Evict
  <2> HIDE DEF id
  <2>3. ASSUME NEW e \in ToSet(seen[r]), e.id = id, e.id \in ToSet(inbox[r]) PROVE e.id \in forgot'[r]
    <3>1. Sender(e.id, Other(r))
      BY <2>3, <1>h DEF FramesAreTrue
    <3>2. e.at = 0
      BY <3>1, <1>h, IdHasOneSender DEF TableIsTrue
    <3> QED BY <2>1, <2>3, <3>2
  <2>4. r \in Relays
    BY <1>h
  <2> HIDE DEF r
  <2> QED BY <2>1, <2>2, <2>3, <2>4, TablesKeepTrue
<1>3. ASSUME NEW t \in Threads, Record(t) PROVE TableIsTrue'
  <2> DEFINE r == Home[t]
             e == [id |-> req[t].id, at |-> req[t].at, seq |-> 0]
  <2>1. Tables(r, forgot'[r], {e}) /\ e.id \in Uses[t] /\ e.at \in 1 .. clock /\ inbox' = inbox
    BY <1>3, RecordTables DEF Record
  <2> HIDE DEF e
  <2>2. e.at # 0 /\ Sender(e.id, r)
    BY <2>1 DEF Sender
  <2>3. r \in Relays
    BY <1>h
  <2> HIDE DEF r
  <2> QED BY <2>1, <2>2, <2>3, TablesKeepTrue
<1>4. ASSUME NEW t \in Threads, RecordSeq(t), ~UNCHANGED <<seen, forgot>> PROVE TableIsTrue'
  <2> DEFINE r == Home[t]
  <2>0. r \in Relays
    BY <1>h
  <2>1. PICK e \in ToSet(seen[r]) : Tables(r, {}, {[e EXCEPT !.seq = req[t].seq]})
    BY <1>4, RecordSeqTables
  <2> DEFINE n == [e EXCEPT !.seq = req[t].seq]
  <2>2. n.id = e.id /\ n.at = e.at
    <3> e \in Entry
      BY <2>0, ElementsOf DEF Types
    <3> QED BY DEF Entry
  <2>3. inbox' = inbox
    BY <1>4 DEF RecordSeq
  <2>4. IF n.at = 0 THEN n.id \in ToSet(inbox[r]) ELSE Sender(n.id, r)
    BY <2>0, <2>2 DEF TableIsTrue
  <2>5. Tables(r, {}, {n})
    BY <2>1
  <2> HIDE DEF n, r
  <2> QED BY <2>0, <2>3, <2>4, <2>5, TablesKeepTrue
<1>5. ASSUME NEW r \in Relays, ReceiveMsg(r) PROVE TableIsTrue'
  <2> DEFINE id == Head(wire[r]).id
             e == [id |-> id, at |-> 0, seq |-> 0]
  <2>1. CASE Has(seen[r], id)
    BY <1>1, <1>5, <2>1 DEF ReceiveMsg, table
  <2>2. CASE ~Has(seen[r], id)
    <3>1. inbox' = [inbox EXCEPT ![r] = Append(@, id)] /\ wire[r] # <<>>
      BY <1>5, <2>2 DEF ReceiveMsg, Incoming
    <3>2. Tables(r, forgot'[r], {e})
      BY <1>5, <2>2, ReceiveTables
    <3>3. id \in Ids /\ inbox[r] \in Seq(Ids)
      BY <3>1, HeadOfWire DEF Types
    <3>4. e.id = id /\ e.at = 0
      OBVIOUS
    <3> HIDE DEF id, e
    <3>5. ToSet(inbox'[r]) = ToSet(inbox[r]) \cup {id} /\ \A x \in Relays \ {r} : inbox'[x] = inbox[x]
      BY <3>1, <3>3, ElementsOfAppend DEF Types
    <3> QED BY <3>2, <3>4, <3>5, TablesKeepTrue
  <2> QED BY <2>1, <2>2
<1>6. ASSUME NEW t \in Threads, Evict(t) \/ RecordSeq(t), UNCHANGED <<seen, forgot>> PROVE TableIsTrue'
  BY <1>1, <1>6 DEF Evict, RecordSeq
<1> QED BY <1>1, <1>2, <1>3, <1>4, <1>5, <1>6, TableStays

-----------------------------------------------------------------------------
(* Numbers that are cached.                                                 *)

LEMMA CachedStep ==
  ASSUME Types, Types', CachedIsSent, [Next]_vars
  PROVE  CachedIsSent'
<1>h. \A t \in Threads : Home[t] \in Relays
  BY ConstantsTyped
<1>s. sent \subseteq sent'
  <2>1. ASSUME NEW t \in Threads, Send(t) PROVE sent \subseteq sent'
    BY <2>1 DEF Send
  <2>2. ASSUME NEW t \in Threads, NEW id \in Uses[t], NEW mode \in Modes[t], Request(t, id, mode)
        PROVE  sent' = sent
    BY <2>2 DEF Request
  <2>3. ASSUME NEW t \in Threads, Scan(t) \/ Evict(t) \/ Record(t) \/ Refuse(t) \/ Accept(t)
                                  \/ RecordSeq(t) \/ Register(t) \/ Acked(t) \/ Replied(t) \/ TimeOut(t)
        PROVE  sent' = sent
    BY <2>3 DEF Scan, Evict, Record, Refuse, Accept, RecordSeq, Register, Acked, Replied, TimeOut, past
  <2>4. ASSUME NEW r \in Relays, ReceiveMsg(r) \/ ReceiveAck(r) \/ ReceiveReply(r) \/ Reply(r) \/ Notice(r)
        PROVE  sent' = sent
    BY <2>4 DEF ReceiveMsg, ReceiveAck, ReceiveReply, Reply, Notice, past
  <2>5. ASSUME Break \/ Connect \/ Expire \/ UNCHANGED vars PROVE sent' = sent
    BY <2>5 DEF Break, Connect, Expire, vars, past
  <2> QED BY <2>1, <2>2, <2>3, <2>4, <2>5 DEF Next, Serve
<1>1. ASSUME NEW r \in Relays, NEW e \in ToSet(seen'[r]), e.seq # 0 PROVE <<e.id, e.seq>> \in sent'
  <2>1. CASE e \in ToSet(seen[r])
    BY <1>1, <2>1, <1>s DEF CachedIsSent
  <2>2. CASE e \notin ToSet(seen[r])
    <3>1. ~UNCHANGED <<seen, forgot, inbox>>
      BY <1>1, <2>2
    <3>2. ASSUME NEW t \in Threads, Evict(t) PROVE FALSE
      BY <3>2, <2>2, <1>1, <1>h, EvictTables DEF Tables
    <3>3. ASSUME NEW t \in Threads, Record(t) PROVE FALSE
      <4> DEFINE n == [id |-> req[t].id, at |-> req[t].at, seq |-> 0]
      <4>1. e = n
        BY <3>3, <2>2, <1>1, <1>h, RecordTables DEF Tables
      <4> QED BY <4>1, <1>1
    <3>4. ASSUME NEW t \in Threads, RecordSeq(t) PROVE <<e.id, e.seq>> \in sent'
      <4>1. PICK f \in ToSet(seen[Home[t]]) :
              f.id = req[t].id /\ Tables(Home[t], {}, {[f EXCEPT !.seq = req[t].seq]})
        BY <3>4, <2>2, <1>1, RecordSeqTables
      <4>2. f \in Entry
        BY <1>h, ElementsOf DEF Types
      <4>3. e = [f EXCEPT !.seq = req[t].seq]
        BY <4>1, <2>2, <1>1, <1>h DEF Tables
      <4>4. e.id = req[t].id /\ e.seq = req[t].seq
        BY <4>1, <4>2, <4>3 DEF Entry
      <4>5. pc[t] = "record"
        BY <3>4 DEF RecordSeq
      <4> QED BY <4>4, <4>5, <1>s DEF CachedIsSent
    <3>5. ASSUME NEW x \in Relays, ReceiveMsg(x) PROVE FALSE
      <4> DEFINE n == [id |-> Head(wire[x]).id, at |-> 0, seq |-> 0]
      <4>1. ~Has(seen[x], Head(wire[x]).id)
        BY <3>1, <3>5 DEF ReceiveMsg, table
      <4>2. e = n
        BY <3>5, <4>1, <2>2, <1>1, ReceiveTables DEF Tables
      <4> QED BY <4>2, <1>1
    <3> QED BY <3>1, <3>2, <3>3, <3>4, <3>5, TableStays
  <2> QED BY <2>1, <2>2
<1>2. ASSUME NEW u \in Threads, pc'[u] = "record" PROVE <<req'[u].id, req'[u].seq>> \in sent'
  <2>1. CASE pc[u] = "record" /\ req'[u] = req[u]
    BY <2>1, <1>s DEF CachedIsSent
  <2>2. ASSUME NEW t \in Threads, Own(t), u = t PROVE <<req'[u].id, req'[u].seq>> \in sent'
    <3>1. ASSUME NEW id \in Uses[t], NEW mode \in Modes[t], Request(t, id, mode) PROVE FALSE
      BY <3>1, <2>2, <1>2 DEF Request, Types
    <3>2. Send(t) /\ req' = req
      BY <3>1, <2>2, <1>2, OwnStep DEF Own, Serve
    <3>3. <<req[t].id, req[t].seq>> \in sent'
      <4> ws[Home[t]] = "up"
        <5> SUFFICES ASSUME ws[Home[t]] # "up" PROVE FALSE
          OBVIOUS
        <5>1. Done(t)
          BY <3>2 DEF Send
        <5> QED BY <5>1, <2>2, <1>2 DEF Done, Types
      <4> QED BY <3>2 DEF Send
    <3> QED BY <2>2, <3>2, <3>3
  <2>3. ASSUME NEW t \in Threads, Own(t), u # t PROVE <<req'[u].id, req'[u].seq>> \in sent'
    BY <2>1, <2>3, <1>2, OthersStay
  <2>4. ASSUME ~\E t \in Threads : Own(t) PROVE <<req'[u].id, req'[u].seq>> \in sent'
    <3>1. UNCHANGED <<pc, req>>
      BY <2>4 DEF Next, Own, ReceiveMsg, ReceiveAck, ReceiveReply, Reply, Notice, Break, Connect, Expire, vars
    <3> QED BY <2>1, <3>1, <1>2
  <2> QED BY <2>2, <2>3, <2>4
<1>3. ASSUME NEW a \in answers', a.kind = "dup", a.seq # 0 PROVE <<a.id, a.seq>> \in sent'
  <2>1. CASE a \in answers
    BY <2>1, <1>3, <1>s DEF CachedIsSent, CachedSeqWasSent
  <2>2. ASSUME NEW t \in Threads, NEW id \in Uses[t], NEW mode \in Modes[t], Request(t, id, mode),
               a \notin answers
        PROVE  <<a.id, a.seq>> \in sent'
    <3>1. Has(seen[Home[t]], id) /\ a.id = id /\ a.seq = Of(seen[Home[t]], id).seq
      BY <2>2, <1>3 DEF Request, Answer
    <3>2. Of(seen[Home[t]], id) \in ToSet(seen[Home[t]]) /\ Of(seen[Home[t]], id).id = id
      BY <3>1, <1>h, OfSet DEF Types
    <3> QED BY <3>1, <3>2, <1>3, <1>s, <1>h DEF CachedIsSent
  <2>3. ASSUME NEW t \in Threads, Acked(t) \/ Replied(t), a \notin answers PROVE FALSE
    BY <2>3, <1>3 DEF Acked, Replied, Answer
  <2>4. ASSUME NEW t \in Threads, Scan(t) \/ Evict(t) \/ Record(t) \/ Refuse(t) \/ Accept(t)
                                  \/ Send(t) \/ RecordSeq(t) \/ Register(t) \/ TimeOut(t)
        PROVE  answers' = answers
    BY <2>4 DEF Scan, Evict, Record, Refuse, Accept, Send, RecordSeq, Register, TimeOut, past
  <2>5. ASSUME NEW r \in Relays, ReceiveMsg(r) \/ ReceiveAck(r) \/ ReceiveReply(r) \/ Reply(r) \/ Notice(r)
        PROVE  answers' = answers
    BY <2>5 DEF ReceiveMsg, ReceiveAck, ReceiveReply, Reply, Notice, past
  <2>6. ASSUME Break \/ Connect \/ Expire \/ UNCHANGED vars PROVE answers' = answers
    BY <2>6 DEF Break, Connect, Expire, vars, past
  <2> QED BY <1>3, <2>1, <2>2, <2>3, <2>4, <2>5, <2>6 DEF Next, Serve
<1> QED BY <1>1, <1>2, <1>3 DEF CachedIsSent, CachedSeqWasSent

-----------------------------------------------------------------------------
(* The theorems that hold for any number of threads.                        *)

LEMMA SendInvInit == Init => SendInv
<1> SUFFICES ASSUME Init PROVE SendInv
  OBVIOUS
<1>c. MaxReqs \in Nat
  BY ConstantsTyped
<1>e. \A r \in Relays : ToSet(seen[r]) = {} /\ ToSet(wire[r]) = {} /\ ToSet(offline[r]) = {} /\ ToSet(inbox[r]) = {}
  BY ElementsOfEmpty DEF Init
<1>1. Types
  BY <1>c, NoReqTyped DEF Init, Types, Unique, Places
<1>2. WaitersHaveEvents
  BY DEF Init, WaitersHaveEvents
<1>3. NumbersAreRequests
  <2>1. \A t \in Threads : ~Unnumbered(t)
    BY DEF Init, Unnumbered
  <2>2. \A r \in Relays : Pending(r) = {}
    BY <2>1 DEF Pending
  <2>3. Cardinality({}) = 0
    BY FS_EmptySet
  <2>4. \A r \in Relays : number[r] = 0
    BY DEF Init
  <2>5. clock = 0
    BY DEF Init
  <2>6. \A r \in Relays : number[r] + Cardinality(Pending(r)) <= clock
    BY <2>2, <2>3, <2>4, <2>5
  <2> QED BY <2>1, <2>6 DEF NumbersAreRequests
<1>4. Joined
  BY DEF Init, Joined, Relays
<1>5. FramesAreTrue /\ TableIsTrue
  BY <1>e DEF FramesAreTrue, TableIsTrue
<1>6. ToldIsStored /\ CachedIsSent
  BY <1>e DEF Init, ToldIsStored, CachedIsSent, CachedSeqWasSent
<1> QED BY <1>1, <1>2, <1>3, <1>4, <1>5, <1>6 DEF SendInv

LEMMA SendInvStep == SendInv /\ [Next]_vars => SendInv'
BY TypesStep, WaitersStep, NumbersStep, JoinedStep, FramesStep, ToldStep, TableStep, CachedStep DEF SendInv

LEMMA SendInvHolds == Spec => []SendInv
BY SendInvInit, SendInvStep, PTL DEF Spec

(* The types of SendPath: the threads' locals, the table and its unique     *)
(* ids, the Events of _pending_acks, and no more numbers than requests.     *)
THEOREM SendTypes == Spec => []TypeOK
<1>1. SendInv => TypeOK
  <2> SUFFICES ASSUME SendInv PROVE TypeOK
    OBVIOUS
  <2>1. Types /\ NumbersAreRequests /\ WaitersHaveEvents
    BY DEF SendInv
  <2>2. number \in [Relays -> 0 .. MaxReqs]
    <3>1. ASSUME NEW r \in Relays PROVE number[r] \in 0 .. MaxReqs
      <4>1. number[r] \in Nat /\ clock \in 0 .. MaxReqs /\ number[r] + Cardinality(Pending(r)) <= clock
        BY <2>1 DEF Types, NumbersAreRequests
      <4>2. Cardinality(Pending(r)) \in Nat
        BY <2>1, PendingAreTimes
      <4> QED BY <4>1, <4>2, ConstantsTyped
    <3> QED BY <2>1, <3>1 DEF Types
  <2>3. \A t \in Threads : req[t].drop \in Seq(Ids)
    BY <2>1 DEF Types, Req
  <2> QED BY <2>1, <2>2, <2>3 DEF TypeOK, Types, WaitersHaveEvents, Unique
<1> QED BY <1>1, SendInvHolds, PTL

(* What a client is told was acknowledged or replied to is in the other     *)
(* relay's inbox.                                                           *)
THEOREM AckedMeansStored == Spec => []AckedIsStored
<1>1. SendInv => AckedIsStored
  <2> SUFFICES ASSUME SendInv, NEW a \in answers, a.kind \in {"acked", "replied"}
               PROVE  \E t \in Threads : a.id \in Uses[t] /\ a.id \in ToSet(inbox[Other(Home[t])])
    BY DEF AckedIsStored
  <2>1. PICK r \in Relays : a.id \in ToSet(inbox[r])
    BY DEF SendInv, ToldIsStored, Stored
  <2>2. PICK t \in Threads : Home[t] = Other(r) /\ a.id \in Uses[t]
    BY <2>1 DEF SendInv, FramesAreTrue, Sender
  <2> QED BY <2>1, <2>2, ConstantsTyped
<1> QED BY <1>1, SendInvHolds, PTL

(* A number in a deduplicated answer is one under which a socket took the   *)
(* message.                                                                 *)
THEOREM CachedNumbersWereSent == Spec => []CachedSeqWasSent
<1>1. SendInv => CachedSeqWasSent
  BY DEF SendInv, CachedIsSent
<1> QED BY <1>1, SendInvHolds, PTL

-----------------------------------------------------------------------------
(* Once per window, with one HTTP thread at a time on the table of a relay. *)

OneThreadEach == \A t, u \in Threads : Home[t] = Home[u] => t = u

LEMMA AdmitsGrow ==
  ASSUME Types, Types', [Next]_vars
  PROVE  /\ clock <= clock' /\ expired <= expired' /\ clock' \in Int /\ clock \in Int
         /\ \A r \in Relays : forgot[r] \subseteq forgot'[r]
         /\ admits' = admits \/ \E t \in Threads : Record(t)
<1>c. clock \in 0 .. MaxReqs /\ expired \in 0 .. clock /\ clock' \in Int /\ expired' \in Int
  BY ConstantsTyped DEF Types
<1>1. clock' = clock \/ clock' = clock + 1
  <2>1. ASSUME NEW t \in Threads, Own(t) PROVE clock' = clock \/ clock' = clock + 1
    <3>1. ASSUME NEW id \in Uses[t], NEW mode \in Modes[t], Request(t, id, mode) PROVE clock' = clock + 1
      BY <3>1 DEF Request
    <3>2. CASE Serve(t)
      BY <3>2 DEF Serve, Scan, Evict, Record, Refuse, Accept, Send, RecordSeq, Register, Acked, Replied, TimeOut
    <3> QED BY <2>1, <3>1, <3>2 DEF Own
  <2>2. ASSUME ~\E t \in Threads : Own(t) PROVE clock' = clock
    BY <2>2 DEF Next, Own, ReceiveMsg, ReceiveAck, ReceiveReply, Reply, Notice, Break, Connect, Expire, vars
  <2> QED BY <2>1, <2>2
<1>2. expired' = expired \/ Expire
  <2>1. ASSUME NEW t \in Threads, Own(t) PROVE expired' = expired
    <3>1. ASSUME NEW id \in Uses[t], NEW mode \in Modes[t], Request(t, id, mode) PROVE expired' = expired
      BY <3>1 DEF Request, time
    <3>2. CASE Serve(t)
      BY <3>2 DEF Serve, Scan, Evict, Record, Refuse, Accept, Send, RecordSeq, Register, Acked, Replied, TimeOut, time
    <3> QED BY <2>1, <3>1, <3>2 DEF Own
  <2>2. ASSUME ~(\E t \in Threads : Own(t)), ~Expire PROVE expired' = expired
    BY <2>2 DEF Next, Own, ReceiveMsg, ReceiveAck, ReceiveReply, Reply, Notice, Break, Connect, vars, time
  <2> QED BY <2>1, <2>2
<1>3. Expire => expired <= expired'
  BY <1>c DEF Expire
<1>4. ASSUME NEW r \in Relays PROVE forgot[r] \subseteq forgot'[r]
  <2>1. ASSUME NEW t \in Threads, Evict(t) PROVE forgot[r] \subseteq forgot'[r]
    BY <2>1, EvictTables DEF Tables
  <2>2. ASSUME NEW t \in Threads, Record(t) PROVE forgot[r] \subseteq forgot'[r]
    BY <2>2, RecordTables DEF Tables
  <2>3. ASSUME NEW t \in Threads, RecordSeq(t) PROVE forgot[r] \subseteq forgot'[r]
    BY <2>3 DEF RecordSeq
  <2>4. ASSUME NEW x \in Relays, ReceiveMsg(x) PROVE forgot[r] \subseteq forgot'[r]
    <3>1. forgot' = forgot \/ ~Has(seen[x], Head(wire[x]).id)
      BY <2>4 DEF ReceiveMsg, table
    <3> QED BY <2>4, <3>1, ReceiveTables DEF Tables
  <2> QED BY <2>1, <2>2, <2>3, <2>4, TableStays
<1>5. admits' = admits \/ \E t \in Threads : Record(t)
  <2>1. ASSUME NEW t \in Threads, Own(t), ~Record(t) PROVE admits' = admits
    <3>1. ASSUME NEW id \in Uses[t], NEW mode \in Modes[t], Request(t, id, mode) PROVE admits' = admits
      BY <3>1 DEF Request
    <3>2. CASE Serve(t)
      BY <2>1, <3>2 DEF Serve, Scan, Evict, Refuse, Accept, Send, RecordSeq, Register, Acked, Replied, TimeOut, past
    <3> QED BY <2>1, <3>1, <3>2 DEF Own
  <2>2. ASSUME ~(\E t \in Threads : Own(t)) PROVE admits' = admits
    BY <2>2 DEF Next, Own, ReceiveMsg, ReceiveAck, ReceiveReply, Reply, Notice, Break, Connect, Expire, vars, past
  <2> QED BY <2>1, <2>2
<1> QED BY <1>c, <1>1, <1>2, <1>3, <1>4, <1>5

(* What covers an id let through is still there after a step.               *)
LEMMA CoverStays ==
  ASSUME OneThreadEach, Types, Types', AdmitsAreRemembered, [Next]_vars,
         NEW x \in admits, NEW r \in Relays, Covered(x, r)
  PROVE  Covered(x, r)'
<1>t. expired \in Int /\ expired' \in Int /\ clock \in Int
  BY ConstantsTyped DEF Types
<1>x. x.at \in Int
  <2>1. x.at \in 1 .. clock
    BY DEF AdmitsAreRemembered
  <2> QED BY <2>1, <1>t
<1>g. expired <= expired' /\ forgot[r] \subseteq forgot'[r]
  BY AdmitsGrow
<1>h. \A t \in Threads : Home[t] \in Relays
  BY ConstantsTyped
<1>s. \A e \in ToSet(seen[r]) : e \in Entry /\ e.at \in Nat
  <2>1. seen[r] \in Seq(Entry)
    BY DEF Types
  <2>2. ToSet(seen[r]) \subseteq Entry
    BY <2>1, ElementsOf
  <2> QED BY <2>2, ConstantsTyped DEF Entry
<1>1. CASE x.at <= expired \/ x.id \in forgot[r]
  BY <1>1, <1>g, <1>t, <1>x DEF Covered
<1>2. ASSUME NEW e \in ToSet(seen[r]), e.id = x.id, e.at >= x.at
      PROVE  Covered(x, r)'
  <2>0. CASE e \in ToSet(seen'[r]) \/ e.id \in forgot'[r]
    BY <1>2, <2>0 DEF Covered
  <2>1. ASSUME NEW t \in Threads, Evict(t), e \notin ToSet(seen'[r]) PROVE Covered(x, r)'
    <3>1. r = Home[t] /\ e.id = Head(req[t].drop) /\ e.id \in ToSet(req[t].drop)
      BY <2>1, <1>h, EvictTables DEF Tables
    <3>2. pc[t] = "evict"
      BY <2>1 DEF Evict
    <3>3. e.at <= req[t].old /\ req[t].old \in 0 .. expired
      BY <3>1, <3>2 DEF AdmitsAreRemembered, Types
    <3>4. x.at <= expired'
      BY <3>3, <1>2, <1>g, <1>t, <1>x, <1>s
    <3> QED BY <3>4 DEF Covered
  <2>2. ASSUME NEW t \in Threads, Record(t), e \notin ToSet(seen'[r]), e.id \notin forgot'[r]
        PROVE  Covered(x, r)'
    <3> DEFINE n == [id |-> req[t].id, at |-> req[t].at, seq |-> 0]
    <3>1. r = Home[t] /\ n.id = e.id /\ n \in ToSet(seen'[r])
      BY <2>2, <1>h, RecordTables DEF Tables
    <3>2. pc[t] = "evict"
      BY <2>2 DEF Record
    <3>3. x.at < req[t].at /\ req[t].at \in Int
      BY <3>1, <3>2, <1>2, ConstantsTyped, SMTT(30) DEF AdmitsAreRemembered, Types
    <3>4. n.at >= x.at
      BY <3>3, <1>x
    <3> QED BY <3>1, <3>4, <1>2 DEF Covered
  <2>3. ASSUME NEW t \in Threads, RecordSeq(t), e \notin ToSet(seen'[r]), e.id \notin forgot'[r]
        PROVE  Covered(x, r)'
    <3>1. PICK f \in ToSet(seen[Home[t]]) :
            f.id = req[t].id /\ Tables(Home[t], {}, {[f EXCEPT !.seq = req[t].seq]})
      BY <2>3, RecordSeqTables
    <3>2. r = Home[t]
      BY <2>3, <3>1, <1>h DEF Tables
    <3>3. e \in Entry /\ f \in Entry /\ [f EXCEPT !.seq = req[t].seq].id = f.id
          /\ [f EXCEPT !.seq = req[t].seq].at = f.at
      <4>1. e \in Entry /\ f \in Entry
        BY <3>2, <1>s
      <4> QED BY <4>1 DEF Entry
    <3>4. f.id = e.id
      BY <2>3, <3>1, <3>2, <3>3 DEF Tables
    <3>5. f = e
      BY <3>2, <3>4, UniqueSet DEF Types
    <3>6. [f EXCEPT !.seq = req[t].seq] \in ToSet(seen'[r])
      BY <2>3, <3>1, <3>2, <3>3, <3>4 DEF Tables
    <3> QED BY <3>3, <3>5, <3>6, <1>2 DEF Covered
  <2>4. ASSUME NEW y \in Relays, ReceiveMsg(y), e \notin ToSet(seen'[r]), e.id \notin forgot'[r]
        PROVE  Covered(x, r)'
    <3>1. seen' = seen \/ ~Has(seen[y], Head(wire[y]).id)
      BY <2>4 DEF ReceiveMsg, table
    <3>2. ~Has(seen[y], Head(wire[y]).id)
      BY <3>1, <2>4
    <3> DEFINE n == [id |-> Head(wire[y]).id, at |-> 0, seq |-> 0]
    <3>3. Tables(y, forgot'[y], {n})
      BY <2>4, <3>2, ReceiveTables
    <3>4. y = r /\ e.id = n.id
      BY <2>4, <3>3 DEF Tables
    <3>5. Has(seen[y], Head(wire[y]).id)
      BY <3>4, HasSet DEF Types
    <3> QED BY <3>2, <3>5
  <2> QED BY <2>0, <2>1, <2>2, <2>3, <2>4, TableStays
<1> QED BY <1>1, <1>2 DEF Covered

LEMMA RememberedStep ==
  ASSUME OneThreadEach, Types, Types', AdmitsAreRemembered, [Next]_vars
  PROVE  AdmitsAreRemembered'
<1>h. \A t \in Threads : Home[t] \in Relays
  BY ConstantsTyped
<1>g. /\ clock <= clock' /\ expired <= expired' /\ clock' \in Int /\ clock \in Int
      /\ \A r \in Relays : forgot[r] \subseteq forgot'[r]
      /\ admits' = admits \/ \E t \in Threads : Record(t)
  BY AdmitsGrow
<1>u. \A t, v \in Threads : \A i : i \in Uses[t] /\ i \in Uses[v] => t = v
  BY SendAssumption
<1>i. \A t \in Threads : pc[t] # "idle" => /\ req[t].id \in Uses[t] /\ req[t].at \in 1 .. clock
                                           /\ req[t].old \in 0 .. expired /\ req[t].old \in Int
  BY ConstantsTyped DEF Types
(* The entry of a thread that lets an id through.                           *)
<1>r. ASSUME NEW t \in Threads, Record(t)
      PROVE  /\ admits' = admits \cup {[id |-> req[t].id, at |-> req[t].at, old |-> req[t].old]}
             /\ pc[t] = "evict"
  BY <1>r DEF Record
<1>1. ASSUME NEW x \in admits'
      PROVE  x.at \in 1 .. clock' /\ \E t \in Threads : x.id \in Uses[t] /\ Covered(x, Home[t])'
  <2>1. CASE x \in admits
    <3>1. PICK t \in Threads : x.id \in Uses[t] /\ Covered(x, Home[t])
      BY <2>1 DEF AdmitsAreRemembered
    <3>2. Covered(x, Home[t])'
      BY <2>1, <3>1, <1>h, CoverStays
    <3>3. x.at \in 1 .. clock
      BY <2>1 DEF AdmitsAreRemembered
    <3> QED BY <3>1, <3>2, <3>3, <1>g
  <2>2. CASE x \notin admits
    <3>1. PICK t \in Threads : Record(t)
      BY <1>1, <2>2, <1>g
    <3>2. x = [id |-> req[t].id, at |-> req[t].at, old |-> req[t].old] /\ pc[t] = "evict"
      BY <1>1, <2>2, <3>1, <1>r
    <3> DEFINE n == [id |-> req[t].id, at |-> req[t].at, seq |-> 0]
    <3>3. n \in ToSet(seen'[Home[t]])
      BY <3>1, RecordTables
    <3>4. n.id = x.id /\ n.at = x.at /\ x.id \in Uses[t] /\ x.at \in 1 .. clock
      BY <3>2, <1>i
    <3>5. n.at >= x.at
      BY <3>4, <1>g
    <3>6. Covered(x, Home[t])'
      BY <3>3, <3>4, <3>5 DEF Covered
    <3> QED BY <3>4, <3>6, <1>g
  <2> QED BY <2>1, <2>2
<1>2. ASSUME NEW t \in Threads, pc'[t] \in {"scan", "evict"}, NEW x \in admits', x.id = req'[t].id
      PROVE  x.at < req'[t].at /\ (x.at <= req'[t].old \/ x.id \in forgot'[Home[t]])
  <2>1. CASE pc[t] \in {"scan", "evict"} /\ Same(t)
    <3>1. x \in admits
      <4> SUFFICES ASSUME x \notin admits PROVE FALSE
        OBVIOUS
      <4>1. PICK v \in Threads : Record(v)
        BY <1>g
      <4>2. x.id = req[v].id /\ pc[v] = "evict"
        BY <4>1, <1>r
      <4>3. v = t
        BY <2>1, <4>2, <1>2, <1>i, <1>u DEF Same
      <4> QED BY <4>1, <4>3, <1>2, OwnStep
    <3> QED BY <2>1, <3>1, <1>2, <1>g, <1>h DEF AdmitsAreRemembered, Same
  <2>2. ASSUME NEW id \in Uses[t], NEW mode \in Modes[t], Request(t, id, mode),
               ~(pc[t] \in {"scan", "evict"})
        PROVE  x.at < req'[t].at /\ (x.at <= req'[t].old \/ x.id \in forgot'[Home[t]])
    <3> DEFINE r == Home[t]
    <3>1. /\ req'[t].id = id /\ req'[t].at = clock + 1 /\ req'[t].old = expired
          /\ UNCHANGED <<seen, forgot, admits>>
          /\ ~(Has(seen[r], id) /\ ~(Of(seen[r], id).at <= expired))
      BY <2>2, <1>2 DEF Request, Types, table, IsExpired
    <3>2. x \in admits /\ x.id = id /\ x.at \in 1 .. clock /\ clock \in Int /\ expired \in Int
      BY <3>1, <1>2, ConstantsTyped DEF AdmitsAreRemembered, Types
    <3>3. Covered(x, r)
      BY <3>2, <2>2, <1>u DEF AdmitsAreRemembered
    <3>4. ASSUME NEW e \in ToSet(seen[r]), e.id = x.id, e.at >= x.at PROVE x.at <= expired
      <4>1. Has(seen[r], id)
        BY <3>2, <3>4, <1>h, HasSet DEF Types
      <4>0. seen[r] \in Seq(Entry)
        BY <1>h DEF Types
      <4>2. Of(seen[r], id) \in ToSet(seen[r]) /\ Of(seen[r], id).id = id /\ Of(seen[r], id) \in Entry
        BY <4>0, <4>1, OfSet
      <4>3. e = Of(seen[r], id)
        BY <3>2, <3>4, <4>2, <1>h, UniqueSet DEF Types
      <4>4. Of(seen[r], id).at \in Int
        BY <4>2, ConstantsTyped DEF Entry
      <4> QED BY <3>1, <3>2, <3>4, <4>1, <4>3, <4>4
    <3> QED BY <3>1, <3>2, <3>3, <3>4, <1>h DEF Covered
  <2>3. ASSUME NEW v \in Threads, Own(v), v # t PROVE pc[t] \in {"scan", "evict"} /\ Same(t)
    BY <2>3, <1>2, OthersStay DEF Same
  <2>4. ASSUME Serve(t) PROVE pc[t] \in {"scan", "evict"} /\ Same(t)
    BY <2>4, <1>2, OwnStep DEF Serve
  <2>5. ASSUME ~\E v \in Threads : Own(v) PROVE pc[t] \in {"scan", "evict"} /\ Same(t)
    <3>1. UNCHANGED <<pc, req>>
      BY <2>5 DEF Next, Own, ReceiveMsg, ReceiveAck, ReceiveReply, Reply, Notice, Break, Connect, Expire, vars
    <3> QED BY <3>1, <1>2 DEF Same
  <2>6. ASSUME NEW v \in Threads, Own(v), v = t
        PROVE  x.at < req'[t].at /\ (x.at <= req'[t].old \/ x.id \in forgot'[Home[t]])
    <3>1. ASSUME NEW id \in Uses[t], NEW mode \in Modes[t], Request(t, id, mode)
          PROVE  ~(pc[t] \in {"scan", "evict"})
      BY <3>1 DEF Request
    <3> QED BY <2>6, <3>1, <2>1, <2>2, <2>4 DEF Own
  <2> QED BY <2>1, <2>3, <2>5, <2>6
<1>3. ASSUME NEW t \in Threads, pc'[t] = "evict", NEW e \in ToSet(seen'[Home[t]]),
             e.id \in ToSet(req'[t].drop)
      PROVE  e.at <= req'[t].old
  <2> DEFINE r == Home[t]
  <2>0. r \in Relays
    BY <1>h
  <2>1. ASSUME pc[t] = "evict", req'[t].old = req[t].old, ToSet(req'[t].drop) \subseteq ToSet(req[t].drop),
               e \in ToSet(seen[r]) \/ e.at = 0
        PROVE  e.at <= req'[t].old
    BY <2>1, <1>3, <1>i DEF AdmitsAreRemembered
  <2>2. CASE Scan(t)
    <3> DEFINE dead == Pick(seen[r], {f \in Entry : IsExpired(f, req[t].old, req[t].at)})
               ids == [i \in DOMAIN dead |-> dead[i].id]
    <3>1. seen' = seen /\ pc[t] = "scan"
      BY <2>2 DEF Scan, table
    <3>2. req' = [req EXCEPT ![t].drop = ids]
      <4>1. ~Done(t)
        BY <1>3 DEF Done, Types
      <4> QED BY <2>2, <4>1 DEF Scan
    <3>3. req'[t].drop = ids /\ req'[t].old = req[t].old
      <4> HIDE DEF ids
      <4> req'[t] = [req[t] EXCEPT !.drop = ids] /\ req[t] \in Req
        BY <3>2 DEF Types
      <4> QED BY DEF Req
    <3>4. ToSet(dead) = ToSet(seen[r]) \cap {f \in Entry : IsExpired(f, req[t].old, req[t].at)}
      BY <2>0, ElementsOfPick, SMTT(30) DEF Types
    <3> HIDE DEF dead
    <3>5. PICK d \in ToSet(dead) : d.id = e.id
      BY <1>3, <3>3 DEF ToSet
    <3>6. d = e
      BY <3>1, <3>4, <3>5, <1>3, <2>0, UniqueSet DEF Types
    <3> QED BY <3>3, <3>4, <3>5, <3>6 DEF IsExpired
  <2>3. CASE Evict(t)
    <3>1. pc[t] = "evict" /\ req[t].drop # <<>> /\ req[t] \in Req
      BY <2>3 DEF Evict, Types
    <3>2. req' = [req EXCEPT ![t].drop = Tail(@)]
      <4>1. ~Done(t)
        BY <1>3 DEF Done, Types
      <4> QED BY <2>3, <4>1 DEF Evict
    <3>3. req'[t].drop = Tail(req[t].drop) /\ req'[t].old = req[t].old /\ req[t].drop \in Seq(Ids)
      <4> req'[t] = [req[t] EXCEPT !.drop = Tail(@)]
        BY <3>2 DEF Types
      <4> QED BY <3>1 DEF Req
    <3>4. ToSet(req'[t].drop) \subseteq ToSet(req[t].drop)
      BY <3>1, <3>3, ElementsOfTail
    <3>5. e \in ToSet(seen[r])
      BY <2>3, <1>3, EvictTables DEF Tables
    <3> QED BY <2>1, <3>1, <3>3, <3>4, <3>5
  <2>4. ASSUME NEW v \in Threads, Own(v), v # t PROVE e.at <= req'[t].old
    <3>1. pc[t] = "evict" /\ req'[t] = req[t]
      BY <2>4, <1>3, OthersStay
    <3>2. Home[v] # r
      BY <2>4 DEF OneThreadEach
    <3>3. seen'[r] = seen[r]
      <4>1. ASSUME NEW id \in Uses[v], NEW mode \in Modes[v], Request(v, id, mode) PROVE seen'[r] = seen[r]
        BY <4>1 DEF Request, table
      <4>2. CASE Serve(v)
        <5>1. CASE Evict(v)
          BY <5>1, <3>2, <2>0, EvictTables DEF Tables
        <5>2. CASE Record(v)
          BY <5>2, <3>2, <2>0, RecordTables DEF Tables
        <5>3. CASE RecordSeq(v)
          BY <5>3, <3>2, <2>0, RecordSeqTables DEF Tables
        <5>4. CASE ~Evict(v) /\ ~Record(v) /\ ~RecordSeq(v)
          BY <4>2, <5>4 DEF Serve, Scan, Refuse, Accept, Send, Register, Acked, Replied, TimeOut, table
        <5> QED BY <5>1, <5>2, <5>3, <5>4
      <4> QED BY <2>4, <4>1, <4>2 DEF Own
    <3> QED BY <2>1, <3>1, <3>3, <1>3
  <2>5. ASSUME Own(t), ~Scan(t), ~Evict(t) PROVE FALSE
    <3>1. ASSUME NEW id \in Uses[t], NEW mode \in Modes[t], Request(t, id, mode) PROVE pc'[t] # "evict"
      BY <3>1 DEF Request, Types
    <3> QED BY <2>5, <3>1, <1>3, OwnStep DEF Own, Serve
  <2>6. ASSUME ~\E v \in Threads : Own(v) PROVE e.at <= req'[t].old
    <3>1. UNCHANGED <<pc, req>>
      BY <2>6 DEF Next, Own, ReceiveMsg, ReceiveAck, ReceiveReply, Reply, Notice, Break, Connect, Expire, vars
    <3>2. e \in ToSet(seen[r]) \/ e.at = 0
      <4>1. CASE UNCHANGED seen
        BY <4>1, <1>3
      <4>2. ASSUME NEW y \in Relays, ReceiveMsg(y), seen' # seen PROVE e \in ToSet(seen[r]) \/ e.at = 0
        <5> DEFINE n == [id |-> Head(wire[y]).id, at |-> 0, seq |-> 0]
        <5>1. Tables(y, forgot'[y], {n})
          BY <4>2, ReceiveTables DEF ReceiveMsg, table
        <5>2. e \in ToSet(seen[r]) \/ e = n
          BY <5>1, <1>3, <2>0 DEF Tables
        <5> QED BY <5>2
      <4> QED BY <2>6, <4>1, <4>2, TableStays DEF Own, Serve
    <3> QED BY <2>1, <3>1, <3>2, <1>3
  <2> QED BY <2>2, <2>3, <2>4, <2>5, <2>6
<1>4. ASSUME NEW x \in admits', NEW y \in admits', x.id = y.id, x.at < y.at
      PROVE  x.at <= y.old \/ \E t \in Threads : x.id \in Uses[t] /\ x.id \in forgot'[Home[t]]
  <2>1. CASE x \in admits /\ y \in admits
    <3>1. x.at <= y.old \/ \E t \in Threads : x.id \in Uses[t] /\ x.id \in forgot[Home[t]]
      BY <2>1, <1>4 DEF AdmitsAreRemembered, AdmittedOncePerWindow
    <3> QED BY <3>1, <1>g, <1>h
  <2>2. CASE ~(x \in admits /\ y \in admits)
    <3>1. PICK t \in Threads : Record(t)
      BY <2>2, <1>4, <1>g
    <3> DEFINE n == [id |-> req[t].id, at |-> req[t].at, old |-> req[t].old]
    <3>2. admits' = admits \cup {n} /\ pc[t] = "evict"
      BY <3>1, <1>r
    <3>3. \A z \in admits : z.id = req[t].id =>
            z.at < req[t].at /\ (z.at <= req[t].old \/ z.id \in forgot[Home[t]]) /\ z.at \in Int
      BY <3>2, <1>g DEF AdmitsAreRemembered
    <3>4. req[t].at \in Int /\ n.at = req[t].at /\ n.id = req[t].id /\ n.old = req[t].old
      BY <3>2, <1>i
    <3> HIDE DEF n
    <3>5. x \in admits /\ y = n
      BY <2>2, <3>2, <3>3, <3>4, <1>4
    <3>6. x.id \in Uses[t]
      BY <3>2, <3>4, <3>5, <1>4, <1>i
    <3> QED BY <3>3, <3>4, <3>5, <3>6, <1>4, <1>g, <1>h
  <2> QED BY <2>1, <2>2
<1> QED BY <1>1, <1>2, <1>3, <1>4 DEF AdmitsAreRemembered, AdmittedOncePerWindow

(* A client is told the truth: an id goes out once per window unless the    *)
(* cap removed it, a number in a deduplicated answer was sent, and what was *)
(* acknowledged or replied to is stored.  For any number of ids and         *)
(* requests, with one HTTP thread at a time for each relay.                 *)
THEOREM AnswersHold ==
  ASSUME OneThreadEach
  PROVE  Spec => []AnswersAreTrue
<1>1. Init => AdmitsAreRemembered
  BY DEF Init, AdmitsAreRemembered, AdmittedOncePerWindow
<1>2. SendInv /\ SendInv' /\ AdmitsAreRemembered /\ [Next]_vars => AdmitsAreRemembered'
  BY RememberedStep DEF SendInv
<1>3. Spec => []AdmitsAreRemembered
  BY <1>1, <1>2, SendInvHolds, PTL DEF Spec
<1>4. AdmitsAreRemembered => AdmittedOncePerWindow
  BY DEF AdmitsAreRemembered
<1>5. AdmittedOncePerWindow /\ CachedSeqWasSent /\ AckedIsStored => AnswersAreTrue
  BY DEF AnswersAreTrue
<1> QED BY <1>3, <1>4, <1>5, AckedMeansStored, CachedNumbersWereSent, PTL

-----------------------------------------------------------------------------
(* Two relays are two mailboxes: what is under way, and what senders know.  *)

Transit(r) == Messages(wire[r]) \o Messages(offline[Other(r)])
Told == {a.id : a \in {b \in answers : b.kind \in {"acked", "replied"}}}

LEMMA MessagesTyped ==
  ASSUME NEW s \in Seq(Frame)
  PROVE  /\ Pick(s, [kind : {"msg"}, id : Ids]) \in Seq([kind : {"msg"}, id : Ids])
         /\ Messages(s) \in Seq(Ids)
<1> DEFINE T == [kind : {"msg"}, id : Ids]
           p == Pick(s, T)
           ids == [i \in DOMAIN p |-> p[i].id]
<1>1. p \in Seq(Frame \cap T)
  BY PickType
<1>2. \A i \in 1 .. Len(p) : p[i] \in Frame \cap T
  BY <1>1
<1>3. DOMAIN p = 1 .. Len(p) /\ Len(p) \in Nat
  BY <1>1
<1>4. p \in Seq(T)
  <2>1. p \in [1 .. Len(p) -> T]
    <3> HIDE DEF p, T
    <3>1. p = [i \in 1 .. Len(p) |-> p[i]]
      BY <1>1, <1>3
    <3> QED BY <3>1, <1>2
  <2> HIDE DEF p, T
  <2> QED BY <2>1, <1>3, FunctionIsSeq
<1>5. ids \in [1 .. Len(p) -> Ids]
  <2> HIDE DEF p
  <2> QED BY <1>2, <1>3
<1>6. ids \in Seq(Ids)
  <2> HIDE DEF ids, p
  <2> QED BY <1>3, <1>5, FunctionIsSeq
<1> QED BY <1>4, <1>6 DEF Messages, IdsOf

LEMMA MessagesEmpty == Messages(<<>>) = <<>>
<1>1. Pick(<<>>, [kind : {"msg"}, id : Ids]) = <<>>
  BY PickEmpty
<1>2. IdsOf(<<>>) = <<>>
  BY DEF IdsOf
<1> QED BY <1>1, <1>2 DEF Messages

LEMMA MessagesAppend ==
  ASSUME NEW s \in Seq(Frame), NEW f \in Frame
  PROVE  Messages(Append(s, f)) = IF f.kind = "msg" THEN Append(Messages(s), f.id) ELSE Messages(s)
<1> DEFINE T == [kind : {"msg"}, id : Ids]
           p == Pick(s, T)
<1>1. f \in T <=> f.kind = "msg"
  BY DEF Frame
<1>2. Pick(Append(s, f), T) = IF f \in T THEN Append(p, f) ELSE p
  <2> HIDE DEF T
  <2> QED BY PickAppend
<1>3. ASSUME f \in T PROVE IdsOf(Append(p, f)) = Append(IdsOf(p), f.id)
  <2>1. p \in Seq(T)
    BY MessagesTyped
  <2> HIDE DEF p, T
  <2>2. DOMAIN Append(p, f) = 1 .. Len(p) + 1 /\ DOMAIN p = 1 .. Len(p) /\ Len(p) \in Nat
    BY <1>3, <2>1
  <2>3. Append(p, f)[Len(p) + 1] = f /\ \A i \in 1 .. Len(p) : Append(p, f)[i] = p[i]
    BY <1>3, <2>1
  <2>4. IdsOf(p) \in Seq(Ids) /\ Len(IdsOf(p)) = Len(p) /\ \A i \in 1 .. Len(p) : IdsOf(p)[i] = p[i].id
    <3>1. IdsOf(p) \in [1 .. Len(p) -> Ids]
      <4>1. \A i \in 1 .. Len(p) : p[i] \in T
        BY <2>1
      <4>2. \A i \in 1 .. Len(p) : p[i].id \in Ids
        BY <4>1 DEF T
      <4> QED BY <4>2, <2>2 DEF IdsOf
    <3>2. IdsOf(p) \in Seq(Ids) /\ Len(IdsOf(p)) = Len(p)
      BY <2>2, <3>1, FunctionIsSeq
    <3> QED BY <3>2, <2>2 DEF IdsOf
  <2>5. IdsOf(Append(p, f)) = [i \in 1 .. Len(p) + 1 |-> Append(p, f)[i].id]
    BY <2>2 DEF IdsOf
  <2>6. Append(IdsOf(p), f.id) = [i \in 1 .. Len(p) + 1 |-> IF i = Len(p) + 1 THEN f.id ELSE IdsOf(p)[i]]
    <3>1. f.id \in Ids
      BY <1>3 DEF T
    <3>2. Append(IdsOf(p), f.id) \in Seq(Ids) /\ Len(Append(IdsOf(p), f.id)) = Len(p) + 1
      BY <2>4, <3>1
    <3>3. \A i \in 1 .. Len(p) + 1 :
            Append(IdsOf(p), f.id)[i] = IF i = Len(p) + 1 THEN f.id ELSE IdsOf(p)[i]
      BY <2>2, <2>4, <3>1
    <3> QED BY <3>2, <3>3
  <2>7. \A i \in 1 .. Len(p) + 1 :
          Append(p, f)[i].id = IF i = Len(p) + 1 THEN f.id ELSE IdsOf(p)[i]
    BY <2>2, <2>3, <2>4
  <2> QED BY <2>5, <2>6, <2>7
<1> QED BY <1>1, <1>2, <1>3 DEF Messages

LEMMA MessagesTail ==
  ASSUME NEW s \in Seq(Frame), s # <<>>
  PROVE  IF Head(s).kind = "msg"
         THEN /\ Messages(s) # <<>> /\ Head(Messages(s)) = Head(s).id
              /\ Tail(Messages(s)) = Messages(Tail(s))
         ELSE Messages(s) = Messages(Tail(s))
<1> DEFINE T == [kind : {"msg"}, id : Ids]
           p == Pick(s, T)
           q == Pick(Tail(s), T)
<1>0. Head(s) \in Frame /\ Tail(s) \in Seq(Frame)
  OBVIOUS
<1>1. Head(s) \in T <=> Head(s).kind = "msg"
  BY <1>0 DEF Frame
<1>2. p = IF Head(s) \in T THEN <<Head(s)>> \o q ELSE q
  <2> HIDE DEF T
  <2> QED BY PickTail
<1>3. CASE Head(s) \in T
  <2>1. q \in Seq(T) /\ p = <<Head(s)>> \o q /\ Messages(Tail(s)) \in Seq(Ids) /\ Messages(s) \in Seq(Ids)
    BY <1>0, <1>2, <1>3, MessagesTyped
  <2>2. Messages(s) = IdsOf(p) /\ Messages(Tail(s)) = IdsOf(q)
    BY DEF Messages
  <2> HIDE DEF p, q
  <2>3. DOMAIN p = 1 .. Len(q) + 1 /\ DOMAIN q = 1 .. Len(q) /\ Len(q) \in Nat
    BY <1>3, <2>1
  <2>4. p[1] = Head(s) /\ \A i \in 1 .. Len(q) : p[i + 1] = q[i]
    BY <1>3, <2>1
  <2> HIDE DEF T
  <2>5. DOMAIN IdsOf(p) = 1 .. Len(q) + 1 /\ DOMAIN IdsOf(q) = 1 .. Len(q)
        /\ IdsOf(p)[1] = Head(s).id /\ \A i \in 1 .. Len(q) : IdsOf(p)[i + 1] = IdsOf(q)[i]
    BY <2>3, <2>4 DEF IdsOf
  <2>6. Len(IdsOf(p)) = Len(q) + 1 /\ Len(IdsOf(q)) = Len(q)
    BY <2>1, <2>2, <2>3, <2>5
  <2>7. IdsOf(p) # <<>> /\ Head(IdsOf(p)) = Head(s).id
    BY <2>1, <2>2, <2>3, <2>5, <2>6
  <2>8. Tail(IdsOf(p)) = IdsOf(q)
    <3>1. Tail(IdsOf(p)) \in Seq(Ids) /\ Len(Tail(IdsOf(p))) = Len(q)
      BY <2>1, <2>2, <2>3, <2>6, <2>7
    <3>2. \A i \in 1 .. Len(q) : Tail(IdsOf(p))[i] = IdsOf(q)[i]
      BY <2>1, <2>2, <2>3, <2>5, <2>6, <2>7, SMTT(30)
    <3> QED BY <3>1, <3>2, <2>1, <2>2, <2>6
  <2> QED BY <1>1, <1>3, <2>2, <2>7, <2>8
<1>4. CASE Head(s) \notin T
  BY <1>1, <1>2, <1>4 DEF Messages
<1> QED BY <1>3, <1>4

LEMMA MessagesApart ==
  ASSUME NEW s \in Seq(Ids), NEW t \in Seq(Ids), NEW id \in Ids
  PROVE  /\ s \o <<>> = s /\ <<>> \o s = s
         /\ s \o Append(t, id) = Append(s \o t, id)
OBVIOUS

LEMMA FirstOfBoth ==
  ASSUME NEW s \in Seq(Ids), NEW t \in Seq(Ids), s # <<>>
  PROVE  s \o t # <<>> /\ Head(s \o t) = Head(s) /\ Tail(s \o t) = Tail(s) \o t
OBVIOUS

LEMMA TransitTyped ==
  ASSUME Types, NEW r \in Relays
  PROVE  /\ wire[r] \in Seq(Frame) /\ offline[Other(r)] \in Seq(Frame)
         /\ Messages(wire[r]) \in Seq(Ids) /\ Messages(offline[Other(r)]) \in Seq(Ids)
         /\ Transit(r) \in Seq(Ids)
<1>1. wire[r] \in Seq(Frame) /\ offline[Other(r)] \in Seq(Frame)
  BY ConstantsTyped DEF Types
<1>2. Messages(wire[r]) \in Seq(Ids) /\ Messages(offline[Other(r)]) \in Seq(Ids)
  BY <1>1, MessagesTyped
<1> QED BY <1>1, <1>2 DEF Transit

-----------------------------------------------------------------------------
(* What it takes to be a step of Mailbox.                                   *)

LEMMA IsHand ==
  ASSUME NEW b \in Relays, NEW id \in Ids, Transit(b)' = Append(Transit(b), id),
         \A r \in Relays \ {b} : Transit(r)' = Transit(r), UNCHANGED <<inbox, forgot, Told>>
  PROVE  [Mail!Next]_Mail!mailVars
<1>1. Mail!Hand(b, id)
  BY DEF Mail!Hand, Transit, Told
<1> QED BY <1>1 DEF Mail!Next

LEMMA IsForget ==
  ASSUME NEW b \in Relays, \E more \in SUBSET Ids : forgot' = [forgot EXCEPT ![b] = @ \cup more],
         \A r \in Relays : Transit(r)' = Transit(r), UNCHANGED <<inbox, Told>>
  PROVE  [Mail!Next]_Mail!mailVars
<1>1. Mail!Forget(b)
  BY DEF Mail!Forget, Mail!Grows, Transit, Told
<1> QED BY <1>1 DEF Mail!Next

LEMMA IsStutter ==
  ASSUME \A r \in Relays : Transit(r)' = Transit(r), UNCHANGED <<inbox, forgot, Told>>
  PROVE  [Mail!Next]_Mail!mailVars
<1>1. UNCHANGED Mail!mailVars
  BY DEF Mail!mailVars, Transit, Told
<1> QED BY <1>1

LEMMA IsTell ==
  ASSUME NEW id \in Ids, Stored(id), inbox \in [Relays -> Seq(Ids)],
         \A r \in Relays : Transit(r)' = Transit(r), UNCHANGED <<inbox, forgot>>,
         Told' = Told \cup {id}
  PROVE  [Mail!Next]_Mail!mailVars
<1>1. \E r \in Relays : Mail!Holds(r, id)
  BY DEF Stored, ToSet, Mail!Holds
<1>2. Mail!Tell(id)
  BY <1>1 DEF Mail!Tell, Transit, Told
<1> QED BY <1>2 DEF Mail!Next

(* The oldest message arrives at b.                                         *)
LEMMA IsStore ==
  ASSUME NEW b \in Relays, Types, Transit(b) # <<>>,
         Head(Transit(b)) \notin ToSet(inbox[b]) \/ Head(Transit(b)) \in forgot[b],
         Transit(b)' = Tail(Transit(b)), \A r \in Relays \ {b} : Transit(r)' = Transit(r),
         inbox' = [inbox EXCEPT ![b] = Append(@, Head(Transit(b)))],
         \E more \in SUBSET Ids : forgot' = [forgot EXCEPT ![b] = @ \cup more], UNCHANGED Told
  PROVE  [Mail!Next]_Mail!mailVars
<1>1. inbox[b] \in Seq(Ids)
  BY DEF Types
<1>2. ~Mail!Holds(b, Head(Transit(b))) \/ Head(Transit(b)) \in forgot[b]
  BY <1>1 DEF Mail!Holds, ToSet
<1>3. Mail!Store(b)
  BY <1>2 DEF Mail!Store, Mail!Grows, Transit, Told
<1> QED BY <1>3 DEF Mail!Next

LEMMA IsDrop ==
  ASSUME NEW b \in Relays, Types, Transit(b) # <<>>, Head(Transit(b)) \in ToSet(inbox[b]),
         Transit(b)' = Tail(Transit(b)), \A r \in Relays \ {b} : Transit(r)' = Transit(r),
         UNCHANGED <<inbox, forgot, Told>>
  PROVE  [Mail!Next]_Mail!mailVars
<1>1. inbox[b] \in Seq(Ids)
  BY DEF Types
<1>2. Mail!Holds(b, Head(Transit(b)))
  BY <1>1 DEF Mail!Holds, ToSet
<1>3. Mail!Drop(b)
  BY <1>2 DEF Mail!Drop, Transit, Told
<1> QED BY <1>3 DEF Mail!Next

LEMMA IsLose ==
  ASSUME Types, \A r \in Relays : Transit(r)' = <<>>, UNCHANGED <<inbox, forgot, Told>>
  PROVE  [Mail!Next]_Mail!mailVars
<1>1. ASSUME NEW r \in Relays
      PROVE  \E n \in 0 .. Len(Transit(r)) : Transit(r)' = SubSeq(Transit(r), n + 1, Len(Transit(r)))
  <2>1. Transit(r) \in Seq(Ids)
    BY TransitTyped
  <2> WITNESS Len(Transit(r)) \in 0 .. Len(Transit(r))
  <2> HIDE DEF Transit
  <2>2. SubSeq(Transit(r), Len(Transit(r)) + 1, Len(Transit(r))) = <<>>
    BY <2>1
  <2> QED BY <2>2
<1>2. Mail!Lose
  BY <1>1 DEF Mail!Lose, Transit, Told
<1> QED BY <1>2 DEF Mail!Next

-----------------------------------------------------------------------------
(* The steps of SendPath as steps of Mailbox.                               *)

LEMMA NothingMoves ==
  ASSUME UNCHANGED <<wire, offline>>
  PROVE  \A r \in Relays : Transit(r)' = Transit(r)
BY DEF Transit

LEMMA NothingTold == ASSUME UNCHANGED answers PROVE UNCHANGED Told
BY DEF Told

(* A message is handed to the socket or queued, unless the peer is gone.    *)
LEMMA SendHands ==
  ASSUME Types, Joined, NEW t \in Threads, Send(t)
  PROVE  [Mail!Next]_Mail!mailVars
<1> DEFINE r == Home[t]
           m == [kind |-> "msg", id |-> req[t].id]
<1>1. r \in Relays /\ Other(r) \in Relays /\ Other(r) # r /\ Other(Other(r)) = r
  BY ConstantsTyped
<1>2. m \in Frame /\ m.kind = "msg" /\ m.id = req[t].id /\ req[t].id \in Ids
  BY ConstantsTyped DEF Send, Types, Frame
<1>3. UNCHANGED <<inbox, forgot, Told>>
  BY NothingTold DEF Send, table
<1>4. /\ wire[Other(r)] \in Seq(Frame) /\ offline[r] \in Seq(Frame)
      /\ Messages(wire[Other(r)]) \in Seq(Ids) /\ Messages(offline[r]) \in Seq(Ids)
  BY <1>1, TransitTyped
<1>t. wire \in [Relays -> Seq(Frame)] /\ offline \in [Relays -> Seq(Frame)]
  BY DEF Types
<1>o. \A x \in Relays : x # Other(r) => Other(x) # r
  BY <1>1 DEF Relays, Other
<1>5. CASE ws[r] = "up"
  <2>1. wire' = [wire EXCEPT ![Other(r)] = Append(@, m)] /\ offline' = offline /\ offline[r] = <<>>
    BY <1>1, <1>5 DEF Send, Joined
  <2>2. Transit(Other(r))' = Messages(Append(wire[Other(r)], m)) \o <<>>
    BY <1>1, <1>t, <2>1, MessagesEmpty DEF Transit
  <2>3. Transit(Other(r)) = Messages(wire[Other(r)]) \o <<>>
    BY <1>1, <2>1, MessagesEmpty DEF Transit
  <2>4. Messages(Append(wire[Other(r)], m)) = Append(Messages(wire[Other(r)]), req[t].id)
    BY <1>2, <1>4, MessagesAppend
  <2>5. Transit(Other(r))' = Append(Transit(Other(r)), req[t].id)
    BY <1>2, <1>4, <2>2, <2>3, <2>4, MessagesApart
  <2>6. \A x \in Relays \ {Other(r)} : Transit(x)' = Transit(x)
    BY <2>1, <1>t DEF Transit
  <2> QED BY <1>1, <1>2, <1>3, <2>5, <2>6, IsHand
<1>6. CASE ws[r] # "up" /\ offline' = [offline EXCEPT ![r] = Append(@, m)]
  <2>1. wire' = wire
    BY <1>6 DEF Send
  <2>2. Transit(Other(r))' = Messages(wire[Other(r)]) \o Messages(Append(offline[r], m))
    BY <1>1, <1>6, <1>t, <2>1 DEF Transit
  <2>3. Transit(Other(r)) = Messages(wire[Other(r)]) \o Messages(offline[r])
    BY <1>1 DEF Transit
  <2>4. Messages(Append(offline[r], m)) = Append(Messages(offline[r]), req[t].id)
    BY <1>2, <1>4, MessagesAppend
  <2>a. Messages(wire[Other(r)]) \o Append(Messages(offline[r]), req[t].id)
        = Append(Messages(wire[Other(r)]) \o Messages(offline[r]), req[t].id)
    BY <1>2, <1>4, MessagesApart
  <2>5. Transit(Other(r))' = Append(Transit(Other(r)), req[t].id)
    BY <2>2, <2>3, <2>4, <2>a
  <2>6. \A x \in Relays \ {Other(r)} : Transit(x)' = Transit(x)
    BY <1>6, <2>1, <1>t, <1>o, ConstantsTyped DEF Transit
  <2> QED BY <1>1, <1>2, <1>3, <2>5, <2>6, IsHand
<1>7. CASE ws[r] # "up" /\ offline' = offline
  <2>1. wire' = wire
    BY <1>7 DEF Send
  <2> QED BY <1>3, <1>7, <2>1, NothingMoves, IsStutter
<1> QED BY <1>5, <1>6, <1>7 DEF Send

(* A message on the wire of r is stored if it is unknown, which it is       *)
(* unless it was stored: the table of r has no other ids of that sender.    *)
LEMMA ReceiveStores ==
  ASSUME SendInv, NEW r \in Relays, ReceiveMsg(r)
  PROVE  [Mail!Next]_Mail!mailVars
<1> DEFINE id == Head(wire[r]).id
<1>0. Types /\ FramesAreTrue /\ TableIsTrue /\ Other(r) \in Relays /\ Other(r) # r /\ Other(Other(r)) = r
  BY ConstantsTyped DEF SendInv
<1>1. /\ wire[r] # <<>> /\ Head(wire[r]).kind = "msg" /\ offline' = offline
      /\ wire[r] \in Seq(Frame) /\ Tail(wire[r]) \in Seq(Frame)
      /\ id \in Ids /\ Head(wire[r]) \in ToSet(wire[r]) /\ UNCHANGED Told
  BY <1>0, HeadOfWire, NothingTold DEF ReceiveMsg, Incoming, past, Types
<1>t. wire \in [Relays -> Seq(Frame)] /\ seen[r] \in Seq(Entry)
  BY <1>0 DEF Types
<1>2. /\ Messages(wire[r]) # <<>> /\ Head(Messages(wire[r])) = id
      /\ Tail(Messages(wire[r])) = Messages(Tail(wire[r]))
  BY <1>1, MessagesTail
<1>3. Messages(wire[r]) \in Seq(Ids) /\ Messages(offline[Other(r)]) \in Seq(Ids)
  BY <1>0, TransitTyped
<1>4. /\ Transit(r) # <<>> /\ Head(Transit(r)) = id
      /\ Tail(Transit(r)) = Messages(Tail(wire[r])) \o Messages(offline[Other(r)])
  <2>1. LET both == Messages(wire[r]) \o Messages(offline[Other(r)])
        IN /\ both # <<>> /\ Head(both) = Head(Messages(wire[r]))
           /\ Tail(both) = Tail(Messages(wire[r])) \o Messages(offline[Other(r)])
    BY <1>2, <1>3, FirstOfBoth
  <2> QED BY <1>2, <2>1 DEF Transit
<1>5. CASE Has(seen[r], id)
  <2>1. wire' = [wire EXCEPT ![r] = Tail(@)] /\ UNCHANGED <<inbox, forgot>>
    BY <1>5 DEF ReceiveMsg, table
  <2>2. Transit(r)' = Tail(Transit(r)) /\ \A x \in Relays \ {r} : Transit(x)' = Transit(x)
    BY <1>1, <1>4, <1>t, <2>1 DEF Transit
  <2>3. PICK e \in ToSet(seen[r]) : e.id = id
    BY <1>5, <1>t, HasSet
  <2>4. Sender(id, Other(r))
    BY <1>0, <1>1 DEF FramesAreTrue
  <2>5. id \in ToSet(inbox[r])
    BY <1>0, <2>3, <2>4, IdHasOneSender DEF TableIsTrue
  <2> QED BY <1>0, <1>1, <1>4, <2>1, <2>2, <2>5, IsDrop
<1>6. CASE ~Has(seen[r], id)
  <2> DEFINE a == [kind |-> "ack", id |-> id]
  <2>1. /\ \/ wire' = [wire EXCEPT ![r] = Tail(@), ![Other(r)] = Append(@, a)]
           \/ wire' = [wire EXCEPT ![r] = Tail(@)]
        /\ inbox' = [inbox EXCEPT ![r] = Append(@, id)]
    BY <1>6 DEF ReceiveMsg, Back
  <2>2. /\ wire'[r] = Tail(wire[r])
        /\ wire'[Other(r)] = wire[Other(r)] \/ wire'[Other(r)] = Append(wire[Other(r)], a)
    BY <1>0, <1>t, <2>1
  <2>3. a \in Frame /\ a.kind = "ack" /\ wire[Other(r)] \in Seq(Frame)
    BY <1>0, <1>1, <1>t DEF Frame
  <2>4. Messages(wire'[Other(r)]) = Messages(wire[Other(r)])
    BY <2>2, <2>3, MessagesAppend
  <2>5. Transit(r)' = Tail(Transit(r))
    BY <1>1, <1>4, <2>2 DEF Transit
  <2>6. \A x \in Relays \ {r} : Transit(x)' = Transit(x)
    <3>1. \A x \in Relays \ {r} : x = Other(r)
      BY DEF Relays, Other
    <3>2. Transit(Other(r))' = Transit(Other(r))
      BY <1>1, <2>4 DEF Transit
    <3> QED BY <3>1, <3>2
  <2>7. \E more \in SUBSET Ids : forgot' = [forgot EXCEPT ![r] = @ \cup more]
    BY <1>0, <1>6, ReceiveTables
  <2>8. id \notin ToSet(inbox[r]) \/ id \in forgot[r]
    BY <1>0, <1>6 DEF TableIsTrue
  <2> QED BY <1>0, <1>1, <1>4, <2>1, <2>5, <2>6, <2>7, <2>8, IsStore
<1> QED BY <1>5, <1>6

(* Frames that are no messages come and go unnoticed.                       *)
LEMMA AcksMoveNothing ==
  ASSUME Types, NEW r \in Relays, ReceiveAck(r) \/ ReceiveReply(r)
  PROVE  [Mail!Next]_Mail!mailVars
<1>1. /\ wire[r] # <<>> /\ Head(wire[r]).kind # "msg" /\ wire' = [wire EXCEPT ![r] = Tail(@)]
      /\ UNCHANGED <<offline, inbox, forgot, Told>>
  BY NothingTold DEF ReceiveAck, ReceiveReply, Incoming, table, past
<1>2. wire \in [Relays -> Seq(Frame)]
  BY DEF Types
<1>3. Messages(Tail(wire[r])) = Messages(wire[r])
  BY <1>1, <1>2, MessagesTail
<1>4. \A x \in Relays : Transit(x)' = Transit(x)
  BY <1>1, <1>2, <1>3 DEF Transit
<1> QED BY <1>1, <1>4, IsStutter

LEMMA RepliesMoveNothing ==
  ASSUME Types, NEW r \in Relays, Reply(r)
  PROVE  [Mail!Next]_Mail!mailVars
<1> DEFINE f == [kind |-> "reply", id |-> Last(inbox[r])]
<1>0. Other(r) \in Relays
  BY ConstantsTyped
<1>1. /\ inbox[r] # <<>> /\ UNCHANGED <<inbox, forgot, Told>>
      /\ \/ wire' = [wire EXCEPT ![Other(r)] = Append(@, f)] /\ offline' = offline
         \/ offline' = [offline EXCEPT ![r] = Append(@, f)] /\ wire' = wire
  BY NothingTold DEF Reply, table, past
<1>2. wire \in [Relays -> Seq(Frame)] /\ offline \in [Relays -> Seq(Frame)] /\ inbox[r] \in Seq(Ids)
  BY DEF Types
<1>3. f \in Frame /\ f.kind = "reply"
  BY <1>1, <1>2 DEF Frame, Last
<1>4. /\ Messages(Append(wire[Other(r)], f)) = Messages(wire[Other(r)])
      /\ Messages(Append(offline[r], f)) = Messages(offline[r])
  BY <1>0, <1>2, <1>3, MessagesAppend
<1> HIDE DEF f
<1>5. ASSUME NEW x \in Relays PROVE Messages(wire'[x]) = Messages(wire[x]) /\ Messages(offline'[x]) = Messages(offline[x])
  BY <1>0, <1>1, <1>2, <1>4
<1>6. \A x \in Relays : Transit(x)' = Transit(x)
  BY <1>5, ConstantsTyped DEF Transit
<1> QED BY <1>1, <1>6, IsStutter

(* What was queued while there was no connection is flushed on a new one.   *)
LEMMA ConnectMovesNothing ==
  ASSUME Types, Joined, Connect
  PROVE  [Mail!Next]_Mail!mailVars
<1>1. /\ wire' = [r \in Relays |-> offline[Other(r)]] /\ offline' = [r \in Relays |-> <<>>]
      /\ UNCHANGED <<inbox, forgot, Told>> /\ \A r \in Relays : wire[r] = <<>>
  BY NothingTold DEF Connect, table, past, Joined
<1>2. ASSUME NEW r \in Relays PROVE Transit(r)' = Transit(r)
  <2>1. Other(r) \in Relays /\ Messages(offline[Other(r)]) \in Seq(Ids)
    BY ConstantsTyped, TransitTyped
  <2>2. Transit(r)' = Messages(offline[Other(r)]) \o <<>>
    BY <1>1, <2>1, MessagesEmpty DEF Transit
  <2>3. Transit(r) = <<>> \o Messages(offline[Other(r)])
    BY <1>1, MessagesEmpty DEF Transit
  <2> QED BY <2>1, <2>2, <2>3, MessagesApart
<1> QED BY <1>1, <1>2, IsStutter

LEMMA BreakLoses ==
  ASSUME Types, Joined, Break
  PROVE  [Mail!Next]_Mail!mailVars
<1>1. /\ wire' = [r \in Relays |-> <<>>] /\ offline' = offline /\ UNCHANGED <<inbox, forgot, Told>>
      /\ \A r \in Relays : offline[r] = <<>>
  BY NothingTold DEF Break, table, past, Joined
<1>2. ASSUME NEW r \in Relays PROVE Transit(r)' = <<>>
  <2>1. Other(r) \in Relays
    BY ConstantsTyped
  <2>2. Transit(r)' = <<>> \o <<>>
    BY <1>1, <2>1, MessagesEmpty DEF Transit
  <2> QED BY <2>2
<1> QED BY <1>1, <1>2, IsLose

(* A client that is told that its message was received: it was.             *)
LEMMA AnswersTell ==
  ASSUME Types, ToldIsStored, NEW t \in Threads, Acked(t) \/ Replied(t)
  PROVE  [Mail!Next]_Mail!mailVars
<1> DEFINE id == req[t].id
<1>1. id \in Ids /\ (ackOf[id] = "set" \/ replyOf[id] = "set")
  BY ConstantsTyped DEF Acked, Replied, Types
<1>2. Stored(id)
  BY <1>1 DEF ToldIsStored
<1>3. UNCHANGED <<wire, offline, inbox, forgot>>
  BY DEF Acked, Replied, table, net
<1>4. PICK kind \in {"acked", "replied"} : Answer(id, kind, req[t].seq)
  BY DEF Acked, Replied
<1>5. Told' = Told \cup {id}
  <2> DEFINE a == [id |-> id, kind |-> kind, seq |-> req[t].seq]
  <2>1. answers' = answers \cup {a} /\ a.id = id /\ a.kind \in {"acked", "replied"}
    BY <1>4 DEF Answer
  <2> HIDE DEF a
  <2> QED BY <2>1 DEF Told
<1> QED BY <1>1, <1>2, <1>3, <1>5, NothingMoves, IsTell DEF Types

(* An id that leaves the table of a relay before its time is forgotten.     *)
LEMMA TablesForget ==
  ASSUME Types, NEW t \in Threads, Evict(t) \/ Record(t) \/ RecordSeq(t)
  PROVE  [Mail!Next]_Mail!mailVars
<1> DEFINE r == Home[t]
<1>1. r \in Relays /\ seen[r] \in Seq(Entry) /\ Unique(seen[r])
  BY ConstantsTyped DEF Types
<1>2. UNCHANGED <<wire, offline, inbox, Told>>
  BY NothingTold DEF Evict, Record, RecordSeq, net, past, Told
<1>3. \E more \in SUBSET Ids : forgot' = [forgot EXCEPT ![r] = @ \cup more]
  <2>0. ASSUME forgot' = forgot PROVE \E more \in SUBSET Ids : forgot' = [forgot EXCEPT ![r] = @ \cup more]
    <3>1. forgot' = [forgot EXCEPT ![r] = @ \cup {}]
      BY <2>0 DEF Types
    <3> QED BY <3>1
  <2>1. CASE Evict(t) /\ Has(seen[r], Head(req[t].drop))
    <3>1. Head(req[t].drop) \in Ids
      <4>1. req[t].drop \in Seq(Ids) /\ req[t].drop # <<>>
        BY <2>1 DEF Evict, Types, Req
      <4> QED BY <4>1
    <3>2. forgot' = forgot \/ forgot' = [forgot EXCEPT ![r] = @ \cup {Head(req[t].drop)}]
      BY <2>1 DEF Evict, Types
    <3> QED BY <2>0, <3>1, <3>2
  <2>2. CASE Evict(t) /\ ~Has(seen[r], Head(req[t].drop))
    BY <2>0, <2>2 DEF Evict, table
  <2>3. CASE Record(t)
    <3>1. Lost(seen[r]) \subseteq Ids /\ forgot' = [forgot EXCEPT ![r] = @ \cup Lost(seen[r])]
      BY <1>1, <2>3, CappedSet DEF Record
    <3> QED BY <3>1
  <2>4. CASE RecordSeq(t)
    BY <2>0, <2>4 DEF RecordSeq
  <2> QED BY <2>1, <2>2, <2>3, <2>4
<1> QED BY <1>1, <1>2, <1>3, NothingMoves, IsForget

(* The rest is of no concern to a mailbox.                                  *)
LEMMA OtherThreadSteps ==
  ASSUME NEW t \in Threads,
         Scan(t) \/ Refuse(t) \/ Accept(t) \/ Register(t) \/ TimeOut(t)
         \/ \E id \in Uses[t], mode \in Modes[t] : Request(t, id, mode)
  PROVE  [Mail!Next]_Mail!mailVars
<1>1. UNCHANGED <<wire, offline, inbox, forgot>>
  BY DEF Scan, Refuse, Accept, Register, TimeOut, Request, table, net
<1>2. Told' = Told
  <2>1. CASE answers' = answers
    BY <2>1, NothingTold
  <2>2. ASSUME NEW id, NEW seq, Answer(id, "dup", seq) PROVE Told' = Told
    BY <2>2 DEF Answer, Told
  <2> QED BY <2>1, <2>2 DEF Scan, Refuse, Accept, Register, TimeOut, Request, past
<1> QED BY <1>1, <1>2, NothingMoves, IsStutter

(* Two relays with their retries, breaks and queues implement Mailbox:      *)
(* messages are stored in the order they were handed over, none is dropped  *)
(* on arrival that was not stored, none is stored twice unless forgotten,   *)
(* and a sender is told of nothing that is not stored.                      *)
THEOREM TwoRelaysAreMailboxes == Spec => ImplementsMailbox
<1>1. Init => Mail!Init
  <2> SUFFICES ASSUME Init PROVE Mail!Init
    OBVIOUS
  <2>1. \A r \in Relays : wire[r] = <<>> /\ offline[Other(r)] = <<>>
    BY ConstantsTyped DEF Init
  <2>2. \A r \in Relays : Messages(wire[r]) \o Messages(offline[Other(r)]) = <<>>
    BY <2>1, MessagesEmpty
  <2> QED BY <2>2 DEF Init, Mail!Init
<1>2. SendInv /\ [Next]_vars => [Mail!Next]_Mail!mailVars
  <2> SUFFICES ASSUME SendInv, [Next]_vars PROVE [Mail!Next]_Mail!mailVars
    OBVIOUS
  <2>0. Types /\ Joined /\ ToldIsStored
    BY DEF SendInv
  <2>1. ASSUME NEW t \in Threads, Serve(t) \/ \E id \in Uses[t], mode \in Modes[t] : Request(t, id, mode)
        PROVE  [Mail!Next]_Mail!mailVars
    <3>1. \/ Send(t) \/ Acked(t) \/ Replied(t) \/ Evict(t) \/ Record(t) \/ RecordSeq(t)
          \/ Scan(t) \/ Refuse(t) \/ Accept(t) \/ Register(t) \/ TimeOut(t)
          \/ \E id \in Uses[t], mode \in Modes[t] : Request(t, id, mode)
      BY <2>1 DEF Serve
    <3>2. CASE Send(t)
      BY <2>0, <3>2, SendHands
    <3>3. CASE Acked(t) \/ Replied(t)
      BY <2>0, <3>3, AnswersTell
    <3>4. CASE Evict(t) \/ Record(t) \/ RecordSeq(t)
      BY <2>0, <3>4, TablesForget
    <3>5. CASE Scan(t) \/ Refuse(t) \/ Accept(t) \/ Register(t) \/ TimeOut(t)
               \/ \E id \in Uses[t], mode \in Modes[t] : Request(t, id, mode)
      BY <3>5, OtherThreadSteps
    <3> HIDE DEF Mail!Next
    <3> QED BY <3>1, <3>2, <3>3, <3>4, <3>5
  <2>2. ASSUME NEW r \in Relays, ReceiveMsg(r) PROVE [Mail!Next]_Mail!mailVars
    BY <2>2, ReceiveStores
  <2>3. ASSUME NEW r \in Relays, ReceiveAck(r) \/ ReceiveReply(r) PROVE [Mail!Next]_Mail!mailVars
    BY <2>0, <2>3, AcksMoveNothing
  <2>4. ASSUME NEW r \in Relays, Reply(r) PROVE [Mail!Next]_Mail!mailVars
    BY <2>0, <2>4, RepliesMoveNothing
  <2>5. ASSUME NEW r \in Relays, Notice(r) PROVE [Mail!Next]_Mail!mailVars
    <3>1. UNCHANGED <<wire, offline, inbox, forgot, answers>>
      BY <2>5 DEF Notice, table, past
    <3> QED BY <3>1, NothingMoves, NothingTold, IsStutter
  <2>6. CASE Break
    BY <2>0, <2>6, BreakLoses
  <2>7. CASE Connect
    BY <2>0, <2>7, ConnectMovesNothing
  <2>8. CASE Expire \/ UNCHANGED vars
    <3>1. UNCHANGED <<wire, offline, inbox, forgot, answers>>
      BY <2>8 DEF Expire, vars, table, net, past
    <3> QED BY <3>1, NothingMoves, NothingTold, IsStutter
  <2> QED BY <2>1, <2>2, <2>3, <2>4, <2>5, <2>6, <2>7, <2>8 DEF Next
<1>3. Spec => Mail!Init /\ [][Mail!Next]_Mail!mailVars
  BY <1>1, <1>2, SendInvHolds, PTL DEF Spec
<1> QED BY <1>3 DEF ImplementsMailbox, Mail!Spec

(* What is proved of every mailbox holds of the two relays.                 *)
Proved == INSTANCE MailboxProofs WITH
  Boxes <- Relays,
  transit <- [r \in Relays |-> Messages(wire[r]) \o Messages(offline[Other(r)])],
  box <- inbox,
  told <- {a.id : a \in {b \in answers : b.kind \in {"acked", "replied"}}},
  forgot <- forgot

(* _recv_queue gets a message twice only if its id left the table of the    *)
(* relay before its time: through the cap, or through an HTTP request that  *)
(* took an entry without wall_ts for an expired one.                        *)
StoredTwiceMeansForgotten ==
  \A r \in Relays : \A i, j \in 1 .. Len(inbox[r]) :
    i # j /\ inbox[r][i] = inbox[r][j] => inbox[r][i] \in forgot[r]

(* No message is stored twice unless forgotten: retries, reconnects and the *)
(* flush of the offline queue included.                                     *)
THEOREM RetriesAreStoredOnce == Spec => []StoredTwiceMeansForgotten
<1>1. Proved!Spec => []Proved!AtMostOnce
  BY Proved!StoredOnceUnlessForgotten
<1>2. Mail!Spec <=> Proved!Spec
  BY DEF Mail!Spec, Proved!Spec, Mail!Init, Proved!Init, Mail!Next, Proved!Next, Mail!mailVars,
         Proved!mailVars, Mail!Store, Proved!Store, Mail!Drop, Proved!Drop, Mail!Forget, Proved!Forget,
         Mail!Hand, Proved!Hand, Mail!Lose, Proved!Lose, Mail!Tell, Proved!Tell, Mail!Grows, Proved!Grows,
         Mail!Holds, Proved!Holds
<1>3. Proved!AtMostOnce => StoredTwiceMeansForgotten
  BY DEF Proved!AtMostOnce, StoredTwiceMeansForgotten
<1> QED BY <1>1, <1>2, <1>3, TwoRelaysAreMailboxes, PTL DEF ImplementsMailbox
=============================================================================
