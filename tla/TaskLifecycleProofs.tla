------------------------- MODULE TaskLifecycleProofs -------------------------
(***************************************************************************)
(* What TLAPS proves about the task table, for any number of handler       *)
(* threads, cancel threads, tasks and requests.                            *)
(***************************************************************************)
EXTENDS TaskLifecycle, FiniteSetTheorems, TLAPS

(* The handlers reach the task table in three ways only: they create a      *)
(* task, they call _update_task, or they log a decision and then call it.   *)
Notes == {"skill_invoked", "queue_enqueued"}
Creates(t, k) ==
  \E state \in {"submitted", "working", "confirmation_pending"},
     entries \in {<<>>} \cup {Created(s) : s \in States}, l \in Local :
    /\ entries \in {<<>>, Created(state)}
    /\ l.then = "note" => l.event \in Notes
    /\ l.task = k /\ CreateTask(t, k, state, entries, l)
Calls(t, k) == \E s \in States, then \in {"done", "spawn"} : CallUpdate(t, k, s, then)
Decisions == {"confirmed", "rejected", "agent_rejected"}
Decides(t, k) ==
  \E e \in Decisions, s \in States :
    table[k] # 0 /\ status[table[k]] \notin Terminal \cup {s} /\ Decide(t, k, e, s)

LEMMA NoLocalType == NoLocal \in Local /\ NoLocal.obj = 0 /\ NoLocal.then = "done"
  <1>1. (CHOOSE k \in Tasks : TRUE) \in Tasks
    BY TaskAssumption
  <1>2. 0 \in 0 .. MaxRequests
    BY TaskAssumption
  <1> QED
    BY <1>1, <1>2 DEF NoLocal, Local, States, Terminal, Events, Then

(* Every request and every message of a peer has one of the three forms.    *)
LEMMA RequestForms ==
  ASSUME NEW t \in Threads, NEW k \in Tasks,
         (t \in Handlers /\ Request(t, k)) \/ (t = Loop /\ PeerMessage(k))
  PROVE  Creates(t, k) \/ Calls(t, k) \/ Decides(t, k)
  <1>1. UpdateStates \subseteq States
    BY TaskAssumption
  <1>2. ASSUME NEW e \in Events, NEW th \in Then
        PROVE  /\ [NoLocal EXCEPT !.task = k, !.event = e, !.then = th] \in Local
               /\ [NoLocal EXCEPT !.task = k, !.event = e, !.then = th].task = k
               /\ [NoLocal EXCEPT !.task = k, !.event = e, !.then = th].event = e
               /\ [NoLocal EXCEPT !.task = k, !.then = th] \in Local
               /\ [NoLocal EXCEPT !.task = k, !.then = th].task = k
               /\ [NoLocal EXCEPT !.task = k, !.then = th].then = th
               /\ [NoLocal EXCEPT !.task = k] \in Local
               /\ [NoLocal EXCEPT !.task = k].task = k
               /\ [NoLocal EXCEPT !.task = k].then = "done"
    BY NoLocalType DEF Local
  <1>a. ASSUME NEW state \in {"submitted", "working", "confirmation_pending"},
               NEW l \in Local, l.task = k, l.then = "note" => l.event \in Notes,
               CreateTask(t, k, state, Created(state), l) \/ CreateTask(t, k, state, <<>>, l)
        PROVE  Creates(t, k)
    <2>1. Created(state) \in {Created(s) : s \in States}
      BY DEF States
    <2> QED
      BY <1>a, <2>1 DEF Creates
  <1>3. ASSUME PostTask(t, k) PROVE Creates(t, k)
    <2> DEFINE l == [NoLocal EXCEPT !.task = k]
               n == [NoLocal EXCEPT !.task = k, !.event = "skill_invoked", !.then = "note"]
    <2>1. l \in Local /\ l.task = k /\ l.then = "done"
      BY <1>2 DEF Events, Then
    <2>2. n \in Local /\ n.task = k /\ n.event \in Notes
      BY <1>2 DEF Events, Then, Notes
    <2>3. \/ CreateTask(t, k, "submitted", Created("submitted"), l)
          \/ \E state \in {"submitted", "confirmation_pending"} : CreateTask(t, k, state, Created(state), n)
      BY <1>3 DEF PostTask
    <2> HIDE DEF l, n
    <2> QED
      BY <1>a, <2>1, <2>2, <2>3
  <1>4. ASSUME QueueTask(t, k) PROVE Creates(t, k)
    <2> DEFINE n == [NoLocal EXCEPT !.task = k, !.event = "queue_enqueued", !.then = "note"]
    <2>1. n \in Local /\ n.task = k /\ n.event \in Notes
      BY <1>2 DEF Events, Then, Notes
    <2>2. CreateTask(t, k, "submitted", Created("submitted"), n)
      BY <1>4 DEF QueueTask
    <2> HIDE DEF n
    <2> QED
      BY <1>a, <2>1, <2>2
  <1>5. ASSUME SendWithTask(t, k) PROVE Creates(t, k)
    <2>1. PICK then \in {"work", "workAwait"} :
            CreateTask(t, k, "submitted", Created("submitted"), [NoLocal EXCEPT !.task = k, !.then = then])
      BY <1>5 DEF SendWithTask
    <2> DEFINE l == [NoLocal EXCEPT !.task = k, !.then = then]
    <2>2. l \in Local /\ l.task = k /\ l.then # "note"
      <3>1. then \in Then /\ then # "note" /\ "created" \in Events
        BY DEF Then, Events
      <3> QED
        BY <1>2, <3>1
    <2> HIDE DEF l
    <2> QED
      BY <1>a, <2>1, <2>2 DEF l
  <1>6. ASSUME t = Loop, PeerTask(k) PROVE Creates(t, k)
    <2> DEFINE l == [NoLocal EXCEPT !.task = k]
    <2>1. l \in Local /\ l.task = k /\ l.then = "done"
      BY <1>2 DEF Events, Then
    <2>2. CreateTask(t, k, "working", <<>>, l)
      BY <1>6 DEF PeerTask
    <2> HIDE DEF l
    <2> QED
      BY <1>a, <2>1, <2>2
  <1>7. Update(t, k) \/ Continue(t, k) \/ Cancel(t, k) \/ DeleteTask(t, k) => Calls(t, k)
    BY <1>1 DEF Update, Continue, Cancel, DeleteTask, Calls, States, Terminal, Then
  <1>8. t = Loop /\ PeerUpdate(k) => Calls(t, k)
    BY <1>1 DEF PeerUpdate, Calls, Then
  <1>9. Confirm(t, k) \/ Reject(t, k) \/ AgentReject(t, k) => Decides(t, k)
    BY DEF Confirm, Reject, AgentReject, Decides, Decisions, InState, States, Terminal
  <1> QED
    BY <1>3, <1>4, <1>5, <1>6, <1>7, <1>8, <1>9 DEF Request, PeerMessage

(* A step of the system is one of the following.                            *)
LEMMA StepForms ==
  ASSUME Next
  PROVE  \/ \E t \in Threads, k \in Tasks : Creates(t, k) \/ Calls(t, k) \/ Decides(t, k)
         \/ \E t \in Threads : SyncOutcome(t) \/ Run(t)
         \/ \E c \in Cancellers : FinishCancel(c)
  <1>1. ASSUME NEW t \in Handlers, NEW k \in Tasks, Request(t, k)
        PROVE  \E u \in Threads, j \in Tasks : Creates(u, j) \/ Calls(u, j) \/ Decides(u, j)
    <2>1. t \in Threads
      BY DEF Threads
    <2> QED
      BY <1>1, <2>1, RequestForms
  <1>2. ASSUME NEW k \in Tasks, PeerMessage(k)
        PROVE  \E u \in Threads, j \in Tasks : Creates(u, j) \/ Calls(u, j) \/ Decides(u, j)
    <2>1. Loop \in Threads
      BY DEF Threads
    <2> QED
      BY <1>2, <2>1, RequestForms
  <1> QED
    BY <1>1, <1>2 DEF Next, Threads

-----------------------------------------------------------------------------
(* Type correctness.                                                        *)

(* TypeOK is not inductive: _update_task and _append_audit work on an       *)
(* object that the table held or that was just built, never on "no object". *)
WithObject == {"storing", "guard", "old", "write", "auditSeq", "auditAppend", "announce"}
NeedsObject(p, l) == p \in WithObject \/ l.then = "note"
HasObject == \A t \in Threads : NeedsObject(pc[t], loc[t]) => loc[t].obj # 0
TypeInv == TypeOK /\ HasObject

(* Returning from a call leads to a proper point with proper locals.        *)
LEMMA ReturnType ==
  ASSUME TypeInv, NEW t \in Threads
  PROVE  /\ AfterPoint(t) \in Points \cup Resting
         /\ AfterLocal(t) \in Local
         /\ NeedsObject(AfterPoint(t), AfterLocal(t)) => AfterLocal(t).obj # 0
  <1>1. loc[t] \in Local
    BY DEF TypeInv, TypeOK
  <1>2. loc[t].then \in Then
    BY <1>1 DEF Local
  <1>3. AfterPoint(t) \in Points \cup Resting
    BY <1>2 DEF AfterPoint, Then, Points, Resting
  <1>4. AfterLocal(t) \in Local
    BY <1>1, <1>2, NoLocalType DEF AfterLocal, Then, Local, States
  <1>5. CASE loc[t].then = "note"
    <2>1. loc[t].obj # 0
      BY <1>5 DEF TypeInv, HasObject, NeedsObject
    <2>2. AfterLocal(t) = [loc[t] EXCEPT !.then = "done"]
      BY <1>5 DEF AfterLocal
    <2>3. AfterLocal(t).obj = loc[t].obj
      BY <1>1, <2>2 DEF Local
    <2> QED
      BY <1>3, <1>4, <2>1, <2>3
  <1>6. CASE loc[t].then # "note"
    <2>1. AfterPoint(t) \notin WithObject
      BY <1>2, <1>6 DEF AfterPoint, Then, WithObject
    <2>2. AfterLocal(t).then # "note"
      BY <1>1, <1>2, <1>6 DEF AfterLocal, Then, Local, NoLocal
    <2> QED
      BY <1>3, <1>4, <2>1, <2>2 DEF NeedsObject
  <1> QED
    BY <1>5, <1>6

(* A step that moves one thread to a proper point with proper locals, and   *)
(* to _update_task's body only with an object, preserves TypeInv if it      *)
(* leaves the shared variables in their types.                              *)
LEMMA GotoType ==
  ASSUME TypeInv, NEW t \in Threads, NEW p \in Points \cup Resting, NEW l \in Local,
         Goto(t, p, l), NeedsObject(p, l) => l.obj # 0,
         table' \in [Tasks -> 0 .. MaxRequests], status' \in [Objects -> States],
         audit' \in [Objects -> Seq(Entry)], shown' \in [Tasks -> Seq(States)],
         requests' \in 0 .. MaxRequests
  PROVE  TypeInv'
  <1>1. pc' \in [Threads -> Points \cup Resting] /\ loc' \in [Threads -> Local]
    BY DEF TypeInv, TypeOK, Goto
  <1>2. HasObject'
    BY DEF TypeInv, TypeOK, HasObject, Goto
  <1> QED
    BY <1>1, <1>2 DEF TypeInv, TypeOK

(* The type invariant is preserved by every step.                           *)
LEMMA TypeStep == TypeInv /\ [Next]_vars => TypeInv'
  <1> SUFFICES ASSUME TypeInv, [Next]_vars PROVE TypeInv'
    OBVIOUS
  <1>T. TypeOK
    BY DEF TypeInv
  <1>L. \A t \in Threads : loc[t] \in Local
    BY <1>T DEF TypeOK
  <1>O. \A t \in Threads : pc[t] \in WithObject \/ loc[t].then = "note" => loc[t].obj # 0
    BY DEF TypeInv, HasObject, NeedsObject
  <1>R. ASSUME NEW t \in Threads, Return(t), UNCHANGED <<table, status, audit, requests>>,
               shown' \in [Tasks -> Seq(States)]
        PROVE  TypeInv'
    BY <1>R, <1>T, ReturnType, GotoType DEF Return, TypeOK
  <1>1. ASSUME NEW t \in Threads, NEW k \in Tasks, Creates(t, k)
        PROVE  TypeInv'
    <2>1. PICK state \in {"submitted", "working", "confirmation_pending"},
               entries \in {<<>>} \cup {Created(s) : s \in States}, l \in Local :
                 l.task = k /\ CreateTask(t, k, state, entries, l)
      BY <1>1 DEF Creates
    <2>2. requests + 1 \in Objects /\ requests' \in 0 .. MaxRequests /\ requests + 1 \in 0 .. MaxRequests
      BY <2>1, <1>T, TaskAssumption DEF CreateTask, Accept, TypeOK, Objects
    <2>3. state \in States
      BY DEF States
    <2>4. entries \in Seq(Entry)
      <3>1. \A s \in States : [event |-> "created", seq |-> 0, from |-> s, to |-> s] \in Entry
        BY DEF Entry, Events
      <3>2. ASSUME NEW s \in States PROVE Created(s) \in Seq(Entry)
        <4> DEFINE e == [event |-> "created", seq |-> 0, from |-> s, to |-> s]
        <4>1. e \in Entry /\ Created(s) = <<e>>
          BY <3>1 DEF Created
        <4> HIDE DEF e
        <4> QED
          BY <4>1
      <3>3. <<>> \in Seq(Entry)
        OBVIOUS
      <3> QED
        BY <3>2, <3>3
    <2>5. CASE table[k] # 0
      <3> DEFINE m == [l EXCEPT !.obj = table[k]]
                 n == [m EXCEPT !.then = "done"]
      <3>1. m \in Local /\ n \in Local /\ n.obj = table[k]
        BY <1>T DEF TypeOK, Local, Then
      <3>2. UNCHANGED <<table, status, audit, shown>>
        BY <2>1, <2>5 DEF CreateTask
      <3>3. Goto(t, "auditSeq", n) \/ Goto(t, "idle", NoLocal)
        BY <2>1, <2>5 DEF CreateTask
      <3>4. {"auditSeq", "idle"} \subseteq Points \cup Resting
        BY DEF Points, Resting
      <3>5. n.obj # 0 /\ ~NeedsObject("idle", NoLocal)
        BY <2>5, <3>1, NoLocalType DEF NeedsObject, WithObject
      <3> HIDE DEF m, n
      <3> QED
        BY <1>T, <2>2, <3>1, <3>2, <3>3, <3>4, <3>5, NoLocalType, GotoType DEF TypeOK
    <2>6. CASE table[k] = 0
      <3> DEFINE m == [l EXCEPT !.obj = requests + 1, !.target = state]
      <3>0. requests + 1 # 0
        BY <1>T DEF TypeOK
      <3>1. m \in Local /\ m.obj = requests + 1 /\ m.obj # 0
        BY <2>2, <2>3, <3>0 DEF Local
      <3>2. Goto(t, "storing", m) /\ "storing" \in Points \cup Resting
        BY <2>1, <2>6 DEF CreateTask, Points
      <3>3. status' \in [Objects -> States] /\ audit' \in [Objects -> Seq(Entry)]
        BY <1>T, <2>1, <2>2, <2>3, <2>4, <2>6 DEF CreateTask, TypeOK
      <3>4. UNCHANGED <<table, shown>>
        BY <2>1, <2>6 DEF CreateTask
      <3> HIDE DEF m
      <3> QED
        BY <1>T, <2>2, <3>1, <3>2, <3>3, <3>4, GotoType DEF TypeOK
    <2> QED
      BY <2>5, <2>6
  <1>2. ASSUME NEW t \in Threads, NEW k \in Tasks, Calls(t, k)
        PROVE  TypeInv'
    <2>1. PICK s \in States, then \in {"done", "spawn"} : CallUpdate(t, k, s, then)
      BY <1>2 DEF Calls
    <2> DEFINE m == [NoLocal EXCEPT !.task = k, !.target = s, !.then = then]
    <2>2. m \in Local /\ m.then = then
      BY NoLocalType DEF Local, Then
    <2>3. "get" \in Points \cup Resting /\ ~NeedsObject("get", m)
      BY <2>2 DEF Points, NeedsObject, WithObject
    <2>4. requests' \in 0 .. MaxRequests
      BY <2>1, <1>T, TaskAssumption DEF CallUpdate, Accept, TypeOK
    <2>5. Goto(t, "get", m) /\ UNCHANGED <<table, status, audit, shown>>
      BY <2>1 DEF CallUpdate
    <2> HIDE DEF m
    <2> QED
      BY <1>T, <2>2, <2>3, <2>4, <2>5, GotoType DEF TypeOK
  <1>3. ASSUME NEW t \in Threads, NEW k \in Tasks, Decides(t, k)
        PROVE  TypeInv'
    <2>1. PICK e \in Decisions, s \in States : table[k] # 0 /\ Decide(t, k, e, s)
      BY <1>3 DEF Decides
    <2> DEFINE m == [NoLocal EXCEPT !.task = k, !.obj = table[k], !.target = s, !.event = e]
    <2>2. m \in Local /\ m.obj = table[k]
      BY <1>T, NoLocalType DEF Local, TypeOK, Decisions, Events
    <2>3. "auditSeq" \in Points \cup Resting
      BY DEF Points
    <2>4. requests' \in 0 .. MaxRequests
      BY <2>1, <1>T, TaskAssumption DEF Decide, Accept, TypeOK
    <2>5. Goto(t, "auditSeq", m) /\ UNCHANGED <<table, status, audit, shown>>
      BY <2>1 DEF Decide
    <2> HIDE DEF m
    <2> QED
      BY <1>T, <2>1, <2>2, <2>3, <2>4, <2>5, GotoType DEF TypeOK
  <1>4. ASSUME NEW t \in Threads, SyncOutcome(t)
        PROVE  TypeInv'
    <2>1. CASE Goto(t, "idle", NoLocal)
      <3>1. "idle" \in Points \cup Resting /\ ~NeedsObject("idle", NoLocal)
        BY NoLocalType DEF Resting, NeedsObject, WithObject
      <3> QED
        BY <1>4, <1>T, <2>1, <3>1, NoLocalType, GotoType DEF SyncOutcome, TypeOK
    <2>2. ASSUME NEW s \in {"completed", "failed"},
                 Goto(t, "get", [loc[t] EXCEPT !.target = s, !.then = "done"])
          PROVE  TypeInv'
      <3> DEFINE m == [loc[t] EXCEPT !.target = s, !.then = "done"]
      <3>1. m \in Local /\ m.then = "done"
        BY <1>L DEF Local, Then, States, Terminal
      <3>2. "get" \in Points \cup Resting /\ ~NeedsObject("get", m)
        BY <3>1 DEF Points, NeedsObject, WithObject
      <3>3. Goto(t, "get", m)
        BY <2>2
      <3> HIDE DEF m
      <3> QED
        BY <1>4, <1>T, <3>1, <3>2, <3>3, GotoType DEF SyncOutcome, TypeOK
    <2> QED
      BY <1>4, <2>1, <2>2 DEF SyncOutcome
  <1>5. ASSUME NEW t \in Threads, StoreTask(t)
        PROVE  TypeInv'
    <2>1. table' \in [Tasks -> 0 .. MaxRequests]
      BY <1>5, <1>T, <1>L DEF StoreTask, TypeOK, Local
    <2>2. "announce" \in Points /\ loc[t].obj # 0
      BY <1>5, <1>O DEF Points, StoreTask, WithObject
    <2> QED
      BY <1>5, <1>T, <1>L, <2>1, <2>2, GotoType DEF StoreTask, TypeOK
  <1>6. ASSUME NEW t \in Threads, GetTask(t)
        PROVE  TypeInv'
    <2> DEFINE m == [loc[t] EXCEPT !.obj = table[loc[t].task]]
    <2>1. m \in Local /\ m.obj = table[loc[t].task]
      BY <1>L, <1>T DEF Local, TypeOK
    <2>2. "guard" \in Points
      BY DEF Points
    <2>3. Return(t) \/ (Goto(t, "guard", m) /\ table[loc[t].task] # 0)
      BY <1>6 DEF GetTask
    <2>4. UNCHANGED <<table, status, audit, shown, requests>>
      BY <1>6 DEF GetTask
    <2> HIDE DEF m
    <2> QED
      BY <1>R, <1>T, <2>1, <2>2, <2>3, <2>4, GotoType DEF TypeOK
  <1>7. ASSUME NEW t \in Threads, GuardTerminal(t)
        PROVE  TypeInv'
    <2>1. "old" \in Points /\ loc[t].obj # 0
      BY <1>7, <1>O DEF Points, GuardTerminal, WithObject
    <2>2. Return(t) \/ Goto(t, "old", loc[t])
      BY <1>7 DEF GuardTerminal
    <2>3. UNCHANGED <<table, status, audit, shown, requests>>
      BY <1>7 DEF GuardTerminal
    <2> QED
      BY <1>L, <1>T, <1>R, <2>1, <2>2, <2>3, GotoType DEF TypeOK
  <1>8. ASSUME NEW t \in Threads, ReadOld(t)
        PROVE  TypeInv'
    <2> DEFINE m == [loc[t] EXCEPT !.old = status[loc[t].obj]]
    <2>1. loc[t].obj \in Objects
      BY <1>8, <1>L, <1>O, TaskAssumption DEF ReadOld, WithObject, Local, Objects
    <2>4. status[loc[t].obj] \in States
      BY <1>T, <2>1 DEF TypeOK
    <2>2. m \in Local /\ m.obj = loc[t].obj /\ m.obj # 0
      BY <1>L, <2>1, <2>4 DEF Local, Objects
    <2>3. "write" \in Points /\ Goto(t, "write", m)
      BY <1>8 DEF Points, ReadOld
    <2> HIDE DEF m
    <2> QED
      BY <1>8, <1>T, <2>2, <2>3, GotoType DEF ReadOld, TypeOK
  <1>9. ASSUME NEW t \in Threads, WriteStatus(t)
        PROVE  TypeInv'
    <2> DEFINE m == [loc[t] EXCEPT !.event = "status_changed"]
    <2>1. m \in Local /\ loc[t].target \in States /\ m.obj = loc[t].obj /\ loc[t].obj # 0
      BY <1>9, <1>L, <1>O DEF Local, Events, WriteStatus, WithObject
    <2>2. "auditSeq" \in Points
      BY DEF Points
    <2>3. status' \in [Objects -> States]
      BY <1>9, <1>T, <2>1 DEF WriteStatus, TypeOK
    <2>4. Return(t) \/ Goto(t, "auditSeq", m)
      BY <1>9 DEF WriteStatus
    <2>5. UNCHANGED <<table, audit, shown, requests>>
      BY <1>9 DEF WriteStatus
    <2> HIDE DEF m
    <2> QED
      BY <1>T, <2>1, <2>2, <2>3, <2>4, <2>5, ReturnType, GotoType DEF Return, TypeOK
  <1>10. ASSUME NEW t \in Threads, AuditSeq(t)
         PROVE  TypeInv'
    <2> DEFINE m == [loc[t] EXCEPT !.seq = Len(audit[loc[t].obj])]
    <2>1. loc[t].obj \in Objects
      BY <1>10, <1>L, <1>O, TaskAssumption DEF AuditSeq, WithObject, Local, Objects
    <2>2. Len(audit[loc[t].obj]) \in Nat
      BY <1>T, <2>1 DEF TypeOK
    <2>3. m \in Local /\ m.obj # 0
      BY <1>L, <2>1, <2>2, TaskAssumption DEF Local, Objects
    <2>4. "auditAppend" \in Points /\ Goto(t, "auditAppend", m)
      BY <1>10 DEF Points, AuditSeq
    <2> HIDE DEF m
    <2> QED
      BY <1>10, <1>T, <2>3, <2>4, GotoType DEF AuditSeq, TypeOK
  <1>11. ASSUME NEW t \in Threads, AuditAppend(t)
         PROVE  TypeInv'
    <2> DEFINE m == [loc[t] EXCEPT !.event = "worker_dispatched"]
    <2>1. m \in Local /\ m.obj = loc[t].obj /\ loc[t].obj # 0
      BY <1>11, <1>L, <1>O DEF Local, Events, AuditAppend, WithObject
    <2> DEFINE e == [event |-> loc[t].event, seq |-> loc[t].seq,
                     from |-> loc[t].old, to |-> loc[t].target]
    <2>2. e \in Entry
      BY <1>L DEF Local, Entry
    <2>7. audit' = [audit EXCEPT ![loc[t].obj] = Append(@, e)]
      BY <1>11 DEF AuditAppend
    <2> HIDE DEF e
    <2>8. \A o \in Objects : Append(audit[o], e) \in Seq(Entry)
      BY <1>T, <2>2 DEF TypeOK
    <2>3. audit' \in [Objects -> Seq(Entry)]
      BY <1>T, <2>7, <2>8 DEF TypeOK
    <2>4. Return(t) \/ Goto(t, "announce", loc[t]) \/ Goto(t, "get", loc[t]) \/ Goto(t, "auditSeq", m)
      BY <1>11 DEF AuditAppend
    <2>5. UNCHANGED <<table, status, shown, requests>>
      BY <1>11 DEF AuditAppend
    <2>6. {"announce", "get", "auditSeq"} \subseteq Points
      BY DEF Points
    <2> HIDE DEF m
    <2> QED
      BY <1>L, <1>T, <2>1, <2>3, <2>4, <2>5, <2>6, ReturnType, GotoType DEF Return, TypeOK
  <1>12. ASSUME NEW t \in Threads, Announce(t)
         PROVE  TypeInv'
    <2>1. shown' \in [Tasks -> Seq(States)]
      BY <1>12, <1>L, <1>T DEF Announce, TypeOK, Local
    <2> QED
      BY <1>12, <1>R, <2>1 DEF Announce
  <1>13. ASSUME NEW t \in Threads, SpawnCanceller(t)
         PROVE  TypeInv'
    <2>1. PICK c \in Cancellers :
            /\ pc[c] = "unstarted"
            /\ pc' = [pc EXCEPT ![t] = "idle", ![c] = "sleeping"]
            /\ loc' = [loc EXCEPT ![t] = NoLocal, ![c] = [NoLocal EXCEPT !.task = loc[t].task]]
      BY <1>13 DEF SpawnCanceller
    <2> DEFINE m == [NoLocal EXCEPT !.task = loc[t].task]
    <2>2. m \in Local /\ m.then = "done"
      BY <1>L, NoLocalType DEF Local
    <2>3. loc' = [loc EXCEPT ![t] = NoLocal, ![c] = m]
      BY <2>1
    <2> HIDE DEF m
    <2>4. pc' \in [Threads -> Points \cup Resting] /\ loc' \in [Threads -> Local]
      BY <1>T, <2>1, <2>2, <2>3, NoLocalType DEF TypeOK, Points, Resting
    <2>5. ASSUME NEW u \in Threads
          PROVE  \/ pc'[u] = pc[u] /\ loc'[u] = loc[u]
                 \/ pc'[u] \in {"idle", "sleeping"} /\ loc'[u] \in {NoLocal, m}
      <3>1. c \in Threads
        BY DEF Threads
      <3>2. pc'[u] = IF u = c THEN "sleeping" ELSE IF u = t THEN "idle" ELSE pc[u]
        BY <1>T, <2>1, <3>1 DEF TypeOK
      <3>3. loc'[u] = IF u = c THEN m ELSE IF u = t THEN NoLocal ELSE loc[u]
        BY <1>T, <2>3, <3>1 DEF TypeOK
      <3> QED
        BY <3>2, <3>3
    <2>6. HasObject'
      BY <1>O, <2>2, <2>5, NoLocalType DEF HasObject, NeedsObject, WithObject
    <2> QED
      BY <1>13, <1>T, <2>4, <2>6 DEF SpawnCanceller, TypeInv, TypeOK
  <1>14. ASSUME NEW c \in Cancellers, FinishCancel(c)
         PROVE  TypeInv'
    <2> DEFINE m == [loc[c] EXCEPT !.target = "canceled"]
    <2>0. c \in Threads
      BY DEF Threads
    <2>1. m \in Local /\ m.then = loc[c].then /\ m.obj = loc[c].obj
      BY <1>L, <2>0 DEF Local, States, Terminal
    <2>2. "get" \in Points /\ Goto(c, "get", m)
      BY <1>14 DEF Points, FinishCancel
    <2>3. NeedsObject("get", m) => m.obj # 0
      BY <1>O, <2>0, <2>1 DEF NeedsObject, WithObject
    <2> HIDE DEF m
    <2> QED
      BY <1>14, <1>T, <2>0, <2>1, <2>2, <2>3, GotoType DEF FinishCancel, TypeOK
  <1>15. CASE UNCHANGED vars
    BY <1>15 DEF vars, TypeInv, TypeOK, HasObject
  <1> QED
    BY <1>1, <1>2, <1>3, <1>4, <1>5, <1>6, <1>7, <1>8, <1>9, <1>10, <1>11, <1>12, <1>13,
       <1>14, <1>15, StepForms DEF Run

(* TypeOK, for every number of threads, tasks and requests.                 *)
THEOREM TypeCorrect == Spec => []TypeOK
  <1>1. Init => TypeInv
    BY NoLocalType, TaskAssumption
       DEF Init, TypeInv, TypeOK, HasObject, NeedsObject, WithObject, States, Points, Resting
  <1>2. TypeInv => TypeOK
    BY DEF TypeInv
  <1> QED
    BY <1>1, <1>2, TypeStep, PTL DEF Spec

-----------------------------------------------------------------------------
(* Terminal tasks are not re-activated.                                     *)

(* Objects are numbered by the requests that built them, so one that is not *)
(* built yet is neither in the table nor in a local, and not terminal.      *)
Numbered ==
  /\ \A k \in Tasks : table[k] <= requests
  /\ \A t \in Threads : loc[t].obj <= requests
  /\ \A o \in Objects : o > requests => status[o] \notin Terminal

(* What the guard established still holds when the status is written.       *)
GuardHolds ==
  \A t \in Threads : pc[t] \in {"old", "write"} =>
    (status[loc[t].obj] \in Terminal => loc[t].target \in Terminal)

NoReactivation ==
  \A o \in Objects : status[o] \in Terminal => status'[o] \in Terminal

(* A step that builds no object and writes no status keeps Numbered.        *)
LEMMA NumberedGoto ==
  ASSUME TypeInv, Numbered, NEW t \in Threads, NEW p, NEW l \in Local, Goto(t, p, l), l.obj <= requests,
         requests' \in {requests, requests + 1}, UNCHANGED <<table, status>>
  PROVE  Numbered'
  <1>1. requests \in Nat /\ requests <= requests'
    BY DEF TypeInv, TypeOK
  <1>2. \A k \in Tasks : table[k] \in Nat
    BY DEF TypeInv, TypeOK
  <1>3. \A u \in Threads : loc[u].obj \in Nat /\ loc'[u] \in {loc[u], l}
    BY DEF TypeInv, TypeOK, Goto, Local
  <1>4. \A o \in Objects : o \in Nat
    BY TaskAssumption DEF Objects
  <1>5. \A u \in Threads : loc'[u].obj <= requests'
    <2> SUFFICES ASSUME NEW u \in Threads PROVE loc'[u].obj <= requests'
      OBVIOUS
    <2>1. CASE loc'[u] = loc[u]
      BY <1>1, <1>3, <2>1 DEF Numbered
    <2>2. CASE loc'[u] = l /\ loc'[u] # loc[u]
      <3>1. u = t
        BY <2>2 DEF TypeInv, TypeOK, Goto
      <3> QED
        BY <1>1, <2>2 DEF Local
    <2> QED
      BY <1>3, <2>1, <2>2
  <1> QED
    BY <1>1, <1>2, <1>4, <1>5 DEF Numbered

(* A thread that moves on while it may run disturbs no other thread between *)
(* guard and write: there is none.                                          *)
LEMMA GuardGoto ==
  ASSUME {"old", "write"} \subseteq Unpreempted, TypeInv,
         NEW t \in Threads, NEW p, NEW l, MayRun(t), Goto(t, p, l),
         p \in {"old", "write"} => (status'[l.obj] \in Terminal => l.target \in Terminal)
  PROVE  GuardHolds'
  <1> SUFFICES ASSUME NEW u \in Threads, pc'[u] \in {"old", "write"}
               PROVE  status'[loc'[u].obj] \in Terminal => loc'[u].target \in Terminal
    BY DEF GuardHolds
  <1>1. CASE u = t
    <2>1. pc'[u] = p /\ loc'[u] = l
      BY <1>1 DEF Goto, TypeInv, TypeOK
    <2> QED
      BY <2>1
  <1>2. CASE u # t
    <2>1. pc'[u] = pc[u]
      BY <1>2 DEF Goto, TypeInv, TypeOK
    <2>2. pc[u] \notin Unpreempted
      BY <1>2 DEF MayRun
    <2> QED
      BY <2>1, <2>2
  <1> QED
    BY <1>1, <1>2

(* A thread that returns is not between guard and write, and holds on to    *)
(* its object or drops it.                                                  *)
LEMMA ReturnObject ==
  ASSUME TypeInv, NEW t \in Threads
  PROVE  AfterPoint(t) \notin {"old", "write"} /\ AfterLocal(t).obj \in {loc[t].obj, 0}
  <1>1. loc[t] \in Local /\ loc[t].then \in Then
    BY DEF TypeInv, TypeOK, Local
  <1>2. AfterPoint(t) \notin {"old", "write"}
    BY <1>1 DEF AfterPoint, Then
  <1>3. AfterLocal(t).obj \in {loc[t].obj, 0}
    BY <1>1, NoLocalType DEF AfterLocal, Then, Local
  <1> QED
    BY <1>2, <1>3

(* The invariant of the argument is kept and no step re-activates a task.   *)
LEMMA ReactivationStep ==
  ASSUME {"old", "write"} \subseteq Unpreempted, TypeInv, Numbered, GuardHolds, [Next]_vars
  PROVE  Numbered' /\ GuardHolds' /\ NoReactivation
  <1>T. TypeOK
    BY DEF TypeInv
  <1>L. \A t \in Threads : loc[t] \in Local /\ loc[t].obj <= requests /\ loc[t].obj \in Nat
    BY <1>T DEF TypeOK, Numbered, Local
  <1>Q. requests \in Nat /\ \A o \in Objects : o \in Nat
    BY <1>T, TaskAssumption DEF TypeOK, Objects
  <1>R. ASSUME NEW t \in Threads, MayRun(t), Return(t), UNCHANGED <<table, status, requests>>
        PROVE  Numbered' /\ GuardHolds' /\ NoReactivation
    <2>1. AfterLocal(t) \in Local /\ AfterLocal(t).obj <= requests
      BY <1>L, <1>Q, ReturnType, ReturnObject
    <2>2. Numbered'
      BY <1>R, <2>1, NumberedGoto DEF Return
    <2>3. GuardHolds'
      BY <1>R, ReturnObject, GuardGoto DEF Return
    <2> QED
      BY <1>R, <2>2, <2>3 DEF NoReactivation
  <1>G. ASSUME NEW t \in Threads, NEW p \in Points \cup Resting, NEW l \in Local,
               MayRun(t), Goto(t, p, l), l.obj <= requests,
               p \in {"old", "write"} => (status[l.obj] \in Terminal => l.target \in Terminal),
               requests' \in {requests, requests + 1}, UNCHANGED <<table, status>>
        PROVE  Numbered' /\ GuardHolds' /\ NoReactivation
    <2>1. Numbered'
      BY <1>G, NumberedGoto
    <2>2. GuardHolds'
      BY <1>G, GuardGoto
    <2> QED
      BY <1>G, <2>1, <2>2 DEF NoReactivation
  <1>1. ASSUME NEW t \in Threads, NEW k \in Tasks, Creates(t, k)
        PROVE  Numbered' /\ GuardHolds' /\ NoReactivation
    <2>1. PICK state \in {"submitted", "working", "confirmation_pending"},
               entries \in {<<>>} \cup {Created(s) : s \in States}, l \in Local :
                 l.task = k /\ CreateTask(t, k, state, entries, l)
      BY <1>1 DEF Creates
    <2>2. MayRun(t) /\ requests' = requests + 1 /\ requests + 1 \in 0 .. MaxRequests
      BY <2>1, <1>T, TaskAssumption DEF CreateTask, Accept, TypeOK
    <2>3. table[k] \in 0 .. MaxRequests /\ table[k] <= requests
      BY <1>T DEF TypeOK, Numbered
    <2>4. CASE table[k] # 0
      <3> DEFINE m == [l EXCEPT !.obj = table[k]]
                 n == [m EXCEPT !.then = "done"]
      <3>1. n \in Local /\ n.obj = table[k]
        BY <2>3 DEF Local, Then
      <3>2. UNCHANGED <<table, status>>
        BY <2>1, <2>4 DEF CreateTask
      <3>3. Goto(t, "auditSeq", n) \/ Goto(t, "idle", NoLocal)
        BY <2>1, <2>4 DEF CreateTask
      <3>4. "auditSeq" \in Points /\ "idle" \in Resting
        BY DEF Points, Resting
      <3> HIDE DEF m, n
      <3> QED
        BY <1>G, <1>Q, <2>2, <2>3, <3>1, <3>2, <3>3, <3>4, NoLocalType
    <2>5. CASE table[k] = 0
      <3> DEFINE m == [l EXCEPT !.obj = requests + 1, !.target = state]
      <3>1. m \in Local /\ m.obj = requests + 1
        BY <2>2 DEF Local, States
      <3>2. Goto(t, "storing", m)
        BY <2>1, <2>5 DEF CreateTask
      <3>3. status' = [status EXCEPT ![requests + 1] = state] /\ table' = table
        BY <2>1, <2>5 DEF CreateTask
      <3> HIDE DEF m
      <3>4. GuardHolds'
        BY <2>2, <3>2, GuardGoto
      <3>5. \A o \in Objects : o > requests => status[o] \notin Terminal
        BY DEF Numbered
      <3>6. NoReactivation
        BY <1>T, <1>Q, <3>3, <3>5 DEF NoReactivation, TypeOK
      <3>7. \A j \in Tasks : table'[j] <= requests'
        BY <1>T, <1>Q, <2>2, <3>3 DEF Numbered, TypeOK
      <3>8. \A u \in Threads : loc'[u].obj <= requests'
        <4> SUFFICES ASSUME NEW u \in Threads PROVE loc'[u].obj <= requests'
          OBVIOUS
        <4>1. loc'[u] = IF u = t THEN m ELSE loc[u]
          BY <1>T, <3>2 DEF Goto, TypeOK
        <4> QED
          BY <1>L, <1>Q, <2>2, <3>1, <4>1
      <3>9. \A o \in Objects : o > requests' => status'[o] \notin Terminal
        BY <1>T, <1>Q, <2>2, <3>3, <3>5 DEF TypeOK
      <3> QED
        BY <3>4, <3>6, <3>7, <3>8, <3>9 DEF Numbered
    <2> QED
      BY <2>4, <2>5
  <1>2. ASSUME NEW t \in Threads, NEW k \in Tasks, Calls(t, k)
        PROVE  Numbered' /\ GuardHolds' /\ NoReactivation
    <2>1. PICK s \in States, then \in {"done", "spawn"} : CallUpdate(t, k, s, then)
      BY <1>2 DEF Calls
    <2> DEFINE m == [NoLocal EXCEPT !.task = k, !.target = s, !.then = then]
    <2>2. m \in Local /\ m.obj = 0
      BY NoLocalType DEF Local, Then
    <2>3. Goto(t, "get", m) /\ "get" \in Points /\ MayRun(t)
      BY <2>1 DEF CallUpdate, Accept, Points
    <2>4. requests' = requests + 1 /\ UNCHANGED <<table, status>>
      BY <2>1 DEF CallUpdate, Accept
    <2> HIDE DEF m
    <2> QED
      BY <1>G, <1>Q, <2>2, <2>3, <2>4
  <1>3. ASSUME NEW t \in Threads, NEW k \in Tasks, Decides(t, k)
        PROVE  Numbered' /\ GuardHolds' /\ NoReactivation
    <2>1. PICK e \in Decisions, s \in States : table[k] # 0 /\ Decide(t, k, e, s)
      BY <1>3 DEF Decides
    <2> DEFINE m == [NoLocal EXCEPT !.task = k, !.obj = table[k], !.target = s, !.event = e]
    <2>2. m \in Local /\ m.obj = table[k] /\ table[k] <= requests
      BY <1>T, NoLocalType DEF Local, TypeOK, Numbered, Decisions, Events
    <2>3. Goto(t, "auditSeq", m) /\ "auditSeq" \in Points /\ MayRun(t)
      BY <2>1 DEF Decide, Accept, Points
    <2>4. requests' = requests + 1 /\ UNCHANGED <<table, status>>
      BY <2>1 DEF Decide, Accept
    <2> HIDE DEF m
    <2> QED
      BY <1>G, <2>2, <2>3, <2>4
  <1>4. ASSUME NEW t \in Threads, SyncOutcome(t)
        PROVE  Numbered' /\ GuardHolds' /\ NoReactivation
    <2>1. MayRun(t) /\ UNCHANGED <<table, status, requests>>
      BY <1>4 DEF SyncOutcome
    <2>2. CASE Goto(t, "idle", NoLocal)
      <3>1. "idle" \in Resting
        BY DEF Resting
      <3> QED
        BY <1>G, <1>Q, <2>1, <2>2, <3>1, NoLocalType
    <2>3. ASSUME NEW s \in {"completed", "failed"},
                 Goto(t, "get", [loc[t] EXCEPT !.target = s, !.then = "done"])
          PROVE  Numbered' /\ GuardHolds' /\ NoReactivation
      <3> DEFINE m == [loc[t] EXCEPT !.target = s, !.then = "done"]
      <3>1. m \in Local /\ m.obj = loc[t].obj
        BY <1>L DEF Local, Then, States, Terminal
      <3>2. Goto(t, "get", m) /\ "get" \in Points
        BY <2>3 DEF Points
      <3> HIDE DEF m
      <3> QED
        BY <1>G, <1>L, <2>1, <3>1, <3>2
    <2> QED
      BY <1>4, <2>2, <2>3 DEF SyncOutcome
  <1>5. ASSUME NEW t \in Threads, StoreTask(t)
        PROVE  Numbered' /\ GuardHolds' /\ NoReactivation
    <2>1. GuardHolds'
      BY <1>5, GuardGoto DEF StoreTask
    <2>2. table' = [table EXCEPT ![loc[t].task] = loc[t].obj] /\ status' = status
          /\ requests' = requests /\ loc' = loc
      BY <1>5, <1>T DEF StoreTask, Goto, TypeOK
    <2>3. Numbered'
      BY <1>T, <1>L, <2>2 DEF Numbered, TypeOK
    <2> QED
      BY <2>1, <2>2, <2>3 DEF NoReactivation
  <1>6. ASSUME NEW t \in Threads, GetTask(t)
        PROVE  Numbered' /\ GuardHolds' /\ NoReactivation
    <2> DEFINE m == [loc[t] EXCEPT !.obj = table[loc[t].task]]
    <2>1. m \in Local /\ m.obj = table[loc[t].task] /\ table[loc[t].task] <= requests
      BY <1>L, <1>T DEF Local, TypeOK, Numbered
    <2>2. "guard" \in Points
      BY DEF Points
    <2>3. Return(t) \/ Goto(t, "guard", m)
      BY <1>6 DEF GetTask
    <2>4. MayRun(t) /\ UNCHANGED <<table, status, requests>>
      BY <1>6 DEF GetTask
    <2> HIDE DEF m
    <2> QED
      BY <1>R, <1>G, <2>1, <2>2, <2>3, <2>4
  <1>7. ASSUME NEW t \in Threads, GuardTerminal(t)
        PROVE  Numbered' /\ GuardHolds' /\ NoReactivation
    <2>1. Return(t) \/ /\ Goto(t, "old", loc[t])
                       /\ status[loc[t].obj] \in Terminal => loc[t].target \in Terminal
      BY <1>7 DEF GuardTerminal
    <2>2. MayRun(t) /\ UNCHANGED <<table, status, requests>> /\ "old" \in Points
      BY <1>7 DEF GuardTerminal, Points
    <2> QED
      BY <1>R, <1>G, <1>L, <2>1, <2>2
  <1>8. ASSUME NEW t \in Threads, ReadOld(t)
        PROVE  Numbered' /\ GuardHolds' /\ NoReactivation
    <2> DEFINE m == [loc[t] EXCEPT !.old = status[loc[t].obj]]
    <2>1. status[loc[t].obj] \in States
      <3>1. loc[t].obj \in Objects
        BY <1>8, <1>L, TaskAssumption
           DEF ReadOld, WithObject, Local, Objects, TypeInv, HasObject, NeedsObject
      <3> QED
        BY <1>T, <3>1 DEF TypeOK
    <2>2. m \in Local /\ m.obj = loc[t].obj /\ m.target = loc[t].target
      BY <1>L, <2>1 DEF Local
    <2>3. status[loc[t].obj] \in Terminal => loc[t].target \in Terminal
      BY <1>8 DEF GuardHolds, ReadOld
    <2>4. MayRun(t) /\ UNCHANGED <<table, status, requests>> /\ "write" \in Points /\ Goto(t, "write", m)
      BY <1>8 DEF ReadOld, Points
    <2> HIDE DEF m
    <2> QED
      BY <1>G, <1>L, <2>2, <2>3, <2>4
  <1>9. ASSUME NEW t \in Threads, WriteStatus(t)
        PROVE  Numbered' /\ GuardHolds' /\ NoReactivation
    <2> DEFINE m == [loc[t] EXCEPT !.event = "status_changed"]
    <2>1. m \in Local /\ m.obj = loc[t].obj
      BY <1>L DEF Local, Events
    <2>2. status' = [status EXCEPT ![loc[t].obj] = loc[t].target] /\ table' = table /\ requests' = requests
      BY <1>9 DEF WriteStatus
    <2>3. MayRun(t) /\ status[loc[t].obj] \in Terminal => loc[t].target \in Terminal
      BY <1>9 DEF WriteStatus, GuardHolds
    <2>4. Return(t) \/ Goto(t, "auditSeq", m)
      BY <1>9 DEF WriteStatus
    <2> HIDE DEF m
    <2>5. NoReactivation
      BY <1>T, <2>2, <1>9 DEF NoReactivation, TypeOK, GuardHolds, WriteStatus
    <2>6. GuardHolds'
      BY <1>9, <2>4, ReturnObject, GuardGoto DEF Return, WriteStatus
    <2>7. \A u \in Threads : loc'[u].obj <= requests
      <3> SUFFICES ASSUME NEW u \in Threads PROVE loc'[u].obj <= requests
        OBVIOUS
      <3>1. loc'[u] \in {loc[u], m, AfterLocal(t)} /\ (loc'[u] = loc[u] \/ u = t)
        BY <1>T, <2>4 DEF Return, Goto, TypeOK
      <3> QED
        BY <1>L, <1>Q, <2>1, <3>1, ReturnObject
    <2>8. \A o \in Objects : o > requests => status'[o] \notin Terminal
      BY <1>T, <1>L, <1>Q, <2>2 DEF Numbered, TypeOK
    <2> QED
      BY <2>2, <2>5, <2>6, <2>7, <2>8 DEF Numbered
  <1>10. ASSUME NEW t \in Threads, AuditSeq(t)
         PROVE  Numbered' /\ GuardHolds' /\ NoReactivation
    <2> DEFINE m == [loc[t] EXCEPT !.seq = Len(audit[loc[t].obj])]
    <2>1. loc[t].obj \in Objects
      BY <1>10, <1>L, TaskAssumption
         DEF AuditSeq, WithObject, Local, Objects, TypeInv, HasObject, NeedsObject
    <2>2. Len(audit[loc[t].obj]) \in Nat
      BY <1>T, <2>1 DEF TypeOK
    <2>3. m \in Local /\ m.obj = loc[t].obj
      BY <1>L, <2>2 DEF Local
    <2>4. MayRun(t) /\ UNCHANGED <<table, status, requests>> /\ "auditAppend" \in Points
          /\ Goto(t, "auditAppend", m)
      BY <1>10 DEF AuditSeq, Points
    <2> HIDE DEF m
    <2> QED
      BY <1>G, <1>L, <2>3, <2>4
  <1>11. ASSUME NEW t \in Threads, AuditAppend(t)
         PROVE  Numbered' /\ GuardHolds' /\ NoReactivation
    <2> DEFINE m == [loc[t] EXCEPT !.event = "worker_dispatched"]
    <2>1. m \in Local /\ m.obj = loc[t].obj
      BY <1>L DEF Local, Events
    <2>2. Return(t) \/ Goto(t, "announce", loc[t]) \/ Goto(t, "get", loc[t]) \/ Goto(t, "auditSeq", m)
      BY <1>11 DEF AuditAppend
    <2>3. MayRun(t) /\ UNCHANGED <<table, status, requests>> /\ {"announce", "get", "auditSeq"} \subseteq Points
      BY <1>11 DEF AuditAppend, Points
    <2> HIDE DEF m
    <2> QED
      BY <1>R, <1>G, <1>L, <2>1, <2>2, <2>3
  <1>12. ASSUME NEW t \in Threads, Announce(t)
         PROVE  Numbered' /\ GuardHolds' /\ NoReactivation
    BY <1>12, <1>R DEF Announce
  <1>13. ASSUME NEW t \in Threads, SpawnCanceller(t)
         PROVE  Numbered' /\ GuardHolds' /\ NoReactivation
    <2>1. PICK c \in Cancellers :
            /\ pc' = [pc EXCEPT ![t] = "idle", ![c] = "sleeping"]
            /\ loc' = [loc EXCEPT ![t] = NoLocal, ![c] = [NoLocal EXCEPT !.task = loc[t].task]]
      BY <1>13 DEF SpawnCanceller
    <2> DEFINE m == [NoLocal EXCEPT !.task = loc[t].task]
    <2>2. m.obj = 0
      BY NoLocalType DEF Local
    <2>3. c \in Threads
      BY DEF Threads
    <2>4. ASSUME NEW u \in Threads
          PROVE  \/ pc'[u] = pc[u] /\ loc'[u] = loc[u]
                 \/ pc'[u] \in {"idle", "sleeping"} /\ loc'[u].obj = 0
      <3>1. pc'[u] = IF u = c THEN "sleeping" ELSE IF u = t THEN "idle" ELSE pc[u]
        BY <1>T, <2>1, <2>3 DEF TypeOK
      <3>2. loc'[u] = IF u = c THEN m ELSE IF u = t THEN NoLocal ELSE loc[u]
        BY <1>T, <2>1, <2>3 DEF TypeOK
      <3> HIDE DEF m
      <3> QED
        BY <2>2, <3>1, <3>2, NoLocalType
    <2>5. UNCHANGED <<table, status, requests>>
      BY <1>13 DEF SpawnCanceller
    <2>6. Numbered'
      BY <1>L, <1>Q, <2>4, <2>5 DEF Numbered
    <2>7. GuardHolds'
      BY <2>4, <2>5 DEF GuardHolds
    <2> QED
      BY <2>5, <2>6, <2>7 DEF NoReactivation
  <1>14. ASSUME NEW c \in Cancellers, FinishCancel(c)
         PROVE  Numbered' /\ GuardHolds' /\ NoReactivation
    <2> DEFINE m == [loc[c] EXCEPT !.target = "canceled"]
    <2>1. c \in Threads
      BY DEF Threads
    <2>2. m \in Local /\ m.obj = loc[c].obj
      BY <1>L, <2>1 DEF Local, States, Terminal
    <2>3. MayRun(c) /\ UNCHANGED <<table, status, requests>> /\ "get" \in Points /\ Goto(c, "get", m)
      BY <1>14 DEF FinishCancel, Points
    <2> HIDE DEF m
    <2> QED
      BY <1>G, <1>L, <2>1, <2>2, <2>3
  <1>15. CASE UNCHANGED vars
    BY <1>15 DEF vars, Numbered, GuardHolds, NoReactivation
  <1> QED
    BY <1>1, <1>2, <1>3, <1>4, <1>5, <1>6, <1>7, <1>8, <1>9, <1>10, <1>11, <1>12, <1>13,
       <1>14, <1>15, StepForms DEF Run

(* Where the interpreter does not switch threads between the guard and the  *)
(* write of _update_task, no interleaving of any number of requests, peer   *)
(* messages and cancel threads re-activates a terminal task object.         *)
THEOREM TerminalTasksStayTerminal ==
  ASSUME {"old", "write"} \subseteq Unpreempted
  PROVE  Spec => TerminalStaysTerminal
  <1>1. Init => TypeInv
    BY NoLocalType, TaskAssumption
       DEF Init, TypeInv, TypeOK, HasObject, NeedsObject, WithObject, States, Points, Resting
  <1>2. Init => Numbered /\ GuardHolds
    BY NoLocalType DEF Init, Numbered, GuardHolds, Terminal
  <1>3. TypeInv /\ Numbered /\ GuardHolds /\ [Next]_vars => Numbered' /\ GuardHolds' /\ [NoReactivation]_vars
    BY ReactivationStep
  <1> QED
    BY <1>1, <1>2, <1>3, TypeStep, PTL DEF Spec, TerminalStaysTerminal, NoReactivation

-----------------------------------------------------------------------------
(* The audit log balances the status.                                       *)

(* A thread at p with locals l wrote a status and has not logged it yet.    *)
OwesAt(p, l) == p \in {"auditSeq", "auditAppend"} /\ l.event = "status_changed"
Targets(o, s) == {t \in Owing(o) : loc[t].target = s}
Olds(o, s) == {t \in Owing(o) : loc[t].old = s}
Now(o, s) == IF status[o] = s THEN 1 ELSE 0

(* LogBalancesStatus is not inductive by itself: what _update_task read as  *)
(* the old state must still be the status when it writes, only finitely     *)
(* many threads may owe an entry, and what follows a creation is a note.    *)
OldIsStatus == \A t \in Threads : pc[t] = "write" => loc[t].old = status[loc[t].obj]
NotesFit ==
  \A t \in Threads : loc[t].then = "note" =>
    pc[t] \in {"storing", "announce"} /\ loc[t].event \in Notes
FewOwe == \A o \in Objects : IsFiniteSet(Owing(o))
LogInv == OldIsStatus /\ NotesFit /\ FewOwe /\ LogBalancesStatus

Balanced(o) ==
  CreatedHere(o) => \A s \in States :
    Cardinality(Entered(o, s)) + Cardinality(Targets(o, s))
      = Cardinality(Left(o, s)) + Cardinality(Olds(o, s)) + Now(o, s)

LEMMA BalanceParts == LogBalancesStatus <=> \A o \in Objects : Balanced(o)
  BY DEF LogBalancesStatus, Balanced, Targets, Olds, Now

(* The counts are numbers.                                                  *)
LEMMA CountTypes ==
  ASSUME TypeOK, NEW o \in Objects, NEW s \in States, IsFiniteSet(Owing(o))
  PROVE  /\ IsFiniteSet(Entered(o, s)) /\ IsFiniteSet(Left(o, s))
         /\ IsFiniteSet(Targets(o, s)) /\ IsFiniteSet(Olds(o, s))
         /\ Cardinality(Entered(o, s)) \in Nat /\ Cardinality(Left(o, s)) \in Nat
         /\ Cardinality(Targets(o, s)) \in Nat /\ Cardinality(Olds(o, s)) \in Nat
  <1>1. audit[o] \in Seq(Entry) /\ DOMAIN audit[o] = 1 .. Len(audit[o]) /\ Len(audit[o]) \in Nat
    BY DEF TypeOK
  <1>2. IsFiniteSet(DOMAIN audit[o])
    BY <1>1, FS_Interval
  <1>3. Entered(o, s) \in SUBSET DOMAIN audit[o] /\ Left(o, s) \in SUBSET DOMAIN audit[o]
    BY DEF Entered, Left
  <1>4. Targets(o, s) \in SUBSET Owing(o) /\ Olds(o, s) \in SUBSET Owing(o)
    BY DEF Targets, Olds
  <1>5. IsFiniteSet(Entered(o, s)) /\ IsFiniteSet(Left(o, s))
    BY <1>2, <1>3, FS_Subset
  <1>6. IsFiniteSet(Targets(o, s)) /\ IsFiniteSet(Olds(o, s))
    BY <1>4, FS_Subset
  <1> QED
    BY <1>5, <1>6, FS_CardinalityType

(* A thread that returns has nothing left to log, but a note perhaps.       *)
LEMMA ReturnFits ==
  ASSUME TypeInv, NotesFit, NEW t \in Threads
  PROVE  /\ AfterPoint(t) # "write" /\ AfterLocal(t).then # "note"
         /\ ~OwesAt(AfterPoint(t), AfterLocal(t))
  <1>1. loc[t] \in Local /\ loc[t].then \in Then
    BY DEF TypeInv, TypeOK, Local
  <1>2. AfterPoint(t) # "write"
    BY <1>1 DEF AfterPoint, Then
  <1>3. CASE loc[t].then = "note"
    <2>1. AfterLocal(t) = [loc[t] EXCEPT !.then = "done"]
      BY <1>3 DEF AfterLocal
    <2>2. AfterLocal(t).then = "done" /\ AfterLocal(t).event = loc[t].event
      BY <1>1, <2>1 DEF Local
    <2>3. loc[t].event \in Notes
      BY <1>3 DEF NotesFit
    <2> QED
      BY <1>2, <2>2, <2>3 DEF OwesAt, Notes
  <1>4. CASE loc[t].then # "note"
    <2>1. AfterPoint(t) \notin {"auditSeq", "auditAppend"}
      BY <1>1, <1>4 DEF AfterPoint, Then
    <2>2. AfterLocal(t).then # "note"
      BY <1>1, <1>4, NoLocalType DEF AfterLocal, Then, Local
    <2> QED
      BY <1>2, <2>1, <2>2 DEF OwesAt
  <1> QED
    BY <1>3, <1>4

(* A step that leaves the log, the status and what is owed for an object    *)
(* alone keeps its balance.                                                 *)
Same(u) ==
  \/ ~OwesAt(pc[u], loc[u]) /\ ~OwesAt(pc'[u], loc'[u])
  \/ /\ OwesAt(pc[u], loc[u]) /\ OwesAt(pc'[u], loc'[u])
     /\ loc'[u].obj = loc[u].obj /\ loc'[u].target = loc[u].target /\ loc'[u].old = loc[u].old

LEMMA SameOwing ==
  ASSUME NEW o \in Objects,
         \A u \in Threads : Same(u) \/ ({loc[u].obj, loc'[u].obj} \cap {o} = {})
  PROVE  /\ Owing(o)' = Owing(o)
         /\ \A s \in States : Targets(o, s)' = Targets(o, s) /\ Olds(o, s)' = Olds(o, s)
  <1>1. ASSUME NEW u \in Threads PROVE u \in Owing(o)' <=> u \in Owing(o)
    BY DEF Owing, Same, OwesAt
  <1>2. Owing(o)' \subseteq Threads /\ Owing(o) \subseteq Threads
    BY DEF Owing
  <1>3. Owing(o)' = Owing(o)
    BY <1>1, <1>2
  <1>4. ASSUME NEW u \in Owing(o) PROVE loc'[u].target = loc[u].target /\ loc'[u].old = loc[u].old
    BY <1>2 DEF Owing, Same, OwesAt
  <1>5. ASSUME NEW s \in States PROVE Targets(o, s)' = Targets(o, s) /\ Olds(o, s)' = Olds(o, s)
    BY <1>3, <1>4 DEF Targets, Olds
  <1> QED
    BY <1>3, <1>5

LEMMA SameBalance ==
  ASSUME FewOwe, LogBalancesStatus,
         NEW o \in Objects, audit'[o] = audit[o], status'[o] = status[o],
         \A u \in Threads : Same(u) \/ ({loc[u].obj, loc'[u].obj} \cap {o} = {})
  PROVE  IsFiniteSet(Owing(o)') /\ Balanced(o)'
  <1>1. Balanced(o) /\ IsFiniteSet(Owing(o))
    BY BalanceParts DEF FewOwe
  <1>2. \A s \in States : Entered(o, s)' = Entered(o, s) /\ Left(o, s)' = Left(o, s) /\ Now(o, s)' = Now(o, s)
    BY DEF Entered, Left, Now, IsChange
  <1>3. CreatedHere(o)' = CreatedHere(o)
    BY DEF CreatedHere
  <1> QED
    BY <1>1, <1>2, <1>3, SameOwing DEF Balanced

(* A thread that moves on without touching a log or a status.               *)
LEMMA QuietGoto ==
  ASSUME TypeInv, LogInv, NEW t \in Threads, NEW p, NEW l, Goto(t, p, l),
         UNCHANGED <<status, audit>>, Same(t),
         p = "write" => l.old = status[l.obj],
         l.then = "note" => p \in {"storing", "announce"} /\ l.event \in Notes
  PROVE  LogInv'
  <1>1. pc'[t] = p /\ loc'[t] = l /\ \A u \in Threads \ {t} : pc'[u] = pc[u] /\ loc'[u] = loc[u]
    BY DEF Goto, TypeInv, TypeOK
  <1>2. OldIsStatus' /\ NotesFit'
    BY <1>1 DEF LogInv, OldIsStatus, NotesFit
  <1>3. \A u \in Threads : Same(u)
    BY <1>1 DEF Same
  <1>4. \A o \in Objects : IsFiniteSet(Owing(o)') /\ Balanced(o)'
    BY <1>3, SameBalance DEF LogInv
  <1>5. FewOwe' /\ LogBalancesStatus'
    BY <1>4, BalanceParts DEF FewOwe, LogBalancesStatus, Balanced, Targets, Olds, Now
  <1> QED
    BY <1>2, <1>5 DEF LogInv

(* Returning from a call is such a step, unless an entry is still owed.     *)
LEMMA QuietReturn ==
  ASSUME TypeInv, LogInv, NEW t \in Threads, Return(t), UNCHANGED <<status, audit>>,
         ~OwesAt(pc[t], loc[t])
  PROVE  LogInv'
  <1>1. AfterPoint(t) # "write" /\ AfterLocal(t).then # "note" /\ ~OwesAt(AfterPoint(t), AfterLocal(t))
    BY ReturnFits DEF LogInv
  <1>2. Same(t)
    BY <1>1 DEF Same, Return, Goto, TypeInv, TypeOK
  <1> QED
    BY <1>1, <1>2, QuietGoto DEF Return

(* A write that changes the status is owed to the log from then on.         *)
LEMMA WriteBalance ==
  ASSUME {"old", "write"} \subseteq Unpreempted, TypeInv, LogInv,
         NEW t \in Threads, WriteStatus(t)
  PROVE  LogInv'
  <1> DEFINE m == [loc[t] EXCEPT !.event = "status_changed"]
  <1>T. TypeOK /\ loc[t] \in Local /\ pc[t] = "write" /\ audit' = audit
    BY DEF TypeInv, TypeOK, WriteStatus
  <1>0. PICK b \in Objects : b = loc[t].obj
    BY <1>T, TaskAssumption DEF WithObject, Local, Objects, TypeInv, HasObject, NeedsObject
  <1>1. status[b] = loc[t].old /\ status[b] \in States /\ loc[t].target \in States /\ loc[t].then # "note"
    BY <1>T, <1>0 DEF LogInv, OldIsStatus, NotesFit, TypeOK, Local
  <1>2. status' = [status EXCEPT ![b] = loc[t].target]
    BY <1>0 DEF WriteStatus
  <1>3. ~OwesAt(pc[t], loc[t])
    BY <1>T DEF OwesAt
  <1>4. \A u \in Threads \ {t} : pc[u] # "write"
    BY DEF WriteStatus, MayRun
  <1>5. CASE loc[t].target = loc[t].old
    <2>1. status' = status
      BY <1>T, <1>0, <1>1, <1>2, <1>5 DEF TypeOK
    <2>2. Return(t)
      BY <1>5 DEF WriteStatus
    <2> QED
      BY <1>T, <1>3, <2>1, <2>2, QuietReturn
  <1>6. CASE loc[t].target # loc[t].old
    <2>1. Goto(t, "auditSeq", m)
      BY <1>6 DEF WriteStatus
    <2>2. /\ m.event = "status_changed" /\ m.obj = b /\ m.target = loc[t].target
          /\ m.old = loc[t].old /\ m.then = loc[t].then
      BY <1>T, <1>0 DEF Local
    <2> HIDE DEF m
    <2>3. /\ pc'[t] = "auditSeq" /\ loc'[t] = m
          /\ \A u \in Threads \ {t} : pc'[u] = pc[u] /\ loc'[u] = loc[u]
      BY <1>T, <2>1 DEF Goto, TypeOK
    <2>4. OldIsStatus' /\ NotesFit'
      BY <1>0, <1>1, <1>4, <2>2, <2>3 DEF LogInv, OldIsStatus, NotesFit
    <2>5. ASSUME NEW o \in Objects, o # b PROVE IsFiniteSet(Owing(o)') /\ Balanced(o)'
      <3>1. audit'[o] = audit[o] /\ status'[o] = status[o]
        BY <1>T, <1>2, <2>5 DEF TypeOK
      <3>2. \A u \in Threads : Same(u) \/ ({loc[u].obj, loc'[u].obj} \cap {o} = {})
        BY <1>0, <2>2, <2>3, <2>5 DEF Same
      <3> QED
        BY <3>1, <3>2, SameBalance DEF LogInv
    <2>6. IsFiniteSet(Owing(b)) /\ Balanced(b)
      BY BalanceParts DEF LogInv, FewOwe
    <2>7. Owing(b)' = Owing(b) \cup {t} /\ t \notin Owing(b)
      <3>1. ASSUME NEW u \in Threads PROVE u \in Owing(b)' <=> u \in Owing(b) \/ u = t
        BY <2>2, <2>3 DEF Owing
      <3> QED
        BY <1>3, <3>1 DEF Owing, OwesAt
    <2>8. IsFiniteSet(Owing(b)')
      BY <2>6, <2>7, FS_AddElement
    <2>9. ASSUME NEW s \in States
          PROVE  /\ Targets(b, s)' = Targets(b, s) \cup (IF s = loc[t].target THEN {t} ELSE {})
                 /\ Olds(b, s)' = Olds(b, s) \cup (IF s = loc[t].old THEN {t} ELSE {})
                 /\ t \notin Targets(b, s) /\ t \notin Olds(b, s)
      <3>1. \A u \in Owing(b) : loc'[u] = loc[u]
        BY <2>3, <2>7 DEF Owing
      <3> QED
        BY <2>2, <2>3, <2>7, <3>1 DEF Targets, Olds
    <2>10. \A s \in States : Entered(b, s)' = Entered(b, s) /\ Left(b, s)' = Left(b, s)
      BY <1>T DEF Entered, Left, IsChange
    <2>11. \A s \in States : Now(b, s) = (IF s = loc[t].old THEN 1 ELSE 0)
                             /\ Now(b, s)' = (IF s = loc[t].target THEN 1 ELSE 0)
      BY <1>T, <1>0, <1>1, <1>2 DEF Now, TypeOK
    <2>12. Balanced(b)'
      <3> SUFFICES ASSUME CreatedHere(b)', NEW s \in States
                   PROVE  Cardinality(Entered(b, s)') + Cardinality(Targets(b, s)')
                            = Cardinality(Left(b, s)') + Cardinality(Olds(b, s)') + Now(b, s)'
        BY DEF Balanced
      <3>1. CreatedHere(b)
        BY <1>T DEF CreatedHere
      <3>2. Cardinality(Entered(b, s)) + Cardinality(Targets(b, s))
              = Cardinality(Left(b, s)) + Cardinality(Olds(b, s)) + Now(b, s)
        BY <2>6, <3>1 DEF Balanced
      <3>3. /\ IsFiniteSet(Targets(b, s)) /\ IsFiniteSet(Olds(b, s))
            /\ Cardinality(Entered(b, s)) \in Nat /\ Cardinality(Left(b, s)) \in Nat
            /\ Cardinality(Targets(b, s)) \in Nat /\ Cardinality(Olds(b, s)) \in Nat
        BY <1>0, <1>T, <2>6, CountTypes
      <3>4. Cardinality(Targets(b, s)')
              = Cardinality(Targets(b, s)) + (IF s = loc[t].target THEN 1 ELSE 0)
        <4>1. CASE s = loc[t].target
          <5>1. Targets(b, s)' = Targets(b, s) \cup {t} /\ t \notin Targets(b, s)
            BY <2>9, <4>1
          <5> QED
            BY <3>3, <4>1, <5>1, FS_AddElement
        <4>2. CASE s # loc[t].target
          <5>1. Targets(b, s)' = Targets(b, s) \cup {}
            BY <2>9, <4>2
          <5> QED
            BY <3>3, <4>2, <5>1
        <4> QED
          BY <4>1, <4>2
      <3>5. Cardinality(Olds(b, s)')
              = Cardinality(Olds(b, s)) + (IF s = loc[t].old THEN 1 ELSE 0)
        <4>1. CASE s = loc[t].old
          <5>1. Olds(b, s)' = Olds(b, s) \cup {t} /\ t \notin Olds(b, s)
            BY <2>9, <4>1
          <5> QED
            BY <3>3, <4>1, <5>1, FS_AddElement
        <4>2. CASE s # loc[t].old
          <5>1. Olds(b, s)' = Olds(b, s)
            BY <2>9, <4>2, ZenonT(40)
          <5> QED
            BY <3>3, <4>2, <5>1
        <4> QED
          BY <4>1, <4>2
      <3> QED
        BY <1>6, <2>10, <2>11, <3>2, <3>3, <3>4, <3>5
    <2>13. \A o \in Objects : IsFiniteSet(Owing(o)') /\ Balanced(o)'
      BY <2>5, <2>8, <2>12
    <2>14. FewOwe' /\ LogBalancesStatus'
      BY <2>13 DEF FewOwe, LogBalancesStatus, Balanced, Targets, Olds, Now
    <2> QED
      BY <2>4, <2>14 DEF LogInv
  <1> QED
    BY <1>5, <1>6

(* What one more entry adds to the changes of a log.                        *)
LEMMA AppendCounts ==
  ASSUME TypeOK, NEW o \in Objects, NEW e \in Entry, audit' = [audit EXCEPT ![o] = Append(@, e)],
         NEW s \in States
  PROVE  /\ Len(audit[o]) + 1 \notin Entered(o, s) \cup Left(o, s)
         /\ Entered(o, s)' = IF IsChange(e) /\ e.to = s
                             THEN Entered(o, s) \cup {Len(audit[o]) + 1} ELSE Entered(o, s)
         /\ Left(o, s)' = IF e.event = "status_changed" /\ e.from = s
                          THEN Left(o, s) \cup {Len(audit[o]) + 1} ELSE Left(o, s)
  <1> DEFINE q == audit[o]
             r == Append(q, e)
  <1>1. q \in Seq(Entry) /\ audit'[o] = r
    BY DEF TypeOK
  <1>2. Len(q) \in Nat /\ DOMAIN q = 1 .. Len(q)
    BY <1>1
  <1>3. DOMAIN r = 1 .. (Len(q) + 1)
    BY <1>1
  <1>4. r[Len(q) + 1] = e /\ \A i \in 1 .. Len(q) : r[i] = q[i]
    BY <1>1
  <1>5. /\ Entered(o, s) = {i \in DOMAIN q : IsChange(q[i]) /\ q[i].to = s}
        /\ Left(o, s) = {i \in DOMAIN q : q[i].event = "status_changed" /\ q[i].from = s}
    BY DEF Entered, Left
  <1>6. /\ Entered(o, s)' = {i \in DOMAIN r : IsChange(r[i]) /\ r[i].to = s}
        /\ Left(o, s)' = {i \in DOMAIN r : r[i].event = "status_changed" /\ r[i].from = s}
    BY <1>1 DEF Entered, Left, IsChange
  <1> HIDE DEF q, r
  <1>7. DOMAIN r = (DOMAIN q) \cup {Len(q) + 1} /\ Len(q) + 1 \notin DOMAIN q
    BY <1>2, <1>3
  <1>8. /\ Len(q) + 1 \notin Entered(o, s) \cup Left(o, s)
        /\ Entered(o, s)' = IF IsChange(e) /\ e.to = s
                            THEN Entered(o, s) \cup {Len(q) + 1} ELSE Entered(o, s)
        /\ Left(o, s)' = IF e.event = "status_changed" /\ e.from = s
                         THEN Left(o, s) \cup {Len(q) + 1} ELSE Left(o, s)
    BY <1>2, <1>4, <1>5, <1>6, <1>7
  <1> QED
    BY <1>8 DEF q

(* A change that is logged is owed no more; any other entry is no change.   *)
LEMMA AppendBalance ==
  ASSUME TypeInv, LogInv, NEW t \in Threads, AuditAppend(t)
  PROVE  LogInv'
  <1> DEFINE e == [event |-> loc[t].event, seq |-> loc[t].seq, from |-> loc[t].old, to |-> loc[t].target]
             n == [loc[t] EXCEPT !.event = "worker_dispatched"]
  <1>T. TypeOK /\ loc[t] \in Local /\ pc[t] = "auditAppend" /\ status' = status
    BY DEF TypeInv, TypeOK, AuditAppend
  <1>0. PICK b \in Objects : b = loc[t].obj
    BY <1>T, TaskAssumption DEF WithObject, Local, Objects, TypeInv, HasObject, NeedsObject
  <1>1. e \in Entry /\ e.event = loc[t].event /\ e.from = loc[t].old /\ e.to = loc[t].target
    BY <1>T DEF Local, Entry
  <1>2. audit' = [audit EXCEPT ![b] = Append(@, e)]
    BY <1>0 DEF AuditAppend
  <1>3. n.event = "worker_dispatched" /\ n.then = loc[t].then
    BY <1>T DEF Local, Events
  <1>4. loc[t].then # "note"
    BY <1>T DEF LogInv, NotesFit
  <1>5. /\ loc[t].event # "created"
        /\ \/ loc[t].event = "status_changed" /\ Goto(t, "announce", loc[t])
           \/ loc[t].event # "status_changed" /\ Goto(t, "get", loc[t])
           \/ loc[t].event # "status_changed" /\ Goto(t, "auditSeq", n)
           \/ loc[t].event # "status_changed" /\ Return(t)
    BY DEF AuditAppend
  <1> HIDE DEF e, n
  <1>6. PICK p, l : /\ Goto(t, p, l) /\ ~OwesAt(p, l) /\ p # "write" /\ l.then # "note"
    <2>1. AfterPoint(t) # "write" /\ AfterLocal(t).then # "note" /\ ~OwesAt(AfterPoint(t), AfterLocal(t))
      BY ReturnFits DEF LogInv
    <2> QED
      BY <1>3, <1>4, <1>5, <2>1 DEF OwesAt, Return
  <1>7. /\ pc'[t] = p /\ loc'[t] = l
        /\ \A u \in Threads \ {t} : pc'[u] = pc[u] /\ loc'[u] = loc[u]
    BY <1>T, <1>6 DEF Goto, TypeOK
  <1>8. OldIsStatus' /\ NotesFit'
    BY <1>T, <1>6, <1>7 DEF LogInv, OldIsStatus, NotesFit
  <1>9. ASSUME NEW o \in Objects, o # b PROVE IsFiniteSet(Owing(o)') /\ Balanced(o)'
    <2>1. audit'[o] = audit[o] /\ status'[o] = status[o]
      BY <1>T, <1>2, <1>9 DEF TypeOK
    <2>2. Owing(o)' = Owing(o) /\ \A u \in Owing(o) : loc'[u] = loc[u]
      BY <1>0, <1>6, <1>7, <1>9 DEF Owing, OwesAt
    <2>3. /\ CreatedHere(o)' = CreatedHere(o) /\ Balanced(o)
          /\ \A s \in States : /\ Entered(o, s)' = Entered(o, s) /\ Left(o, s)' = Left(o, s)
                               /\ Now(o, s)' = Now(o, s)
                               /\ Targets(o, s)' = Targets(o, s) /\ Olds(o, s)' = Olds(o, s)
      BY <2>1, <2>2, BalanceParts
         DEF LogInv, CreatedHere, Entered, Left, IsChange, Now, Targets, Olds
    <2> QED
      BY <2>2, <2>3 DEF LogInv, FewOwe, Balanced
  <1>10. IsFiniteSet(Owing(b)) /\ Balanced(b)
    BY BalanceParts DEF LogInv, FewOwe
  <1>11. /\ Owing(b)' = Owing(b) \ {t} /\ \A u \in Owing(b)' : loc'[u] = loc[u]
         /\ t \in Owing(b) <=> loc[t].event = "status_changed"
    BY <1>T, <1>0, <1>6, <1>7 DEF Owing, OwesAt
  <1>12. IsFiniteSet(Owing(b)')
    BY <1>10, <1>11, FS_RemoveElement
  <1>13. CreatedHere(b)' => CreatedHere(b)
    <2>1. audit[b] \in Seq(Entry) /\ audit'[b] = Append(audit[b], e)
      BY <1>T, <1>2 DEF TypeOK
    <2>2. audit[b] = <<>> => audit'[b][1] = e
      BY <1>1, <2>1
    <2>3. audit[b] # <<>> => audit'[b][1] = audit[b][1]
      BY <1>1, <2>1
    <2> QED
      BY <1>1, <1>5, <2>2, <2>3 DEF CreatedHere
  <1>14. Balanced(b)'
    <2> SUFFICES ASSUME CreatedHere(b)', NEW s \in States
                 PROVE  Cardinality(Entered(b, s)') + Cardinality(Targets(b, s)')
                          = Cardinality(Left(b, s)') + Cardinality(Olds(b, s)') + Now(b, s)'
      BY DEF Balanced
    <2>1. Cardinality(Entered(b, s)) + Cardinality(Targets(b, s))
            = Cardinality(Left(b, s)) + Cardinality(Olds(b, s)) + Now(b, s)
      BY <1>10, <1>13 DEF Balanced
    <2>2. /\ IsFiniteSet(Entered(b, s)) /\ IsFiniteSet(Left(b, s))
          /\ IsFiniteSet(Targets(b, s)) /\ IsFiniteSet(Olds(b, s))
          /\ Cardinality(Entered(b, s)) \in Nat /\ Cardinality(Left(b, s)) \in Nat
          /\ Cardinality(Targets(b, s)) \in Nat /\ Cardinality(Olds(b, s)) \in Nat
      BY <1>T, <1>10, CountTypes
    <2>3. Now(b, s)' = Now(b, s) /\ Now(b, s) \in {0, 1}
      BY <1>T DEF Now
    <2>4. /\ Len(audit[b]) + 1 \notin Entered(b, s) \cup Left(b, s)
          /\ Entered(b, s)' = IF IsChange(e) /\ e.to = s
                              THEN Entered(b, s) \cup {Len(audit[b]) + 1} ELSE Entered(b, s)
          /\ Left(b, s)' = IF e.event = "status_changed" /\ e.from = s
                           THEN Left(b, s) \cup {Len(audit[b]) + 1} ELSE Left(b, s)
      BY <1>T, <1>1, <1>2, AppendCounts
    <2>5. Targets(b, s)' = Targets(b, s) \ {t} /\ Olds(b, s)' = Olds(b, s) \ {t}
      BY <1>11 DEF Targets, Olds
    <2>6. /\ t \in Targets(b, s) <=> (loc[t].event = "status_changed" /\ loc[t].target = s)
          /\ t \in Olds(b, s) <=> (loc[t].event = "status_changed" /\ loc[t].old = s)
      BY <1>11 DEF Targets, Olds
    <2>7. IsChange(e) <=> loc[t].event = "status_changed"
      BY <1>1, <1>5 DEF IsChange
    <2>8. Cardinality(Entered(b, s)') + Cardinality(Targets(b, s)')
            = Cardinality(Entered(b, s)) + Cardinality(Targets(b, s))
      <3>1. CASE loc[t].event = "status_changed" /\ loc[t].target = s
        <4>1. Entered(b, s)' = Entered(b, s) \cup {Len(audit[b]) + 1} /\ t \in Targets(b, s)
          BY <1>1, <2>4, <2>6, <2>7, <3>1
        <4>2. Cardinality(Entered(b, s)') = Cardinality(Entered(b, s)) + 1
          BY <2>2, <2>4, <4>1, FS_AddElement
        <4>3. Cardinality(Targets(b, s)') = Cardinality(Targets(b, s)) - 1
          BY <2>2, <2>5, <4>1, FS_RemoveElement, ZenonT(40)
        <4> QED
          BY <2>2, <4>2, <4>3
      <3>2. CASE ~(loc[t].event = "status_changed" /\ loc[t].target = s)
        <4>1. Entered(b, s)' = Entered(b, s)
          BY <1>1, <2>4, <2>7, <3>2
        <4>2. Targets(b, s)' = Targets(b, s)
          BY <2>5, <2>6, <3>2
        <4> QED
          BY <4>1, <4>2
      <3> QED
        BY <3>1, <3>2
    <2>9. Cardinality(Left(b, s)') + Cardinality(Olds(b, s)')
            = Cardinality(Left(b, s)) + Cardinality(Olds(b, s))
      <3>1. CASE loc[t].event = "status_changed" /\ loc[t].old = s
        <4>1. Left(b, s)' = Left(b, s) \cup {Len(audit[b]) + 1} /\ t \in Olds(b, s)
          BY <1>1, <2>4, <2>6, <3>1
        <4>2. Cardinality(Left(b, s)') = Cardinality(Left(b, s)) + 1
          BY <2>2, <2>4, <4>1, FS_AddElement
        <4>3. Cardinality(Olds(b, s)') = Cardinality(Olds(b, s)) - 1
          BY <2>2, <2>5, <4>1, FS_RemoveElement, ZenonT(40)
        <4> QED
          BY <2>2, <4>2, <4>3
      <3>2. CASE ~(loc[t].event = "status_changed" /\ loc[t].old = s)
        <4>1. Left(b, s)' = Left(b, s)
          BY <1>1, <2>4, <3>2
        <4>2. Olds(b, s)' = Olds(b, s)
          BY <2>5, <2>6, <3>2
        <4> QED
          BY <4>1, <4>2
      <3> QED
        BY <3>1, <3>2
    <2> QED
      BY <2>1, <2>3, <2>8, <2>9
  <1>15. \A o \in Objects : IsFiniteSet(Owing(o)') /\ Balanced(o)'
    BY <1>9, <1>12, <1>14
  <1>16. FewOwe' /\ LogBalancesStatus'
    BY <1>15 DEF FewOwe, LogBalancesStatus, Balanced, Targets, Olds, Now
  <1> QED
    BY <1>8, <1>16 DEF LogInv

(* A new object starts balanced: in the state its first entry tells.        *)
LEMMA CreateBalance ==
  ASSUME {"old", "write"} \subseteq Unpreempted, TypeInv, Numbered, LogInv,
         NEW t \in Threads, NEW k \in Tasks, Creates(t, k)
  PROVE  LogInv'
  <1>T. TypeOK
    BY DEF TypeInv
  <1>1. PICK state \in {"submitted", "working", "confirmation_pending"},
             entries \in {<<>>} \cup {Created(s) : s \in States}, l \in Local :
               /\ entries \in {<<>>, Created(state)}
               /\ l.then = "note" => l.event \in Notes
               /\ l.task = k /\ CreateTask(t, k, state, entries, l)
    BY DEF Creates
  <1>2. pc[t] = "idle" /\ \A u \in Threads \ {t} : pc[u] # "write"
    <2>1. Accept(t)
      BY <1>1 DEF CreateTask
    <2> QED
      BY <2>1 DEF Accept, MayRun
  <1>3. ~OwesAt(pc[t], loc[t])
    BY <1>2 DEF OwesAt
  <1>4. CASE table[k] # 0
    <2> DEFINE m == [l EXCEPT !.obj = table[k]]
               n == [m EXCEPT !.then = "done"]
    <2>1. m \in Local /\ m.then = l.then /\ n.then = "done" /\ n.event = l.event
      BY <1>T DEF TypeOK, Local, Then
    <2>2. \/ m.then = "note" /\ Goto(t, "auditSeq", n)
          \/ Goto(t, "idle", NoLocal)
      BY <1>1, <1>4 DEF CreateTask
    <2>3. UNCHANGED <<status, audit>>
      BY <1>1, <1>4 DEF CreateTask
    <2> HIDE DEF m, n
    <2>4. CASE m.then = "note" /\ Goto(t, "auditSeq", n)
      <3>1. ~OwesAt("auditSeq", n)
        BY <1>1, <2>1, <2>4 DEF OwesAt, Notes
      <3>2. Same(t)
        BY <1>T, <1>3, <2>4, <3>1 DEF Same, Goto, TypeOK
      <3> QED
        BY <2>1, <2>3, <2>4, <3>2, QuietGoto
    <2>5. CASE Goto(t, "idle", NoLocal)
      <3>1. Same(t)
        BY <1>T, <1>3, <2>5 DEF Same, OwesAt, Goto, TypeOK
      <3> QED
        BY <2>3, <2>5, <3>1, NoLocalType, QuietGoto
    <2> QED
      BY <2>2, <2>4, <2>5
  <1>5. CASE table[k] = 0
    <2> DEFINE m == [l EXCEPT !.obj = requests + 1, !.target = state]
    <2>1. PICK b \in Objects : b = requests + 1
      BY <1>1, <1>T, TaskAssumption DEF CreateTask, Accept, TypeOK, Objects
    <2>2. Goto(t, "storing", m)
      BY <1>1, <1>5 DEF CreateTask
    <2>3. m.then = l.then /\ m.event = l.event
      BY DEF Local
    <2> HIDE DEF m
    <2>4. /\ pc'[t] = "storing" /\ loc'[t] = m
          /\ \A u \in Threads \ {t} : pc'[u] = pc[u] /\ loc'[u] = loc[u]
      BY <1>T, <2>2 DEF Goto, TypeOK
    <2>5. status' = [status EXCEPT ![b] = state] /\ audit' = [audit EXCEPT ![b] = entries]
      BY <1>1, <1>5, <2>1 DEF CreateTask
    <2>6. \A u \in Threads : loc[u].obj # b
      BY <1>T, <2>1 DEF Numbered, TypeOK, Local
    <2>7. OldIsStatus' /\ NotesFit'
      <3>1. \A u \in Threads : pc'[u] # "write"
        BY <1>2, <2>4
      <3> QED
        BY <1>1, <2>3, <2>4, <3>1 DEF LogInv, OldIsStatus, NotesFit
    <2>8. \A u \in Threads : Same(u)
      BY <1>3, <2>4 DEF Same, OwesAt
    <2>9. ASSUME NEW o \in Objects, o # b PROVE IsFiniteSet(Owing(o)') /\ Balanced(o)'
      <3>1. audit'[o] = audit[o] /\ status'[o] = status[o]
        BY <1>T, <2>5, <2>9 DEF TypeOK
      <3> QED
        BY <2>8, <3>1, SameBalance DEF LogInv
    <2>10. Owing(b)' = {}
      BY <2>4, <2>6, <1>2 DEF Owing
    <2>11. audit'[b] = entries /\ status'[b] = state
      BY <1>T, <2>5 DEF TypeOK
    <2>12. Balanced(b)'
      <3> SUFFICES ASSUME CreatedHere(b)', NEW s \in States
                   PROVE  Cardinality(Entered(b, s)') + Cardinality(Targets(b, s)')
                            = Cardinality(Left(b, s)') + Cardinality(Olds(b, s)') + Now(b, s)'
        BY DEF Balanced
      <3>1. audit'[b] = <<[event |-> "created", seq |-> 0, from |-> state, to |-> state]>>
        BY <1>1, <2>11 DEF CreatedHere, Created
      <3>2. Entered(b, s)' = IF state = s THEN {1} ELSE {}
        BY <3>1 DEF Entered, IsChange
      <3>3. Left(b, s)' = {} /\ Targets(b, s)' = {} /\ Olds(b, s)' = {}
        BY <2>10, <3>1 DEF Left, Targets, Olds
      <3>4. Now(b, s)' = IF state = s THEN 1 ELSE 0
        BY <2>11 DEF Now
      <3>5. Cardinality(Entered(b, s)') = IF state = s THEN 1 ELSE 0
        BY <3>2, FS_EmptySet, FS_Singleton
      <3> QED
        BY <3>3, <3>4, <3>5, FS_EmptySet
    <2>13. IsFiniteSet(Owing(b)')
      BY <2>10, FS_EmptySet
    <2>14. \A o \in Objects : IsFiniteSet(Owing(o)') /\ Balanced(o)'
      BY <2>9, <2>12, <2>13
    <2>15. FewOwe' /\ LogBalancesStatus'
      BY <2>14 DEF FewOwe, LogBalancesStatus, Balanced, Targets, Olds, Now
    <2> QED
      BY <2>7, <2>15 DEF LogInv
  <1> QED
    BY <1>4, <1>5

(* Every step keeps the log balanced.                                       *)
LEMMA LogStep ==
  ASSUME {"old", "write"} \subseteq Unpreempted, TypeInv, Numbered, LogInv, [Next]_vars
  PROVE  LogInv'
  <1>T. TypeOK
    BY DEF TypeInv
  <1>L. \A t \in Threads : loc[t] \in Local
    BY <1>T DEF TypeOK
  <1>G. ASSUME NEW t \in Threads, NEW p, NEW l, Goto(t, p, l), UNCHANGED <<status, audit>>,
               pc[t] \notin {"auditSeq", "auditAppend"}, ~OwesAt(p, l),
               p = "write" => l.old = status[l.obj],
               l.then = "note" => p \in {"storing", "announce"} /\ l.event \in Notes
        PROVE  LogInv'
    <2>1. pc'[t] = p /\ loc'[t] = l
      BY <1>G, <1>T DEF Goto, TypeOK
    <2>2. Same(t)
      BY <1>G, <2>1 DEF Same, OwesAt
    <2> QED
      BY <1>G, <2>2, QuietGoto
  <1>R. ASSUME NEW t \in Threads, Return(t), UNCHANGED <<status, audit>>,
               pc[t] \notin {"auditSeq", "auditAppend"}
        PROVE  LogInv'
    BY <1>R, QuietReturn DEF OwesAt
  <1>N. \A t \in Threads : loc[t].then = "note" => pc[t] \in {"storing", "announce"} /\ loc[t].event \in Notes
    BY DEF LogInv, NotesFit
  <1>1. ASSUME NEW t \in Threads, NEW k \in Tasks, Creates(t, k)
        PROVE  LogInv'
    BY <1>1, CreateBalance
  <1>2. ASSUME NEW t \in Threads, NEW k \in Tasks, Calls(t, k)
        PROVE  LogInv'
    <2>1. PICK s \in States, then \in {"done", "spawn"} : CallUpdate(t, k, s, then)
      BY <1>2 DEF Calls
    <2> DEFINE m == [NoLocal EXCEPT !.task = k, !.target = s, !.then = then]
    <2>2. m.then = then
      BY NoLocalType DEF Local, Then
    <2>3. Goto(t, "get", m) /\ UNCHANGED <<status, audit>> /\ pc[t] = "idle"
      BY <2>1 DEF CallUpdate, Accept
    <2> HIDE DEF m
    <2> QED
      BY <1>G, <2>2, <2>3 DEF OwesAt
  <1>3. ASSUME NEW t \in Threads, NEW k \in Tasks, Decides(t, k)
        PROVE  LogInv'
    <2>1. PICK e \in Decisions, s \in States : table[k] # 0 /\ Decide(t, k, e, s)
      BY <1>3 DEF Decides
    <2> DEFINE m == [NoLocal EXCEPT !.task = k, !.obj = table[k], !.target = s, !.event = e]
    <2>2. m.event = e /\ m.then = "done" /\ e # "status_changed"
      BY <1>T, NoLocalType DEF Local, TypeOK, Decisions, Events
    <2>3. Goto(t, "auditSeq", m) /\ UNCHANGED <<status, audit>> /\ pc[t] = "idle"
      BY <2>1 DEF Decide, Accept
    <2> HIDE DEF m
    <2> QED
      BY <1>G, <2>2, <2>3 DEF OwesAt
  <1>4. ASSUME NEW t \in Threads, SyncOutcome(t)
        PROVE  LogInv'
    <2>1. UNCHANGED <<status, audit>> /\ pc[t] = "awaiting"
      BY <1>4 DEF SyncOutcome
    <2>2. CASE Goto(t, "idle", NoLocal)
      BY <1>G, <2>1, <2>2, NoLocalType DEF OwesAt
    <2>3. ASSUME NEW s \in {"completed", "failed"},
                 Goto(t, "get", [loc[t] EXCEPT !.target = s, !.then = "done"])
          PROVE  LogInv'
      <3> DEFINE m == [loc[t] EXCEPT !.target = s, !.then = "done"]
      <3>1. m.then = "done"
        BY <1>L DEF Local, Then, States, Terminal
      <3>2. Goto(t, "get", m)
        BY <2>3
      <3> HIDE DEF m
      <3> QED
        BY <1>G, <2>1, <3>1, <3>2 DEF OwesAt
    <2> QED
      BY <1>4, <2>2, <2>3 DEF SyncOutcome
  <1>5. ASSUME NEW t \in Threads, StoreTask(t)
        PROVE  LogInv'
    BY <1>5, <1>G, <1>N DEF StoreTask, OwesAt
  <1>6. ASSUME NEW t \in Threads, GetTask(t)
        PROVE  LogInv'
    <2> DEFINE m == [loc[t] EXCEPT !.obj = table[loc[t].task]]
    <2>1. m.then = loc[t].then
      BY <1>L DEF Local
    <2>2. Return(t) \/ Goto(t, "guard", m)
      BY <1>6 DEF GetTask
    <2>3. UNCHANGED <<status, audit>> /\ pc[t] = "get"
      BY <1>6 DEF GetTask
    <2> HIDE DEF m
    <2>4. m.then # "note"
      BY <1>N, <2>1, <2>3
    <2> QED
      BY <1>R, <1>G, <2>2, <2>3, <2>4 DEF OwesAt
  <1>7. ASSUME NEW t \in Threads, GuardTerminal(t)
        PROVE  LogInv'
    <2>1. Return(t) \/ Goto(t, "old", loc[t])
      BY <1>7 DEF GuardTerminal
    <2>2. UNCHANGED <<status, audit>> /\ pc[t] = "guard" /\ loc[t].then # "note"
      BY <1>7, <1>N DEF GuardTerminal
    <2> QED
      BY <1>R, <1>G, <2>1, <2>2 DEF OwesAt
  <1>8. ASSUME NEW t \in Threads, ReadOld(t)
        PROVE  LogInv'
    <2> DEFINE m == [loc[t] EXCEPT !.old = status[loc[t].obj]]
    <2>1. m.then = loc[t].then /\ m.old = status[m.obj]
      BY <1>L DEF Local
    <2>2. Goto(t, "write", m) /\ UNCHANGED <<status, audit>> /\ pc[t] = "old"
      BY <1>8 DEF ReadOld
    <2> HIDE DEF m
    <2>3. m.then # "note"
      BY <1>N, <2>1, <2>2
    <2> QED
      BY <1>G, <2>1, <2>2, <2>3 DEF OwesAt
  <1>9. ASSUME NEW t \in Threads, WriteStatus(t)
        PROVE  LogInv'
    BY <1>9, WriteBalance
  <1>10. ASSUME NEW t \in Threads, AuditSeq(t)
         PROVE  LogInv'
    <2> DEFINE m == [loc[t] EXCEPT !.seq = Len(audit[loc[t].obj])]
    <2>1. /\ m.then = loc[t].then /\ m.event = loc[t].event /\ m.obj = loc[t].obj
          /\ m.target = loc[t].target /\ m.old = loc[t].old
      BY <1>L DEF Local
    <2>2. Goto(t, "auditAppend", m) /\ UNCHANGED <<status, audit>> /\ pc[t] = "auditSeq"
      BY <1>10 DEF AuditSeq
    <2> HIDE DEF m
    <2>3. m.then # "note"
      BY <1>N, <2>1, <2>2
    <2>4. pc'[t] = "auditAppend" /\ loc'[t] = m
      BY <1>T, <2>2 DEF Goto, TypeOK
    <2>5. Same(t)
      BY <2>1, <2>2, <2>4 DEF Same, OwesAt
    <2> QED
      BY <2>2, <2>3, <2>5, QuietGoto
  <1>11. ASSUME NEW t \in Threads, AuditAppend(t)
         PROVE  LogInv'
    BY <1>11, AppendBalance
  <1>12. ASSUME NEW t \in Threads, Announce(t)
         PROVE  LogInv'
    BY <1>12, <1>R DEF Announce
  <1>13. ASSUME NEW t \in Threads, SpawnCanceller(t)
         PROVE  LogInv'
    <2>1. PICK c \in Cancellers :
            /\ pc[c] = "unstarted"
            /\ pc' = [pc EXCEPT ![t] = "idle", ![c] = "sleeping"]
            /\ loc' = [loc EXCEPT ![t] = NoLocal, ![c] = [NoLocal EXCEPT !.task = loc[t].task]]
      BY <1>13 DEF SpawnCanceller
    <2> DEFINE m == [NoLocal EXCEPT !.task = loc[t].task]
    <2>2. m.then = "done"
      BY NoLocalType DEF Local
    <2>3. c \in Threads /\ pc[t] = "spawn" /\ UNCHANGED <<status, audit>>
      BY <1>13 DEF Threads, SpawnCanceller
    <2>4. ASSUME NEW u \in Threads
          PROVE  \/ pc'[u] = pc[u] /\ loc'[u] = loc[u]
                 \/ pc[u] \in {"spawn", "unstarted"} /\ pc'[u] \in {"idle", "sleeping"} /\ loc'[u].then = "done"
      <3>1. pc'[u] = IF u = c THEN "sleeping" ELSE IF u = t THEN "idle" ELSE pc[u]
        BY <1>T, <2>1, <2>3 DEF TypeOK
      <3>2. loc'[u] = IF u = c THEN m ELSE IF u = t THEN NoLocal ELSE loc[u]
        BY <1>T, <2>1, <2>3 DEF TypeOK
      <3> HIDE DEF m
      <3> QED
        BY <2>1, <2>2, <2>3, <3>1, <3>2, NoLocalType
    <2>5. OldIsStatus' /\ NotesFit'
      BY <2>3, <2>4 DEF LogInv, OldIsStatus, NotesFit
    <2>6. \A u \in Threads : Same(u)
      BY <2>4 DEF Same, OwesAt
    <2>7. \A o \in Objects : IsFiniteSet(Owing(o)') /\ Balanced(o)'
      BY <2>3, <2>6, SameBalance DEF LogInv
    <2>8. FewOwe' /\ LogBalancesStatus'
      BY <2>7 DEF FewOwe, LogBalancesStatus, Balanced, Targets, Olds, Now
    <2> QED
      BY <2>5, <2>8 DEF LogInv
  <1>14. ASSUME NEW c \in Cancellers, FinishCancel(c)
         PROVE  LogInv'
    <2> DEFINE m == [loc[c] EXCEPT !.target = "canceled"]
    <2>1. c \in Threads
      BY DEF Threads
    <2>2. m.then = loc[c].then
      BY <1>L, <2>1 DEF Local, States, Terminal
    <2>3. UNCHANGED <<status, audit>> /\ pc[c] = "sleeping" /\ Goto(c, "get", m)
      BY <1>14 DEF FinishCancel
    <2> HIDE DEF m
    <2>4. m.then # "note"
      BY <1>N, <2>1, <2>2, <2>3
    <2> QED
      BY <1>G, <2>1, <2>3, <2>4 DEF OwesAt
  <1>15. CASE UNCHANGED vars
    BY <1>15 DEF vars, LogInv, OldIsStatus, NotesFit, FewOwe, LogBalancesStatus,
                 Owing, CreatedHere, Entered, Left, IsChange
  <1> QED
    BY <1>1, <1>2, <1>3, <1>4, <1>5, <1>6, <1>7, <1>8, <1>9, <1>10, <1>11, <1>12, <1>13,
       <1>14, <1>15, StepForms DEF Run

(* At the start no log is written and nothing is owed.                      *)
LEMMA LogInit == Init => LogInv
  <1> SUFFICES ASSUME Init PROVE LogInv
    OBVIOUS
  <1>1. OldIsStatus /\ NotesFit
    BY NoLocalType DEF Init, OldIsStatus, NotesFit
  <1>2. \A o \in Objects : Owing(o) = {} /\ ~CreatedHere(o)
    BY DEF Init, Owing, CreatedHere
  <1>3. FewOwe
    BY <1>2, FS_EmptySet DEF FewOwe
  <1>4. LogBalancesStatus
    BY <1>2, BalanceParts DEF Balanced
  <1> QED
    BY <1>1, <1>3, <1>4 DEF LogInv

(* Where the interpreter does not switch threads between the guard and the  *)
(* write of _update_task, the log of every task built with one and its      *)
(* status agree up to the entries still to be written, in every             *)
(* interleaving: no transition is lost, logged twice or from a wrong state. *)
THEOREM LogBalances ==
  ASSUME {"old", "write"} \subseteq Unpreempted
  PROVE  Spec => []LogBalancesStatus
  <1>1. Init => TypeInv
    BY NoLocalType, TaskAssumption
       DEF Init, TypeInv, TypeOK, HasObject, NeedsObject, WithObject, States, Points, Resting
  <1>2. Init => Numbered /\ GuardHolds
    BY NoLocalType DEF Init, Numbered, GuardHolds, Terminal
  <1>3. Init => LogInv
    BY LogInit
  <1>4. TypeInv /\ Numbered /\ GuardHolds /\ [Next]_vars => Numbered' /\ GuardHolds'
    BY ReactivationStep
  <1>5. TypeInv /\ Numbered /\ LogInv /\ [Next]_vars => LogInv'
    BY LogStep
  <1>6. LogInv => LogBalancesStatus
    BY DEF LogInv
  <1> QED
    BY <1>1, <1>2, <1>3, <1>4, <1>5, <1>6, TypeStep, PTL DEF Spec

-----------------------------------------------------------------------------
(* Requests that do not overlap.                                            *)

(* A thread at p with locals l works on the object of its task; what it     *)
(* announces or owes the log is the status; the decision it logs is one     *)
(* that _update_task will carry out.                                        *)
OnTask == {"guard", "old", "write", "auditSeq", "auditAppend", "announce"}
HereAt(p, l) ==
  /\ p = "storing" => l.target = status[l.obj] /\ \A k \in Tasks : table[k] # l.obj
  /\ p \in OnTask => l.obj = table[l.task]
  /\ p = "announce" \/ OwesAt(p, l) => l.target = status[l.obj]
  /\ p \in {"auditSeq", "auditAppend"} /\ l.event \in Decisions =>
       status[l.obj] \notin Terminal \cup {l.target}
Here(t) == HereAt(pc[t], loc[t])

(* It is on its way to the transition of object o to s that was decided on, *)
(* or to the status event of task k.                                        *)
BringsAt(p, l, o, s) ==
  /\ table[l.task] = o /\ l.target = s
  /\ \/ p \in {"get", "guard", "old"} /\ status[o] \notin Terminal \cup {s}
     \/ p = "write" /\ l.old # s
     \/ OwesAt(p, l)
Brings(t, o, s) == BringsAt(pc[t], loc[t], o, s)
TellsAt(p, l, k) == l.task = k /\ (p = "announce" \/ OwesAt(p, l))
Tells(t, k) == TellsAt(pc[t], loc[t], k)

Followed(log, i) ==
  i + 1 \in DOMAIN log /\ log[i + 1].event = "status_changed" /\ log[i + 1].to = log[i].to
Effect(o) ==
  \A i \in DOMAIN audit[o] : audit[o][i].event \in Decisions =>
    \/ Followed(audit[o], i)
    \/ i = Len(audit[o]) /\ \E t \in Threads : Brings(t, o, audit[o][i].to)
Current(k) == shown[k] # <<>> /\ shown[k][Len(shown[k])] = status[table[k]]
Told(k) == table[k] # 0 => Current(k) \/ \E t \in Threads : Tells(t, k)

(* One thread at a time is in a handler, and no two tasks are one object.   *)
Alone == \A t, u \in Threads : pc[t] \in Points /\ pc[u] \in Points => t = u
OneTaskEach == \A j, k \in Tasks : table[j] = table[k] /\ table[j] # 0 => j = k

SerialInv ==
  /\ Alone /\ OneTaskEach
  /\ \A t \in Threads : Here(t)
  /\ \A o \in Objects : Effect(o)
  /\ \A k \in Tasks : Told(k)

(* Outside handlers nothing is claimed of a thread, nor expected of it.     *)
LEMMA OutsideHandlers ==
  ASSUME NEW p, p \notin Points, NEW l
  PROVE  HereAt(p, l) /\ (\A o, s : ~BringsAt(p, l, o, s)) /\ (\A k : ~TellsAt(p, l, k))
  BY DEF HereAt, OnTask, BringsAt, TellsAt, OwesAt, Points

(* The same of where it is after a step.                                    *)
LEMMA OutsideHandlersThen ==
  ASSUME NEW t, pc'[t] \notin Points
  PROVE  Here(t)' /\ (\A o, s : ~Brings(t, o, s)') /\ (\A k : ~Tells(t, k)')
  BY DEF Here, Brings, Tells, HereAt, OnTask, BringsAt, TellsAt, OwesAt, Points

(* While a thread moves on all others are outside handlers, and stay there. *)
LEMMA AloneGoto ==
  ASSUME Unpreempted = Points, TypeOK, Alone, NEW t \in Threads, NEW p, NEW l,
         MayRun(t), Goto(t, p, l)
  PROVE  /\ Alone' /\ pc'[t] = p /\ loc'[t] = l
         /\ \A u \in Threads \ {t} : /\ pc[u] \notin Points /\ pc'[u] = pc[u]
                                     /\ Here(u)'
                                     /\ \A o, s : ~Brings(u, o, s)
                                     /\ \A k : ~Tells(u, k)
  <1>1. pc'[t] = p /\ loc'[t] = l
    BY DEF Goto, TypeOK
  <1>2. ASSUME NEW u \in Threads \ {t}
        PROVE  pc[u] \notin Points /\ pc'[u] = pc[u]
    BY <1>2 DEF Goto, TypeOK, MayRun
  <1>3. Alone'
    BY <1>2 DEF Alone
  <1> QED
    BY <1>1, <1>2, <1>3, OutsideHandlers, OutsideHandlersThen DEF Brings, Tells

(* A thread that moves on without touching anything that is shared keeps on *)
(* to what is expected of it, or has done it.                               *)
LEMMA QuietSerial ==
  ASSUME Unpreempted = Points, TypeOK, SerialInv, NEW t \in Threads, NEW p, NEW l,
         MayRun(t), Goto(t, p, l), UNCHANGED <<table, status, audit, shown>>,
         HereAt(p, l),
         \A o \in Objects, s \in States : Brings(t, o, s) => BringsAt(p, l, o, s),
         \A k \in Tasks : Tells(t, k) => TellsAt(p, l, k) \/ Current(k)
  PROVE  SerialInv'
  <1>1. Alone' /\ pc'[t] = p /\ loc'[t] = l
    BY AloneGoto DEF SerialInv
  <1>2. ASSUME NEW u \in Threads \ {t}
        PROVE  Here(u)' /\ (\A o, s : ~Brings(u, o, s)) /\ (\A k : ~Tells(u, k))
    BY <1>2, AloneGoto DEF SerialInv
  <1>3. Here(t)'
    BY <1>1 DEF Here, HereAt, OwesAt
  <1>4. ASSUME NEW o \in Objects PROVE Effect(o)'
    <2> SUFFICES ASSUME NEW i \in DOMAIN audit[o], audit[o][i].event \in Decisions, ~Followed(audit[o], i)
                 PROVE  i = Len(audit[o]) /\ Brings(t, o, audit[o][i].to)'
      BY DEF Effect, Followed
    <2>1. audit[o][i].to \in States
      <3>1. audit[o] \in Seq(Entry)
        BY DEF TypeOK
      <3>2. audit[o][i] \in Entry
        BY <3>1
      <3> QED
        BY <3>2 DEF Entry
    <2>2. i = Len(audit[o]) /\ Brings(t, o, audit[o][i].to)
      BY <1>2 DEF SerialInv, Effect
    <2>3. BringsAt(p, l, o, audit[o][i].to)
      BY <2>1, <2>2
    <2> QED
      BY <1>1, <2>2, <2>3 DEF Brings, BringsAt, OwesAt
  <1>5. ASSUME NEW k \in Tasks PROVE Told(k)'
    <2>1. CASE Tells(t, k) /\ ~Current(k)
      <3>1. TellsAt(p, l, k)
        BY <2>1
      <3>2. Tells(t, k)'
        BY <1>1, <3>1 DEF Tells, TellsAt, OwesAt
      <3> QED
        BY <3>2 DEF Told
    <2>2. CASE Current(k) \/ ~Tells(t, k)
      <3>1. table[k] # 0 => Current(k)
        BY <1>2, <2>2 DEF SerialInv, Told
      <3> QED
        BY <3>1 DEF Told, Current
    <2> QED
      BY <2>1, <2>2
  <1>6. OneTaskEach'
    BY DEF SerialInv, OneTaskEach
  <1> QED
    BY <1>1, <1>2, <1>3, <1>4, <1>5, <1>6 DEF SerialInv

(* A call that returns leads to the next one, or to a note in the log of    *)
(* the task that was announced.                                             *)
LEMMA ReturnHere ==
  ASSUME TypeOK, NotesFit, NEW t \in Threads, Here(t), pc[t] # "storing"
  PROVE  /\ HereAt(AfterPoint(t), AfterLocal(t)) /\ AfterPoint(t) \notin {"storing", "announce"}
         /\ AfterPoint(t) \in {"auditSeq", "auditAppend"} =>
              /\ pc[t] = "announce" /\ AfterPoint(t) = "auditSeq"
              /\ AfterLocal(t).event \in Notes /\ AfterLocal(t).obj = loc[t].obj
              /\ AfterLocal(t).task = loc[t].task
  <1>1. loc[t] \in Local /\ loc[t].then \in Then
    BY DEF TypeOK, Local
  <1>2. CASE loc[t].then = "note"
    <2>1. AfterPoint(t) = "auditSeq" /\ AfterLocal(t) = [loc[t] EXCEPT !.then = "done"]
      BY <1>2 DEF AfterPoint, AfterLocal
    <2>2. /\ AfterLocal(t).event = loc[t].event /\ AfterLocal(t).obj = loc[t].obj
          /\ AfterLocal(t).task = loc[t].task
      BY <1>1, <2>1 DEF Local
    <2>3. pc[t] = "announce" /\ loc[t].event \in Notes
      BY <1>2 DEF NotesFit
    <2>4. loc[t].obj = table[loc[t].task]
      BY <2>3 DEF Here, HereAt, OnTask
    <2> QED
      BY <2>1, <2>2, <2>3, <2>4 DEF HereAt, OwesAt, Notes, Decisions
  <1>3. CASE loc[t].then # "note"
    <2>1. AfterPoint(t) \in {"spawn", "get", "awaiting", "unstarted", "idle"}
      BY <1>1, <1>3 DEF AfterPoint, Then
    <2> QED
      BY <2>1 DEF HereAt, OnTask, OwesAt
  <1> QED
    BY <1>2, <1>3

(* It is such a step if nothing was expected of the call any more.          *)
LEMMA ReturnSerial ==
  ASSUME Unpreempted = Points, TypeOK, NotesFit, SerialInv, NEW t \in Threads,
         MayRun(t), Return(t), UNCHANGED <<table, status, audit, shown>>,
         pc[t] \notin {"storing", "announce"}, ~OwesAt(pc[t], loc[t]),
         \A o \in Objects, s \in States : ~Brings(t, o, s)
  PROVE  SerialInv'
  <1>1. HereAt(AfterPoint(t), AfterLocal(t))
    BY ReturnHere DEF SerialInv
  <1>2. \A k \in Tasks : ~Tells(t, k)
    BY DEF Tells, TellsAt
  <1>3. Goto(t, AfterPoint(t), AfterLocal(t))
    BY DEF Return
  <1> QED
    BY <1>1, <1>2, <1>3, QuietSerial

(* A new object's log holds no decision, and it is in no table yet.         *)
LEMMA CreateSerial ==
  ASSUME Unpreempted = Points, TypeInv, Numbered, SerialInv,
         NEW t \in Threads, NEW k \in Tasks, Creates(t, k)
  PROVE  SerialInv'
  <1>T. TypeOK
    BY DEF TypeInv
  <1>1. PICK state \in {"submitted", "working", "confirmation_pending"},
             entries \in {<<>>} \cup {Created(s) : s \in States}, l \in Local :
               /\ entries \in {<<>>, Created(state)}
               /\ l.then = "note" => l.event \in Notes
               /\ l.task = k /\ CreateTask(t, k, state, entries, l)
    BY DEF Creates
  <1>2. MayRun(t) /\ pc[t] = "idle" /\ requests' = requests + 1 /\ requests < MaxRequests
    BY <1>1 DEF CreateTask, Accept
  <1>3. (\A o, s : ~Brings(t, o, s)) /\ (\A j : ~Tells(t, j))
    BY <1>2, OutsideHandlers DEF Brings, Tells, Points
  <1>4. CASE table[k] # 0
    <2> DEFINE m == [l EXCEPT !.obj = table[k]]
               n == [m EXCEPT !.then = "done"]
    <2>1. m.then = l.then /\ n.event = l.event /\ n.obj = table[k] /\ n.task = k
      BY <1>1 DEF Local
    <2>2. /\ UNCHANGED <<table, status, audit, shown>>
          /\ \/ m.then = "note" /\ Goto(t, "auditSeq", n)
             \/ Goto(t, "idle", NoLocal)
      BY <1>1, <1>4 DEF CreateTask
    <2> HIDE DEF m, n
    <2>3. CASE Goto(t, "idle", NoLocal)
      <3>1. HereAt("idle", NoLocal)
        BY OutsideHandlers DEF Points
      <3> QED
        BY <1>T, <1>2, <1>3, <2>2, <2>3, <3>1, QuietSerial
    <2>4. CASE m.then = "note" /\ Goto(t, "auditSeq", n)
      <3>1. HereAt("auditSeq", n)
        BY <1>1, <2>1, <2>4 DEF HereAt, OnTask, OwesAt, Notes, Decisions
      <3> QED
        BY <1>T, <1>2, <1>3, <2>2, <2>4, <3>1, QuietSerial
    <2> QED
      BY <2>2, <2>3, <2>4
  <1>5. CASE table[k] = 0
    <2> DEFINE n == requests + 1
               m == [l EXCEPT !.obj = n, !.target = state]
    <2>1. n \in Objects /\ requests \in Nat
      BY <1>T, <1>2, TaskAssumption DEF TypeOK, Objects
    <2>2. /\ status' = [status EXCEPT ![n] = state] /\ audit' = [audit EXCEPT ![n] = entries]
          /\ Goto(t, "storing", m) /\ UNCHANGED <<table, shown>>
      BY <1>1, <1>5 DEF CreateTask
    <2>3. m.obj = n /\ m.target = state
      BY <1>1 DEF Local
    <2>4. \A j \in Tasks : table[j] # n
      BY <1>T, <2>1 DEF Numbered, TypeOK
    <2>5. status'[n] = state /\ \A o \in Objects \ {n} : status'[o] = status[o] /\ audit'[o] = audit[o]
      BY <1>T, <2>1, <2>2 DEF TypeOK
    <2>6. audit'[n] = entries
      BY <1>T, <2>1, <2>2 DEF TypeOK
    <2>7. \A i \in DOMAIN entries : entries[i].event \notin Decisions
      BY <1>1 DEF Created, Decisions
    <2> HIDE DEF n, m
    <2>8. Alone' /\ pc'[t] = "storing" /\ loc'[t] = m
      BY <1>T, <1>2, <2>2, AloneGoto DEF SerialInv
    <2>9. ASSUME NEW u \in Threads \ {t}
          PROVE  Here(u)' /\ (\A o, s : ~Brings(u, o, s)) /\ (\A j : ~Tells(u, j))
      BY <1>T, <1>2, <2>2, <2>9, AloneGoto DEF SerialInv
    <2>10. Here(t)'
      BY <2>2, <2>3, <2>4, <2>5, <2>8 DEF Here, HereAt, OnTask, OwesAt
    <2>11. ASSUME NEW o \in Objects PROVE Effect(o)'
      <3>1. CASE o = n
        BY <2>6, <2>7, <3>1 DEF Effect
      <3>2. CASE o # n
        <4>1. \A i \in DOMAIN audit[o] : audit[o][i].event \in Decisions => Followed(audit[o], i)
          BY <1>3, <2>9 DEF SerialInv, Effect
        <4> QED
          BY <2>5, <3>2, <4>1 DEF Effect, Followed
      <3> QED
        BY <3>1, <3>2
    <2>12. ASSUME NEW j \in Tasks PROVE Told(j)'
      <3>1. table[j] # 0 => Current(j)
        BY <1>3, <2>9 DEF SerialInv, Told
      <3>2. table[j] # 0 => table[j] \in Objects \ {n}
        BY <1>T, <2>4, TaskAssumption DEF TypeOK, Objects
      <3> QED
        BY <2>2, <2>5, <3>1, <3>2 DEF Told, Current
    <2> QED
      BY <2>2, <2>8, <2>9, <2>10, <2>11, <2>12 DEF SerialInv, OneTaskEach
  <1> QED
    BY <1>4, <1>5

(* The new object is no task's yet, and is announced with its status.       *)
LEMMA StoreSerial ==
  ASSUME Unpreempted = Points, TypeInv, SerialInv, NEW t \in Threads, StoreTask(t)
  PROVE  SerialInv'
  <1> DEFINE k == loc[t].task
             n == loc[t].obj
  <1>T. TypeOK
    BY DEF TypeInv
  <1>1. k \in Tasks /\ loc[t] \in Local
    BY <1>T DEF TypeOK, Local
  <1>2. /\ MayRun(t) /\ pc[t] = "storing" /\ Goto(t, "announce", loc[t])
        /\ table' = [table EXCEPT ![k] = n] /\ UNCHANGED <<status, audit, shown>>
    BY DEF StoreTask
  <1>3. Alone' /\ pc'[t] = "announce" /\ loc'[t] = loc[t]
    BY <1>T, <1>2, AloneGoto DEF SerialInv
  <1>4. ASSUME NEW u \in Threads \ {t}
        PROVE  Here(u)' /\ (\A o, s : ~Brings(u, o, s)) /\ (\A j : ~Tells(u, j))
    BY <1>T, <1>2, <1>4, AloneGoto DEF SerialInv
  <1>5. (\A o, s : ~Brings(t, o, s)) /\ (\A j : ~Tells(t, j))
    BY <1>2 DEF Brings, BringsAt, Tells, TellsAt, OwesAt
  <1>6. table'[k] = n /\ \A j \in Tasks \ {k} : table'[j] = table[j]
    BY <1>T, <1>1, <1>2 DEF TypeOK
  <1>7. loc[t].target = status[n] /\ \A j \in Tasks : table[j] # n
    BY <1>2 DEF SerialInv, Here, HereAt
  <1>8. Here(t)'
    BY <1>2, <1>3, <1>6, <1>7 DEF Here, HereAt, OnTask, OwesAt
  <1>9. OneTaskEach'
    BY <1>6, <1>7 DEF SerialInv, OneTaskEach
  <1>10. ASSUME NEW o \in Objects PROVE Effect(o)'
    BY <1>2, <1>4, <1>5 DEF SerialInv, Effect, Followed
  <1>11. ASSUME NEW j \in Tasks PROVE Told(j)'
    <2>1. CASE j = k
      BY <1>3, <2>1 DEF Told, Tells, TellsAt
    <2>2. CASE j # k
      BY <1>2, <1>4, <1>5, <1>6, <2>2 DEF SerialInv, Told, Current
    <2> QED
      BY <2>1, <2>2
  <1> QED
    BY <1>3, <1>4, <1>8, <1>9, <1>10, <1>11 DEF SerialInv

(* A write that changes the status is what a decision waited for, and makes *)
(* the events of this task, and of no other, stale.                         *)
LEMMA WriteSerial ==
  ASSUME Unpreempted = Points, TypeInv, LogInv, SerialInv, NEW t \in Threads, WriteStatus(t)
  PROVE  SerialInv'
  <1> DEFINE k == loc[t].task
             n == loc[t].obj
             m == [loc[t] EXCEPT !.event = "status_changed"]
  <1>T. TypeOK
    BY DEF TypeInv
  <1>1. k \in Tasks /\ loc[t] \in Local
    BY <1>T DEF TypeOK, Local
  <1>2. /\ MayRun(t) /\ pc[t] = "write" /\ UNCHANGED <<table, audit, shown>>
        /\ status' = [status EXCEPT ![n] = loc[t].target]
    BY DEF WriteStatus
  <1>3. n = table[k] /\ loc[t].old = status[n] /\ n \in Objects
    <2>1. n = table[k]
      BY <1>2 DEF SerialInv, Here, HereAt, OnTask
    <2>2. n # 0 /\ n \in 0 .. MaxRequests
      BY <1>1, <1>2 DEF TypeInv, HasObject, NeedsObject, WithObject, Local
    <2> QED
      BY <1>2, <2>1, <2>2, TaskAssumption DEF LogInv, OldIsStatus, Objects
  <1>4. CASE loc[t].target = loc[t].old
    <2>1. Return(t) /\ status' = status
      BY <1>T, <1>2, <1>3, <1>4 DEF WriteStatus, TypeOK
    <2>2. \A o, s : ~Brings(t, o, s)
      BY <1>2, <1>4 DEF Brings, BringsAt, OwesAt
    <2> QED
      BY <1>T, <1>2, <2>1, <2>2, ReturnSerial DEF LogInv, OwesAt
  <1>5. CASE loc[t].target # loc[t].old
    <2>1. Goto(t, "auditSeq", m)
      BY <1>5 DEF WriteStatus
    <2>2. m.event = "status_changed" /\ m.task = k /\ m.obj = n /\ m.target = loc[t].target
      BY <1>1 DEF Local
    <2> HIDE DEF m
    <2>3. Alone' /\ pc'[t] = "auditSeq" /\ loc'[t] = m
      BY <1>T, <1>2, <2>1, AloneGoto DEF SerialInv
    <2>4. ASSUME NEW u \in Threads \ {t}
          PROVE  Here(u)' /\ (\A o, s : ~Brings(u, o, s)) /\ (\A j : ~Tells(u, j))
      BY <1>T, <1>2, <2>1, <2>4, AloneGoto DEF SerialInv
    <2>5. status'[n] = loc[t].target /\ \A o \in Objects \ {n} : status'[o] = status[o]
      BY <1>T, <1>2, <1>3 DEF TypeOK
    <2>6. Here(t)'
      BY <1>2, <1>3, <2>2, <2>3, <2>5 DEF Here, HereAt, OnTask, OwesAt, Decisions
    <2>7. \A o, s : Brings(t, o, s) => Brings(t, o, s)'
      BY <1>2, <2>2, <2>3 DEF Brings, BringsAt, OwesAt
    <2>8. ASSUME NEW o \in Objects PROVE Effect(o)'
      BY <1>2, <2>4, <2>7 DEF SerialInv, Effect, Followed
    <2>9. ASSUME NEW j \in Tasks PROVE Told(j)'
      <3>1. CASE j = k
        BY <2>2, <2>3, <3>1 DEF Told, Tells, TellsAt, OwesAt
      <3>2. CASE j # k
        <4>1. table[j] # 0 => Current(j)
          BY <1>2, <2>4 DEF SerialInv, Told, Tells, TellsAt, OwesAt
        <4>2. table[j] # 0 => table[j] \in Objects \ {n}
          BY <1>T, <1>1, <1>3, <3>2, TaskAssumption DEF SerialInv, OneTaskEach, TypeOK, Objects
        <4> QED
          BY <1>2, <2>5, <4>1, <4>2 DEF Told, Current
      <3> QED
        BY <3>1, <3>2
    <2> QED
      BY <1>2, <2>3, <2>4, <2>6, <2>8, <2>9 DEF SerialInv, OneTaskEach
  <1> QED
    BY <1>4, <1>5

(* The entry of a transition is the one that follows the decision it was    *)
(* taken for; after that of a decision its transition is under way.         *)
LEMMA AppendSerial ==
  ASSUME Unpreempted = Points, TypeInv, NotesFit, SerialInv, NEW t \in Threads, AuditAppend(t)
  PROVE  SerialInv'
  <1> DEFINE k == loc[t].task
             n == loc[t].obj
             e == [event |-> loc[t].event, seq |-> loc[t].seq, from |-> loc[t].old, to |-> loc[t].target]
             m == [loc[t] EXCEPT !.event = "worker_dispatched"]
  <1>T. TypeOK
    BY DEF TypeInv
  <1>1. k \in Tasks /\ loc[t] \in Local
    BY <1>T DEF TypeOK, Local
  <1>2. /\ MayRun(t) /\ pc[t] = "auditAppend" /\ UNCHANGED <<table, status, shown>>
        /\ audit' = [audit EXCEPT ![n] = Append(@, e)]
    BY DEF AuditAppend
  <1>3. n = table[k] /\ n \in Objects
    <2>1. n = table[k]
      BY <1>2 DEF SerialInv, Here, HereAt, OnTask
    <2>2. n # 0 /\ n \in 0 .. MaxRequests
      BY <1>1, <1>2 DEF TypeInv, HasObject, NeedsObject, WithObject, Local
    <2> QED
      BY <2>1, <2>2, TaskAssumption DEF Objects
  <1>4. \/ loc[t].event = "status_changed" /\ Goto(t, "announce", loc[t])
        \/ loc[t].event \in Decisions /\ Goto(t, "get", loc[t])
        \/ loc[t].event = "queue_enqueued" /\ Goto(t, "auditSeq", m)
        \/ loc[t].event \in {"queue_enqueued", "worker_dispatched", "skill_invoked"}
           /\ Goto(t, AfterPoint(t), AfterLocal(t))
    BY DEF AuditAppend, Return, Decisions
  <1>5. m.event = "worker_dispatched" /\ m.task = k /\ m.obj = n
    BY <1>1 DEF Local
  <1>6. HereAt(AfterPoint(t), AfterLocal(t)) /\ AfterPoint(t) \notin {"storing", "announce", "auditSeq", "auditAppend"}
    BY <1>T, <1>2, ReturnHere DEF SerialInv
  <1>A. audit[n] \in Seq(Entry) /\ audit'[n] = Append(audit[n], e)
        /\ \A o \in Objects \ {n} : audit'[o] = audit[o]
    BY <1>T, <1>2, <1>3 DEF TypeOK
  <1>B. /\ DOMAIN audit[n] = 1 .. Len(audit[n]) /\ Len(audit[n]) \in Nat
        /\ Len(audit'[n]) = Len(audit[n]) + 1 /\ DOMAIN audit'[n] = 1 .. Len(audit[n]) + 1
        /\ audit'[n][Len(audit[n]) + 1] = e
        /\ \A i \in 1 .. Len(audit[n]) : audit'[n][i] = audit[n][i]
    BY <1>A
  <1> HIDE DEF m
  <1>7. /\ Alone'
        /\ \/ loc[t].event = "status_changed" /\ pc'[t] = "announce" /\ loc'[t] = loc[t]
           \/ loc[t].event \in Decisions /\ pc'[t] = "get" /\ loc'[t] = loc[t]
           \/ loc[t].event = "queue_enqueued" /\ pc'[t] = "auditSeq" /\ loc'[t] = m
           \/ loc[t].event \in {"queue_enqueued", "worker_dispatched", "skill_invoked"}
              /\ pc'[t] = AfterPoint(t) /\ loc'[t] = AfterLocal(t)
        /\ \A u \in Threads \ {t} : Here(u)' /\ (\A o, s : ~Brings(u, o, s)) /\ (\A j : ~Tells(u, j))
    BY <1>T, <1>2, <1>4, AloneGoto DEF SerialInv
  <1>8. Here(t)'
    <2>1. CASE loc[t].event = "status_changed" /\ pc'[t] = "announce" /\ loc'[t] = loc[t]
      BY <1>2, <1>3, <2>1 DEF SerialInv, Here, HereAt, OnTask, OwesAt
    <2>2. CASE pc'[t] = "get"
      BY <2>2 DEF Here, HereAt, OnTask, OwesAt
    <2>3. CASE pc'[t] = "auditSeq" /\ loc'[t] = m
      BY <1>2, <1>3, <1>5, <2>3 DEF Here, HereAt, OnTask, OwesAt, Decisions
    <2>4. CASE pc'[t] = AfterPoint(t) /\ loc'[t] = AfterLocal(t)
      BY <1>2, <1>6, <2>4 DEF Here, HereAt, OwesAt
    <2> QED
      BY <1>7, <2>1, <2>2, <2>3, <2>4
  <1>9. ASSUME NEW o \in Objects PROVE Effect(o)'
    <2>1. CASE o # n
      <3>1. \A s : ~Brings(t, o, s)
        BY <1>3, <2>1 DEF Brings, BringsAt
      <3>2. \A i \in DOMAIN audit[o] : audit[o][i].event \in Decisions => Followed(audit[o], i)
        BY <1>7, <3>1 DEF SerialInv, Effect
      <3> QED
        BY <1>A, <2>1, <3>2 DEF Effect, Followed
    <2>2. CASE o = n
      <3>1. /\ DOMAIN audit[o] = 1 .. Len(audit[o]) /\ Len(audit[o]) \in Nat
            /\ Len(audit'[o]) = Len(audit[o]) + 1 /\ DOMAIN audit'[o] = 1 .. Len(audit[o]) + 1
            /\ audit'[o][Len(audit[o]) + 1] = e
            /\ \A i \in 1 .. Len(audit[o]) : audit'[o][i] = audit[o][i]
        BY <1>B, <2>2
      <3>2. ASSUME NEW i \in 1 .. Len(audit[o]) + 1, audit'[o][i].event \in Decisions
            PROVE  \/ Followed(audit'[o], i)
                   \/ i = Len(audit'[o]) /\ Brings(t, o, audit[o][i].to)'
        <4>1. CASE i = Len(audit[o]) + 1
          <5>1. audit'[o][i] = e /\ loc[t].event \in Decisions
            BY <3>1, <3>2, <4>1
          <5>2. pc'[t] = "get" /\ loc'[t] = loc[t]
            BY <1>7, <5>1 DEF Decisions
          <5>3. status[o] \notin Terminal \cup {loc[t].target}
            BY <1>2, <2>2, <5>1 DEF SerialInv, Here, HereAt
          <5>4. Brings(t, o, audit[o][i].to)'
            BY <1>2, <1>3, <2>2, <5>1, <5>2, <5>3 DEF Brings, BringsAt
          <5> QED
            BY <3>1, <4>1, <5>4
        <4>2. CASE i \in 1 .. Len(audit[o]) /\ Followed(audit[o], i)
          <5>1. i + 1 \in 1 .. Len(audit[o])
            BY <3>1, <4>2 DEF Followed
          <5>2. audit'[o][i] = audit[o][i] /\ audit'[o][i + 1] = audit[o][i + 1]
            BY <3>1, <4>2, <5>1
          <5>3. i + 1 \in DOMAIN audit'[o]
            BY <3>1, <5>1
          <5> QED
            BY <4>2, <5>2, <5>3 DEF Followed
        <4>3. CASE i \in 1 .. Len(audit[o]) /\ ~Followed(audit[o], i)
          <5>1. audit'[o][i] = audit[o][i]
            BY <3>1, <4>3
          <5>2. i = Len(audit[o]) /\ Brings(t, o, audit[o][i].to)
            BY <1>7, <3>1, <3>2, <4>3, <5>1 DEF SerialInv, Effect
          <5>3. loc[t].event = "status_changed" /\ loc[t].target = audit[o][i].to
            BY <1>2, <5>2 DEF Brings, BringsAt, OwesAt
          <5>4. i + 1 \in DOMAIN audit'[o] /\ audit'[o][i + 1] = e
            BY <3>1, <5>2
          <5> QED
            BY <5>1, <5>3, <5>4 DEF Followed
        <4> QED
          BY <3>1, <4>1, <4>2, <4>3
      <3> QED
        BY <3>1, <3>2 DEF Effect
    <2> QED
      BY <2>1, <2>2
  <1>10. ASSUME NEW j \in Tasks PROVE Told(j)'
    <2>1. CASE Tells(t, j)
      <3>1. loc[t].event = "status_changed" /\ loc[t].task = j
        BY <1>2, <2>1 DEF Tells, TellsAt, OwesAt
      <3>2. Tells(t, j)'
        BY <1>7, <3>1 DEF Tells, TellsAt, Decisions
      <3> QED
        BY <3>2 DEF Told
    <2>2. CASE ~Tells(t, j)
      BY <1>2, <1>7, <2>2 DEF SerialInv, Told, Current
    <2> QED
      BY <2>1, <2>2
  <1> QED
    BY <1>2, <1>7, <1>8, <1>9, <1>10 DEF SerialInv, OneTaskEach

(* The event makes the task's events current.                               *)
LEMMA AnnounceSerial ==
  ASSUME Unpreempted = Points, TypeInv, NotesFit, SerialInv, NEW t \in Threads, Announce(t)
  PROVE  SerialInv'
  <1> DEFINE k == loc[t].task
             p == AfterPoint(t)
             l == AfterLocal(t)
  <1>T. TypeOK
    BY DEF TypeInv
  <1>1. k \in Tasks /\ loc[t] \in Local
    BY <1>T DEF TypeOK, Local
  <1>2. /\ MayRun(t) /\ pc[t] = "announce" /\ UNCHANGED <<table, status, audit>>
        /\ shown' = [shown EXCEPT ![k] = Append(@, loc[t].target)] /\ Goto(t, p, l)
    BY DEF Announce, Return
  <1>3. HereAt(p, l)
    BY <1>T, <1>2, ReturnHere DEF SerialInv
  <1> HIDE DEF p, l
  <1>4. Alone' /\ pc'[t] = p /\ loc'[t] = l
    BY <1>T, <1>2, AloneGoto DEF SerialInv
  <1>5. ASSUME NEW u \in Threads \ {t}
        PROVE  Here(u)' /\ (\A o, s : ~Brings(u, o, s)) /\ (\A j : ~Tells(u, j))
    BY <1>T, <1>2, <1>5, AloneGoto DEF SerialInv
  <1>6. Here(t)'
    BY <1>2, <1>3, <1>4 DEF Here, HereAt, OwesAt
  <1>7. \A o, s : ~Brings(t, o, s)
    BY <1>2 DEF Brings, BringsAt, OwesAt
  <1>8. ASSUME NEW o \in Objects PROVE Effect(o)'
    BY <1>2, <1>5, <1>7 DEF SerialInv, Effect, Followed
  <1>9. ASSUME NEW j \in Tasks PROVE Told(j)'
    <2>1. CASE j = k
      <3>1. shown[k] \in Seq(States) /\ shown'[k] = Append(shown[k], loc[t].target)
        BY <1>T, <1>1, <1>2 DEF TypeOK
      <3>2. shown'[k] # <<>> /\ shown'[k][Len(shown'[k])] = loc[t].target
        BY <3>1
      <3>3. loc[t].target = status[table[k]]
        BY <1>2 DEF SerialInv, Here, HereAt, OnTask
      <3> QED
        BY <1>2, <2>1, <3>2, <3>3 DEF Told, Current
    <2>2. CASE j # k
      <3>1. shown'[j] = shown[j]
        BY <1>T, <1>2, <2>2 DEF TypeOK
      <3>2. table[j] # 0 => Current(j)
        BY <1>5, <2>2 DEF SerialInv, Told, Tells, TellsAt
      <3> QED
        BY <1>2, <3>1, <3>2 DEF Told, Current
    <2> QED
      BY <2>1, <2>2
  <1> QED
    BY <1>2, <1>4, <1>5, <1>6, <1>8, <1>9 DEF SerialInv, OneTaskEach

(* The thread of phase 2 starts asleep: no one is in a handler then.        *)
LEMMA SpawnSerial ==
  ASSUME Unpreempted = Points, TypeInv, SerialInv, NEW t \in Threads, SpawnCanceller(t)
  PROVE  SerialInv'
  <1>T. TypeOK
    BY DEF TypeInv
  <1>1. /\ MayRun(t) /\ pc[t] = "spawn" /\ UNCHANGED <<table, status, audit, shown>>
        /\ \E c \in Cancellers : pc' = [pc EXCEPT ![t] = "idle", ![c] = "sleeping"]
    BY DEF SpawnCanceller
  <1>2. ASSUME NEW u \in Threads
        PROVE  /\ pc'[u] \notin Points
               /\ (\A o, s : ~Brings(u, o, s)) /\ (\A j : ~Tells(u, j))
    <2>1. CASE u = t
      BY <1>T, <1>1, <2>1 DEF TypeOK, Points, Brings, BringsAt, Tells, TellsAt, OwesAt
    <2>2. CASE u # t
      <3>1. pc[u] \notin Points /\ pc'[u] \in {pc[u], "sleeping"}
        BY <1>T, <1>1, <2>2 DEF TypeOK, MayRun
      <3> QED
        BY <3>1, OutsideHandlers DEF Brings, Tells, Points
    <2> QED
      BY <2>1, <2>2
  <1>3. \A u \in Threads : Here(u)'
    BY <1>2, OutsideHandlersThen
  <1>4. ASSUME NEW o \in Objects PROVE Effect(o)'
    BY <1>1, <1>2 DEF SerialInv, Effect, Followed
  <1>5. ASSUME NEW j \in Tasks PROVE Told(j)'
    BY <1>1, <1>2 DEF SerialInv, Told, Current
  <1> QED
    BY <1>1, <1>2, <1>3, <1>4, <1>5 DEF SerialInv, OneTaskEach, Alone

(* Every step of a system whose requests do not overlap keeps the invariant. *)
LEMMA SerialStep ==
  ASSUME Unpreempted = Points, TypeInv, Numbered, LogInv, SerialInv, [Next]_vars
  PROVE  SerialInv'
  <1>T. TypeOK /\ NotesFit
    BY DEF TypeInv, LogInv
  <1>L. \A t \in Threads : loc[t] \in Local
    BY <1>T DEF TypeOK
  <1>G. ASSUME NEW t \in Threads, NEW l, Goto(t, "get", l), MayRun(t), pc[t] \notin Points,
               UNCHANGED <<table, status, audit, shown>>
        PROVE  SerialInv'
    <2>1. HereAt("get", l)
      BY DEF HereAt, OnTask, OwesAt
    <2> QED
      BY <1>T, <1>G, <2>1, OutsideHandlers, QuietSerial DEF Brings, Tells
  <1>1. ASSUME NEW t \in Threads, NEW k \in Tasks, Creates(t, k)
        PROVE  SerialInv'
    BY <1>1, CreateSerial
  <1>2. ASSUME NEW t \in Threads, NEW k \in Tasks, Calls(t, k)
        PROVE  SerialInv'
    BY <1>2, <1>G DEF Calls, CallUpdate, Accept, Points
  <1>3. ASSUME NEW t \in Threads, NEW k \in Tasks, Decides(t, k)
        PROVE  SerialInv'
    <2>1. PICK e \in Decisions, s \in States :
            table[k] # 0 /\ status[table[k]] \notin Terminal \cup {s} /\ Decide(t, k, e, s)
      BY <1>3 DEF Decides
    <2> DEFINE m == [NoLocal EXCEPT !.task = k, !.obj = table[k], !.target = s, !.event = e]
    <2>2. m.event = e /\ m.obj = table[k] /\ m.target = s /\ m.task = k
      BY NoLocalType DEF Local
    <2>3. /\ Goto(t, "auditSeq", m) /\ MayRun(t) /\ pc[t] \notin Points
          /\ UNCHANGED <<table, status, audit, shown>>
      BY <2>1 DEF Decide, Accept, Points
    <2> HIDE DEF m
    <2>4. HereAt("auditSeq", m)
      BY <2>1, <2>2 DEF HereAt, OnTask, OwesAt, Decisions
    <2> QED
      BY <1>T, <2>3, <2>4, OutsideHandlers, QuietSerial DEF Brings, Tells
  <1>4. ASSUME NEW t \in Threads, SyncOutcome(t)
        PROVE  SerialInv'
    <2>1. MayRun(t) /\ pc[t] \notin Points /\ UNCHANGED <<table, status, audit, shown>>
      BY <1>4 DEF SyncOutcome, Points
    <2>2. CASE Goto(t, "idle", NoLocal)
      <3>1. HereAt("idle", NoLocal)
        BY OutsideHandlers DEF Points
      <3> QED
        BY <1>T, <2>1, <2>2, <3>1, OutsideHandlers, QuietSerial DEF Brings, Tells
    <2> QED
      BY <1>4, <1>G, <2>1, <2>2 DEF SyncOutcome
  <1>5. ASSUME NEW t \in Threads, GetTask(t)
        PROVE  SerialInv'
    <2>1. MayRun(t) /\ pc[t] = "get" /\ UNCHANGED <<table, status, audit, shown>>
      BY <1>5 DEF GetTask
    <2>2. CASE table[loc[t].task] = 0
      <3>1. \A o \in Objects : o # 0
        BY TaskAssumption DEF Objects
      <3>2. \A o \in Objects, s \in States : ~Brings(t, o, s)
        BY <2>2, <3>1 DEF Brings, BringsAt
      <3> QED
        BY <1>5, <1>T, <2>1, <2>2, <3>2, ReturnSerial DEF GetTask, OwesAt
    <2>3. CASE table[loc[t].task] # 0
      <3> DEFINE m == [loc[t] EXCEPT !.obj = table[loc[t].task]]
      <3>1. m.obj = table[loc[t].task] /\ m.task = loc[t].task /\ m.target = loc[t].target
        BY <1>L DEF Local
      <3>2. Goto(t, "guard", m)
        BY <1>5, <2>3 DEF GetTask
      <3> HIDE DEF m
      <3>3. HereAt("guard", m)
        BY <3>1 DEF HereAt, OnTask, OwesAt
      <3>4. \A o, s : Brings(t, o, s) => BringsAt("guard", m, o, s)
        BY <2>1, <3>1 DEF Brings, BringsAt, OwesAt
      <3>5. \A k : ~Tells(t, k)
        BY <2>1 DEF Tells, TellsAt, OwesAt
      <3> QED
        BY <1>T, <2>1, <3>2, <3>3, <3>4, <3>5, QuietSerial
    <2> QED
      BY <2>2, <2>3
  <1>6. ASSUME NEW t \in Threads, GuardTerminal(t)
        PROVE  SerialInv'
    <2>1. MayRun(t) /\ pc[t] = "guard" /\ UNCHANGED <<table, status, audit, shown>>
      BY <1>6 DEF GuardTerminal
    <2>2. loc[t].obj = table[loc[t].task]
      BY <2>1 DEF SerialInv, Here, HereAt, OnTask
    <2>3. CASE status[loc[t].obj] \in Terminal /\ loc[t].target \notin Terminal
      <3>1. \A o, s : ~Brings(t, o, s)
        BY <2>1, <2>2, <2>3 DEF Brings, BringsAt, OwesAt
      <3> QED
        BY <1>6, <1>T, <2>1, <2>3, <3>1, ReturnSerial DEF GuardTerminal, OwesAt
    <2>4. CASE Goto(t, "old", loc[t])
      <3>1. HereAt("old", loc[t])
        BY <2>2 DEF HereAt, OnTask, OwesAt
      <3>2. \A o, s : Brings(t, o, s) => BringsAt("old", loc[t], o, s)
        BY <2>1 DEF Brings, BringsAt, OwesAt
      <3>3. \A k : ~Tells(t, k)
        BY <2>1 DEF Tells, TellsAt, OwesAt
      <3> QED
        BY <1>T, <2>1, <2>4, <3>1, <3>2, <3>3, QuietSerial
    <2> QED
      BY <1>6, <2>3, <2>4 DEF GuardTerminal
  <1>7. ASSUME NEW t \in Threads, ReadOld(t)
        PROVE  SerialInv'
    <2> DEFINE m == [loc[t] EXCEPT !.old = status[loc[t].obj]]
    <2>1. /\ MayRun(t) /\ pc[t] = "old" /\ UNCHANGED <<table, status, audit, shown>>
          /\ Goto(t, "write", m)
      BY <1>7 DEF ReadOld
    <2>2. m.obj = loc[t].obj /\ m.task = loc[t].task /\ m.target = loc[t].target /\ m.old = status[loc[t].obj]
      BY <1>L DEF Local
    <2>3. loc[t].obj = table[loc[t].task]
      BY <2>1 DEF SerialInv, Here, HereAt, OnTask
    <2> HIDE DEF m
    <2>4. HereAt("write", m)
      BY <2>2, <2>3 DEF HereAt, OnTask, OwesAt
    <2>5. \A o, s : Brings(t, o, s) => BringsAt("write", m, o, s)
      BY <2>1, <2>2, <2>3 DEF Brings, BringsAt, OwesAt
    <2>6. \A k : ~Tells(t, k)
      BY <2>1 DEF Tells, TellsAt, OwesAt
    <2> QED
      BY <1>T, <2>1, <2>4, <2>5, <2>6, QuietSerial
  <1>8. ASSUME NEW t \in Threads, AuditSeq(t)
        PROVE  SerialInv'
    <2> DEFINE m == [loc[t] EXCEPT !.seq = Len(audit[loc[t].obj])]
    <2>1. /\ MayRun(t) /\ pc[t] = "auditSeq" /\ UNCHANGED <<table, status, audit, shown>>
          /\ Goto(t, "auditAppend", m)
      BY <1>8 DEF AuditSeq
    <2>2. /\ m.obj = loc[t].obj /\ m.task = loc[t].task /\ m.target = loc[t].target
          /\ m.event = loc[t].event
      BY <1>L DEF Local
    <2> HIDE DEF m
    <2>3. HereAt("auditAppend", m)
      BY <2>1, <2>2 DEF SerialInv, Here, HereAt, OnTask, OwesAt
    <2>4. \A o, s : Brings(t, o, s) => BringsAt("auditAppend", m, o, s)
      BY <2>1, <2>2 DEF Brings, BringsAt, OwesAt
    <2>5. \A k : Tells(t, k) => TellsAt("auditAppend", m, k)
      BY <2>1, <2>2 DEF Tells, TellsAt, OwesAt
    <2> QED
      BY <1>T, <2>1, <2>3, <2>4, <2>5, QuietSerial
  <1>9. ASSUME NEW c \in Cancellers, FinishCancel(c)
        PROVE  SerialInv'
    BY <1>9, <1>G DEF FinishCancel, Threads, Points
  <1>10. CASE UNCHANGED vars
    BY <1>10 DEF vars, SerialInv, Alone, OneTaskEach, Here, HereAt, Effect, Told, Current, Brings,
                 BringsAt, Tells, TellsAt, OwesAt
  <1> QED
    BY <1>T, <1>1, <1>2, <1>3, <1>4, <1>5, <1>6, <1>7, <1>8, <1>9, <1>10, StoreSerial, WriteSerial,
       AppendSerial, AnnounceSerial, SpawnSerial, StepForms DEF Run

(* When requests do not overlap, every decision of a human or an agent that *)
(* is in the log has been carried out once its request is over, and the     *)
(* last status event of a task says what its status is: for any threads,    *)
(* tasks, updates and number of requests.                                   *)
THEOREM SerialRequestsTellTheTruth ==
  ASSUME Unpreempted = Points
  PROVE  Spec => [](DecisionTakesEffect /\ LastEventIsStatus)
  <1>0. {"old", "write"} \subseteq Unpreempted
    BY DEF Points
  <1>1. Init => TypeInv
    BY NoLocalType, TaskAssumption
       DEF Init, TypeInv, TypeOK, HasObject, NeedsObject, WithObject, States, Points, Resting
  <1>2. Init => Numbered /\ GuardHolds
    BY NoLocalType DEF Init, Numbered, GuardHolds, Terminal
  <1>3. Init => LogInv
    BY LogInit
  <1>4. Init => SerialInv
    <2> SUFFICES ASSUME Init PROVE SerialInv
      OBVIOUS
    <2>1. \A t \in Threads : pc[t] \notin Points
      BY DEF Init, Points
    <2>2. \A t \in Threads : Here(t)
      BY <2>1, OutsideHandlers DEF Here
    <2>3. Alone /\ OneTaskEach /\ \A k \in Tasks : Told(k)
      BY <2>1 DEF Init, Alone, OneTaskEach, Told
    <2>4. \A o \in Objects : Effect(o)
      BY DEF Init, Effect
    <2> QED
      BY <2>2, <2>3, <2>4 DEF SerialInv
  <1>5. TypeInv /\ Numbered /\ GuardHolds /\ [Next]_vars => Numbered' /\ GuardHolds'
    BY <1>0, ReactivationStep
  <1>6. TypeInv /\ Numbered /\ LogInv /\ [Next]_vars => LogInv'
    BY <1>0, LogStep
  <1>7. TypeInv /\ Numbered /\ LogInv /\ SerialInv /\ [Next]_vars => SerialInv'
    BY SerialStep
  <1>8. TypeInv /\ SerialInv => DecisionTakesEffect /\ LastEventIsStatus
    <2> SUFFICES ASSUME TypeInv, SerialInv, NEW k \in Tasks, table[k] # 0, Quiet(k)
                 PROVE  /\ Current(k)
                        /\ \A i \in DOMAIN audit[table[k]] :
                             audit[table[k]][i].event \in Decisions => Followed(audit[table[k]], i)
      BY DEF DecisionTakesEffect, LastEventIsStatus, Current, Followed, Decisions
    <2>1. table[k] \in Objects
      BY TaskAssumption DEF TypeInv, TypeOK, Objects
    <2>2. ASSUME NEW t \in Threads PROVE ~Tells(t, k) /\ \A s : ~Brings(t, table[k], s)
      <3>1. CASE pc[t] \notin Points
        BY <3>1, OutsideHandlers DEF Tells, Brings
      <3>2. CASE loc[t].task # k
        <4>1. loc[t].task \in Tasks
          BY DEF TypeInv, TypeOK, Local
        <4> QED
          BY <3>2, <4>1 DEF SerialInv, OneTaskEach, Tells, TellsAt, Brings, BringsAt
      <3> QED
        BY <3>1, <3>2 DEF Quiet
    <2> QED
      BY <2>1, <2>2 DEF SerialInv, Effect, Told
  <1> QED
    BY <1>1, <1>2, <1>3, <1>4, <1>5, <1>6, <1>7, <1>8, TypeStep, PTL DEF Spec
=============================================================================
