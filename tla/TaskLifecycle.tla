---------------------------- MODULE TaskLifecycle ----------------------------
(***************************************************************************)
(* The task table of one relay (src/relay/acp_relay.py): the dictionary    *)
(* _tasks, the audit log inside every task object and the status events    *)
(* announced for it.  HTTP requests run each on a thread of their own, the *)
(* messages of peers on the event-loop thread, and the second phase of a   *)
(* cancel on a thread that sleeps first.  None of them takes a lock: what  *)
(* a thread read before the interpreter switched away may be stale when it *)
(* is used.  pc names the points of the code a thread can be suspended at. *)
(*                                                                         *)
(* Unpreempted is the set of those points at which the interpreter does    *)
(* not switch to another thread.  CPython from 3.10 on (pyproject.toml:11) *)
(* switches only at calls and backward jumps, and there is none between    *)
(* the terminal guard of _update_task and its write of the status, hence   *)
(* {"old", "write"}.  The whole of Points is the case of requests that     *)
(* happen not to overlap.                                                  *)
(***************************************************************************)
EXTENDS Naturals, Sequences, FiniteSets

CONSTANTS
  Tasks,          (* task ids                                               *)
  Handlers,       (* HTTP handler threads                                   *)
  Loop,           (* the thread of the asyncio event loop                   *)
  Cancellers,     (* threads started by :cancel (bound on those asleep)     *)
  OtherStates,    (* strings that are the name of no status                 *)
  UpdateStates,   (* statuses that :update bodies and task.updated carry:   *)
                  (* neither is checked, any string may come                *)
  Unpreempted,    (* points at which a thread is never suspended            *)
  MaxRequests     (* bound: requests and peer messages handled in a run     *)

Threads == Handlers \cup {Loop} \cup Cancellers

Terminal == {"completed", "failed", "canceled", "rejected"}
States == Terminal \cup OtherStates \cup
          {"submitted", "working", "cancelling", "input_required", "confirmation_pending"}

(* Points of the code where another thread may run: see the actions.        *)
Points == {"storing", "get", "guard", "old", "write", "auditSeq",
           "auditAppend", "announce", "spawn"}
Resting == {"idle", "awaiting", "sleeping", "unstarted"}

(* What a handler still does once the current call has returned.            *)
Then == {"done", "spawn", "work", "workAwait", "await", "note"}

Events == {"created", "status_changed", "confirmed", "rejected",
           "agent_rejected", "skill_invoked", "queue_enqueued",
           "worker_dispatched"}

ASSUME TaskAssumption ==
  /\ Tasks # {}
  /\ UpdateStates \subseteq States
  /\ Unpreempted \subseteq Points
  /\ MaxRequests \in Nat \ {0}
  /\ Loop \notin Handlers \cup Cancellers
  /\ Handlers \cap Cancellers = {}

(* Task objects are numbered in the order they are built; 0 is "no object". *)
Objects == 1 .. MaxRequests

VARIABLES
  table,      (* _tasks: the object stored under each id, 0 when absent     *)
  status,     (* task["status"] of every object                             *)
  audit,      (* task["audit_log"] of every object                          *)
  shown,      (* states of the SSE status events, per task id               *)
  pc,         (* where each thread is                                       *)
  loc,        (* the locals of each thread                                  *)
  requests    (* requests handled so far; also numbers the objects          *)

vars == <<table, status, audit, shown, pc, loc, requests>>

Entry == [event : Events, seq : Nat, from : States, to : States]
Local == [task : Tasks, obj : 0 .. MaxRequests, target : States,
          old : States, event : Events, seq : Nat, then : Then]

TypeOK ==
  /\ table \in [Tasks -> 0 .. MaxRequests]
  /\ status \in [Objects -> States]
  /\ audit \in [Objects -> Seq(Entry)]
  /\ shown \in [Tasks -> Seq(States)]
  /\ pc \in [Threads -> Points \cup Resting]
  /\ loc \in [Threads -> Local]
  /\ requests \in 0 .. MaxRequests

NoLocal == [task |-> CHOOSE k \in Tasks : TRUE, obj |-> 0,
            target |-> "submitted", old |-> "submitted",
            event |-> "created", seq |-> 0, then |-> "done"]

Init ==
  /\ table = [k \in Tasks |-> 0]
  /\ status = [o \in Objects |-> "submitted"]
  /\ audit = [o \in Objects |-> <<>>]
  /\ shown = [k \in Tasks |-> <<>>]
  /\ pc = [t \in Threads |-> IF t \in Cancellers THEN "unstarted" ELSE "idle"]
  /\ loc = [t \in Threads |-> NoLocal]
  /\ requests = 0

-----------------------------------------------------------------------------
(* Threads.                                                                 *)

(* The interpreter may give thread t a turn.                                *)
MayRun(t) == \A u \in Threads \ {t} : pc[u] \notin Unpreempted

(* An idle server thread takes up a request (or a peer's message).          *)
Accept(t) ==
  /\ MayRun(t)
  /\ pc[t] = "idle"
  /\ requests < MaxRequests
  /\ requests' = requests + 1

(* t moves to point p with locals l.                                        *)
Goto(t, p, l) ==
  /\ pc' = [pc EXCEPT ![t] = p]
  /\ loc' = [loc EXCEPT ![t] = l]

(* t reaches the end of a call: it goes on with what its handler does next. *)
AfterPoint(t) ==
  CASE loc[t].then = "spawn"                -> "spawn"
    [] loc[t].then \in {"work", "workAwait"} -> "get"
    [] loc[t].then = "await"                -> "awaiting"
    [] loc[t].then = "note"                 -> "auditSeq"
    [] loc[t].then = "done"                 -> IF t \in Cancellers THEN "unstarted" ELSE "idle"

AfterLocal(t) ==
  LET l == loc[t] IN
  CASE l.then = "work"      -> [l EXCEPT !.target = "working", !.then = "done"]
    [] l.then = "workAwait" -> [l EXCEPT !.target = "working", !.then = "await"]
    [] l.then = "note"      -> [l EXCEPT !.then = "done"]
    [] l.then \in {"spawn", "await"} -> l
    [] l.then = "done"      -> NoLocal

Return(t) == Goto(t, AfterPoint(t), AfterLocal(t))

-----------------------------------------------------------------------------
(* _create_task and its callers.                                            *)

(* The membership test of _create_task on id k by thread t: a task that is  *)
(* already there is returned; otherwise a new object is filled in, not yet  *)
(* visible to other threads.  l: the locals the caller goes on with;        *)
(* entries: the audit log the new object starts with.                       *)
CreateTask(t, k, state, entries, l) ==
  /\ Accept(t)
  /\ IF table[k] # 0
     THEN /\ LET m == [l EXCEPT !.obj = table[k]] IN
             IF m.then = "note" THEN Goto(t, "auditSeq", [m EXCEPT !.then = "done"])
                                ELSE Goto(t, "idle", NoLocal)
          /\ UNCHANGED <<table, status, audit, shown>>
     ELSE /\ status' = [status EXCEPT ![requests + 1] = state]
          /\ audit' = [audit EXCEPT ![requests + 1] = entries]
          /\ Goto(t, "storing", [l EXCEPT !.obj = requests + 1, !.target = state])
          /\ UNCHANGED <<table, shown>>

Created(state) == <<[event |-> "created", seq |-> 0, from |-> state, to |-> state]>>

(* _tasks[task_id] = task: whatever is stored there by now is replaced.     *)
StoreTask(t) ==
  /\ MayRun(t)
  /\ pc[t] = "storing"
  /\ table' = [table EXCEPT ![loc[t].task] = loc[t].obj]
  /\ Goto(t, "announce", loc[t])
  /\ UNCHANGED <<status, audit, shown, requests>>

(* POST /tasks for a skill, which may want a human confirmation, or none.   *)
PostTask(t, k) ==
  \/ CreateTask(t, k, "submitted", Created("submitted"), [NoLocal EXCEPT !.task = k])
  \/ \E state \in {"submitted", "confirmation_pending"} :
       CreateTask(t, k, state, Created(state),
                  [NoLocal EXCEPT !.task = k, !.event = "skill_invoked", !.then = "note"])

(* POST /tasks/queue.                                                       *)
QueueTask(t, k) ==
  CreateTask(t, k, "submitted", Created("submitted"),
             [NoLocal EXCEPT !.task = k, !.event = "queue_enqueued", !.then = "note"])

(* POST /message:send with create_task: the id is generated, hence new, and *)
(* the task goes straight to working; with sync the handler then waits.     *)
SendWithTask(t, k) ==
  /\ table[k] = 0
  /\ \A u \in Threads : pc[u] = "storing" => loc[u].task # k
  /\ \E then \in {"work", "workAwait"} :
       CreateTask(t, k, "submitted", Created("submitted"),
                  [NoLocal EXCEPT !.task = k, !.then = then])

(* The end of the wait of a sync send: a reply, a timeout, or a send that   *)
(* failed, which leaves the task as it is.                                  *)
SyncOutcome(t) ==
  /\ MayRun(t)
  /\ pc[t] = "awaiting"
  /\ \/ \E s \in {"completed", "failed"} :
          Goto(t, "get", [loc[t] EXCEPT !.target = s, !.then = "done"])
     \/ Goto(t, "idle", NoLocal)
  /\ UNCHANGED <<table, status, audit, shown, requests>>

(* A message of a peer names a task: an unknown one is registered as        *)
(* working, with no audit log, by the event-loop thread.                    *)
PeerTask(k) ==
  /\ table[k] = 0
  /\ CreateTask(Loop, k, "working", <<>>, [NoLocal EXCEPT !.task = k])

-----------------------------------------------------------------------------
(* _update_task, one action per point at which it can be suspended.         *)

(* task = _tasks.get(task_id)                                               *)
GetTask(t) ==
  /\ MayRun(t)
  /\ pc[t] = "get"
  /\ IF table[loc[t].task] = 0
     THEN Return(t)
     ELSE Goto(t, "guard", [loc[t] EXCEPT !.obj = table[loc[t].task]])
  /\ UNCHANGED <<table, status, audit, shown, requests>>

(* Mutant of GuardTerminal: the guard is missing.                           *)
GuardTerminal_Dropped(t) ==
  /\ MayRun(t)
  /\ pc[t] = "guard"
  /\ Goto(t, "old", loc[t])
  /\ UNCHANGED <<table, status, audit, shown, requests>>

(* The guard: a terminal task is not re-activated.                          *)
GuardTerminal(t) ==
  /\ MayRun(t)
  /\ pc[t] = "guard"
  /\ IF status[loc[t].obj] \in Terminal /\ loc[t].target \notin Terminal
     THEN Return(t)
     ELSE Goto(t, "old", loc[t])
  /\ UNCHANGED <<table, status, audit, shown, requests>>

(* old_state = task["status"]                                               *)
ReadOld(t) ==
  /\ MayRun(t)
  /\ pc[t] = "old"
  /\ Goto(t, "write", [loc[t] EXCEPT !.old = status[loc[t].obj]])
  /\ UNCHANGED <<table, status, audit, shown, requests>>

(* Mutant of WriteStatus: only the end of a task is recorded.               *)
WriteStatus_TerminalOnly(t) ==
  /\ MayRun(t)
  /\ pc[t] = "write"
  /\ status' = [status EXCEPT ![loc[t].obj] = loc[t].target]
  /\ IF loc[t].target # loc[t].old /\ loc[t].target \in Terminal
     THEN Goto(t, "auditSeq", [loc[t] EXCEPT !.event = "status_changed"])
     ELSE Return(t)
  /\ UNCHANGED <<table, audit, shown, requests>>

(* task["status"] = state; audit and event follow only if it changed.       *)
WriteStatus(t) ==
  /\ MayRun(t)
  /\ pc[t] = "write"
  /\ status' = [status EXCEPT ![loc[t].obj] = loc[t].target]
  /\ IF loc[t].target # loc[t].old
     THEN Goto(t, "auditSeq", [loc[t] EXCEPT !.event = "status_changed"])
     ELSE Return(t)
  /\ UNCHANGED <<table, audit, shown, requests>>

(* _append_audit: the seq of the entry is the length of the log ...         *)
AuditSeq(t) ==
  /\ MayRun(t)
  /\ pc[t] = "auditSeq"
  /\ Goto(t, "auditAppend", [loc[t] EXCEPT !.seq = Len(audit[loc[t].obj])])
  /\ UNCHANGED <<table, status, audit, shown, requests>>

(* ... and the entry is appended afterwards.  What comes next depends on    *)
(* the caller: _update_task announces the change, the handlers of a human's *)
(* or agent's decision call _update_task, /tasks/queue hands the task to    *)
(* the registered workers, if any, and notes that.                          *)
AuditAppend(t) ==
  LET l == loc[t] IN
  /\ MayRun(t)
  /\ pc[t] = "auditAppend"
  /\ audit' = [audit EXCEPT ![l.obj] =
       Append(@, [event |-> l.event, seq |-> l.seq, from |-> l.old, to |-> l.target])]
  /\ \/ l.event = "status_changed" /\ Goto(t, "announce", l)
     \/ l.event \in {"confirmed", "rejected", "agent_rejected"} /\ Goto(t, "get", l)
     \/ l.event = "queue_enqueued" /\ Goto(t, "auditSeq", [l EXCEPT !.event = "worker_dispatched"])
     \/ l.event \in {"queue_enqueued", "worker_dispatched", "skill_invoked"} /\ Return(t)
  /\ UNCHANGED <<table, status, shown, requests>>

(* Mutant of Announce: the event carries the state the task had before.     *)
Announce_Old(t) ==
  /\ MayRun(t)
  /\ pc[t] = "announce"
  /\ shown' = [shown EXCEPT ![loc[t].task] = Append(@, loc[t].old)]
  /\ Return(t)
  /\ UNCHANGED <<table, status, audit, requests>>

(* _broadcast_sse_event("status", ...) with the state this thread wrote.    *)
Announce(t) ==
  /\ MayRun(t)
  /\ pc[t] = "announce"
  /\ shown' = [shown EXCEPT ![loc[t].task] = Append(@, loc[t].target)]
  /\ Return(t)
  /\ UNCHANGED <<table, status, audit, requests>>

-----------------------------------------------------------------------------
(* The handlers that call _update_task.                                     *)

(* Call _update_task(k, s), and then what `then` says.                      *)
CallUpdate(t, k, s, then) ==
  /\ Accept(t)
  /\ Goto(t, "get", [NoLocal EXCEPT !.task = k, !.target = s, !.then = then])
  /\ UNCHANGED <<table, status, audit, shown>>

(* Append the audit entry of a decision, then call _update_task(k, s).      *)
Decide(t, k, event, s) ==
  /\ Accept(t)
  /\ Goto(t, "auditSeq", [NoLocal EXCEPT !.task = k, !.obj = table[k],
                                         !.target = s, !.event = event])
  /\ UNCHANGED <<table, status, audit, shown>>

(* What the handlers test before the call: the task is in one of S.         *)
InState(k, S) == table[k] # 0 /\ status[table[k]] \in S

(* POST /tasks/{id}:update                                                  *)
Update(t, k) == \E s \in UpdateStates : CallUpdate(t, k, s, "done")

(* A peer's task.updated, on the event-loop thread.                         *)
PeerUpdate(k) == table[k] # 0 /\ \E s \in UpdateStates : CallUpdate(Loop, k, s, "done")

(* POST /tasks/{id}:continue                                                *)
Continue(t, k) == InState(k, {"input_required"}) /\ CallUpdate(t, k, "working", "done")

(* POST /tasks/{id}:cancel, phase 1: any other state answers 200 at once.   *)
Cancel(t, k) ==
  InState(k, States \ (Terminal \cup {"cancelling"})) /\ CallUpdate(t, k, "cancelling", "spawn")

(* ... which starts the thread of phase 2, whatever _update_task did, ...   *)
SpawnCanceller(t) ==
  /\ MayRun(t)
  /\ pc[t] = "spawn"
  /\ \E c \in Cancellers :
       /\ pc[c] = "unstarted"
       /\ pc' = [pc EXCEPT ![t] = "idle", ![c] = "sleeping"]
       /\ loc' = [loc EXCEPT ![t] = NoLocal, ![c] = [NoLocal EXCEPT !.task = loc[t].task]]
  /\ UNCHANGED <<table, status, audit, shown, requests>>

(* Mutant of FinishCancel: a task that is not cancelling any more is left.  *)
FinishCancel_IfStill(c) ==
  /\ MayRun(c)
  /\ pc[c] = "sleeping"
  /\ IF status[table[loc[c].task]] = "cancelling"
     THEN Goto(c, "get", [loc[c] EXCEPT !.target = "canceled"])
     ELSE Goto(c, "unstarted", NoLocal)
  /\ UNCHANGED <<table, status, audit, shown, requests>>

(* ... and phase 2 wakes up and calls _update_task(tid, TASK_CANCELED).     *)
FinishCancel(c) ==
  /\ MayRun(c)
  /\ pc[c] = "sleeping"
  /\ Goto(c, "get", [loc[c] EXCEPT !.target = "canceled"])
  /\ UNCHANGED <<table, status, audit, shown, requests>>

(* Mutants of Confirm (a second confirmation is accepted) and of DeleteTask *)
(* (a deleted task gets a status of its own).                               *)
Confirm_Again(t, k) ==
  InState(k, {"confirmation_pending", "submitted"}) /\ Decide(t, k, "confirmed", "submitted")
DeleteTask_OwnState(t, k) == InState(k, States \ Terminal) /\ CallUpdate(t, k, "deleted", "done")

(* POST /tasks/{id}:confirm, :reject and :agent-reject, DELETE /tasks/{id}  *)
Confirm(t, k) == InState(k, {"confirmation_pending"}) /\ Decide(t, k, "confirmed", "submitted")
Reject(t, k) == InState(k, {"confirmation_pending"}) /\ Decide(t, k, "rejected", "rejected")
AgentReject(t, k) == InState(k, States \ Terminal) /\ Decide(t, k, "agent_rejected", "rejected")
DeleteTask(t, k) == InState(k, States \ Terminal) /\ CallUpdate(t, k, "failed", "done")

-----------------------------------------------------------------------------
Request(t, k) ==
  \/ PostTask(t, k) \/ QueueTask(t, k) \/ SendWithTask(t, k)
  \/ Update(t, k) \/ Continue(t, k) \/ Cancel(t, k)
  \/ Confirm(t, k) \/ Reject(t, k) \/ AgentReject(t, k) \/ DeleteTask(t, k)

PeerMessage(k) == PeerTask(k) \/ PeerUpdate(k)

(* A step of a thread inside a handler: it needs no outside event.          *)
Run(t) ==
  \/ StoreTask(t) \/ GetTask(t) \/ GuardTerminal(t) \/ ReadOld(t) \/ WriteStatus(t)
  \/ AuditSeq(t) \/ AuditAppend(t) \/ Announce(t) \/ SpawnCanceller(t)

Next ==
  \/ \E t \in Handlers, k \in Tasks : Request(t, k)
  \/ \E k \in Tasks : PeerMessage(k)
  \/ \E t \in Handlers : SyncOutcome(t)
  \/ \E t \in Threads : Run(t)
  \/ \E c \in Cancellers : FinishCancel(c)

Spec == Init /\ [][Next]_vars

(* Threads that can run do run, and the sleep of phase 2 is finite.  No     *)
(* request has to arrive.                                                   *)
Fairness ==
  /\ \A t \in Threads : WF_vars(Run(t))
  /\ \A c \in Cancellers : WF_vars(FinishCancel(c))

FairSpec == Spec /\ Fairness

-----------------------------------------------------------------------------
(* Properties.                                                              *)

(* Once a task object is completed, failed, canceled or rejected, no thread *)
(* makes it submitted, working, cancelling or waiting again, although the   *)
(* guard and the write of _update_task are separate and nothing is locked.  *)
TerminalStaysTerminal ==
  [][\A o \in Objects : status[o] \in Terminal => status'[o] \in Terminal]_vars

(* The status changes of the log of object o.                               *)
IsChange(e) == e.event \in {"created", "status_changed"}
Entered(o, s) == {i \in DOMAIN audit[o] : IsChange(audit[o][i]) /\ audit[o][i].to = s}
Left(o, s) == {i \in DOMAIN audit[o] : audit[o][i].event = "status_changed" /\ audit[o][i].from = s}

(* Threads that wrote a status of o and have not yet logged it.             *)
Owing(o) == {t \in Threads : /\ pc[t] \in {"auditSeq", "auditAppend"}
                             /\ loc[t].event = "status_changed" /\ loc[t].obj = o}

CreatedHere(o) == audit[o] # <<>> /\ audit[o][1].event = "created"

(* The audit log and the status never disagree by more than the entries     *)
(* still to be written: for every state, a task has entered it as often as  *)
(* it has left it, and once more for the state it is in.  A transition that *)
(* is lost, recorded twice or recorded from the wrong state breaks it.      *)
LogBalancesStatus ==
  \A o \in Objects : CreatedHere(o) => \A s \in States :
    Cardinality(Entered(o, s)) + Cardinality({t \in Owing(o) : loc[t].target = s})
      = Cardinality(Left(o, s)) + Cardinality({t \in Owing(o) : loc[t].old = s})
        + (IF status[o] = s THEN 1 ELSE 0)

(* No thread is in the middle of a call on task k.                          *)
Quiet(k) == \A t \in Threads : pc[t] \in Points => loc[t].task # k

(* When requests do not overlap, the last status event of a task is its     *)
(* status: a client that only follows the events knows where the task is.   *)
LastEventIsStatus ==
  \A k \in Tasks : (table[k] # 0 /\ Quiet(k)) =>
    shown[k] # <<>> /\ shown[k][Len(shown[k])] = status[table[k]]

(* Then the status events of a task are exactly the status changes of its   *)
(* log, in order.                                                           *)
EventsTellTheLog ==
  \A k \in Tasks : LET o == table[k] IN
    (o # 0 /\ Quiet(k) /\ CreatedHere(o)) =>
      LET changes == SelectSeq(audit[o], IsChange) IN
      shown[k] = [i \in DOMAIN changes |-> changes[i].to]

(* A human's or agent's decision in the log is followed by the transition   *)
(* it decided on, as soon as the request that took it is over.              *)
DecisionTakesEffect ==
  \A k \in Tasks : (table[k] # 0 /\ Quiet(k)) =>
    LET log == audit[table[k]] IN
    \A i \in DOMAIN log : log[i].event \in {"confirmed", "rejected", "agent_rejected"} =>
      /\ i + 1 \in DOMAIN log
      /\ log[i + 1].event = "status_changed"
      /\ log[i + 1].to = log[i].to

(* A cancel that the guard of :cancel let through, and that is not over.    *)
CancelUnderway(k) ==
  \E t \in Threads : loc[t].task = k /\ (loc[t].then = "spawn" \/ pc[t] = "sleeping")

(* Once :cancel has begun, the task is canceled in the end, whatever other  *)
(* requests do to it meanwhile.  (A task that :update puts into cancelling  *)
(* stays there: a later :cancel answers that one is in progress already.)   *)
CancelCompletes ==
  \A k \in Tasks : CancelUnderway(k) ~> (table[k] # 0 /\ status[table[k]] = "canceled")

=============================================================================
