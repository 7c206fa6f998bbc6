-------------------------------- MODULE Workers --------------------------------
(***************************************************************************)
(* Workers of the task queue (acp_relay.py): POST and DELETE               *)
(* /tasks/queue/worker, and POST /tasks/queue, which creates a task, or    *)
(* finds the one with the client's id, and posts it to the callback of     *)
(* every worker that matches, one after the other over a snapshot of the   *)
(* registry.                                                               *)
(***************************************************************************)
EXTENDS Integers, Sequences, FiniteSets

CONSTANTS
  WorkerIds,
  Callers,       \* HTTP threads in POST /tasks/queue
  TaskIds,       \* task ids the clients supply
  Skills,        \* skill ids
  None,          \* no skill: as a filter it matches all, in a task no filter
  MaxRegs,       \* bound on the registrations
  MaxRequests    \* bound on the POSTs to /tasks/queue

VARIABLES
  workers,       \* _task_queue_workers: id -> [reg, count], or Nothing
  filters,       \* history: the filters of each registration, in order
  w,             \* POST /tasks/queue under way, by thread
  skillOf,       \* skill_id in the payload of each task there is
  requests,      \* numbers the requests
  posted,        \* history: envelopes received: [request, task, worker, reg]
  dispatched     \* history: workers_dispatched of each answer

vars == <<workers, filters, w, skillOf, requests, posted, dispatched>>

Nothing == [reg |-> 0, count |-> 0]
Idle == [pc |-> "idle", task |-> None]

Init ==
  /\ workers = [v \in WorkerIds |-> Nothing]
  /\ filters = <<>>
  /\ w = [c \in Callers |-> Idle]
  /\ skillOf = <<>>
  /\ requests = 0
  /\ posted = {} /\ dispatched = {}

(* A worker id that is registered already gets the new callback and filters *)
(* and counts from 0 again.  No task has a from_peer_id (only _create_task's*)
(* own fields are set), so a worker that filters by peer gets nothing.      *)
Register(v) ==
  /\ Len(filters) < MaxRegs
  /\ \E s \in Skills \cup {None}, anyPeer \in BOOLEAN :
       filters' = Append(filters, [skill |-> s, anyPeer |-> anyPeer])
  /\ workers' = [workers EXCEPT ![v] = [reg |-> Len(filters) + 1, count |-> 0]]
  /\ UNCHANGED <<w, skillOf, requests, posted, dispatched>>

Remove(v) ==
  /\ workers[v] # Nothing
  /\ workers' = [workers EXCEPT ![v] = Nothing]
  /\ UNCHANGED <<filters, w, skillOf, requests, posted, dispatched>>

(* The task is created unless its id exists: then the stored one, whatever  *)
(* the new payload says, is dispatched again.                               *)
Enqueue(c) ==
  /\ w[c] = Idle /\ requests < MaxRequests
  /\ requests' = requests + 1
  /\ \E t \in TaskIds, s \in Skills \cup {None} :
       /\ skillOf' = IF t \in DOMAIN skillOf THEN skillOf
                     ELSE [u \in DOMAIN skillOf \cup {t} |-> IF u = t THEN s ELSE skillOf[u]]
       /\ w' = [w EXCEPT ![c] = [pc |-> "copy", task |-> t, request |-> requests + 1,
                                 todo |-> {}, n |-> 0, to |-> None]]
  /\ UNCHANGED <<workers, filters, posted, dispatched>>

(* Mutant: a task without a skill matches every filter.                     *)
Matches_NoSkill(t, f) == f.anyPeer /\ (f.skill # None => skillOf[t] \in {None, f.skill})

(* A filter that is given must match; a task without the field does not.    *)
Matches(t, f) == f.anyPeer /\ (f.skill # None => skillOf[t] # None /\ skillOf[t] = f.skill)

(* The snapshot of the registry.                                            *)
Copy(c) ==
  /\ w[c].pc = "copy"
  /\ w' = [w EXCEPT ![c].pc = "post",
                    ![c].todo = {[worker |-> v, reg |-> workers[v].reg] : v \in
                       {u \in WorkerIds : workers[u] # Nothing /\ Matches(w[c].task, filters[workers[u].reg])}}]
  /\ UNCHANGED <<workers, filters, skillOf, requests, posted, dispatched>>

Received(c, x) ==
  posted' = posted \cup {[request |-> w[c].request, task |-> w[c].task, worker |-> x.worker, reg |-> x.reg]}

(* Mutant: a callback that failed is counted too.                           *)
Post_Counted(c) ==
  /\ w[c].pc = "post"
  /\ \E x \in w[c].todo :
       /\ Received(c, x) \/ UNCHANGED posted
       /\ w' = [w EXCEPT ![c].pc = "count", ![c].todo = @ \ {x}, ![c].to = x.worker]
  /\ UNCHANGED <<workers, filters, skillOf, requests, dispatched>>

(* One callback: it answers, or it fails, perhaps after it was received.    *)
Post(c) ==
  /\ w[c].pc = "post"
  /\ \E x \in w[c].todo :
       \/ /\ Received(c, x)
          /\ w' = [w EXCEPT ![c].pc = "count", ![c].todo = @ \ {x}, ![c].to = x.worker]
       \/ /\ Received(c, x) \/ UNCHANGED posted
          /\ w' = [w EXCEPT ![c].todo = @ \ {x}]
  /\ UNCHANGED <<workers, filters, skillOf, requests, dispatched>>

(* tasks_dispatched of whoever has the worker id now.                       *)
Count(c) ==
  /\ w[c].pc = "count"
  /\ workers' = [workers EXCEPT ![w[c].to] = IF @ = Nothing THEN @ ELSE [@ EXCEPT !.count = @ + 1]]
  /\ w' = [w EXCEPT ![c].pc = "post", ![c].n = @ + 1]
  /\ UNCHANGED <<filters, skillOf, requests, posted, dispatched>>

Reply(c) ==
  /\ w[c].pc = "post" /\ w[c].todo = {}
  /\ dispatched' = dispatched \cup {[request |-> w[c].request, n |-> w[c].n]}
  /\ w' = [w EXCEPT ![c] = Idle]
  /\ UNCHANGED <<workers, filters, skillOf, requests, posted>>

Next ==
  \/ \E v \in WorkerIds : Register(v) \/ Remove(v)
  \/ \E c \in Callers : Enqueue(c) \/ Copy(c) \/ Post(c) \/ Count(c) \/ Reply(c)

Spec == Init /\ [][Next]_vars

(* ------------------------------ properties ------------------------------ *)

(* Types; a registration has a number of its own, whatever is replaced; a   *)
(* thread works for a task that exists.                                     *)
TypeOK ==
  /\ \A u, v \in WorkerIds : u # v /\ workers[u] # Nothing => workers[u].reg # workers[v].reg
  /\ \A v \in WorkerIds : workers[v].reg \in 0..Len(filters)
  /\ \A c \in Callers : w[c] # Idle => w[c].task \in DOMAIN skillOf
  /\ \A p \in posted : p.task \in DOMAIN skillOf /\ p.reg \in 1..Len(filters)

(* The numbers tell of envelopes that arrived: workers_dispatched of an     *)
(* answer, and tasks_dispatched of a worker, which may stem from an earlier *)
(* registration of its id (6505-6556), while workers come, change and go    *)
(* between the callbacks.                                                   *)
CountsAreTrue ==
  /\ \A a \in dispatched : a.n <= Cardinality({p \in posted : p.request = a.request})
  /\ \A v \in WorkerIds : workers[v].count <= Cardinality({p \in posted : p.worker = v})

(* A worker that filters by a skill is sent tasks of that skill only, also  *)
(* when the id of a task is used again with another payload (6514-6527).    *)
FiltersHold ==
  \A p \in posted : filters[p.reg].skill \in {None, skillOf[p.task]}
===============================================================================
