--------------------------- MODULE MCTaskLifecycle ---------------------------
(* What concerns tasks, for TLC.  Each behaviour is one of one part:        *)
(* TaskLifecycle with threads preempted at every call ("threads") or with   *)
(* requests that do not overlap ("serial"); TaskPages with a client that    *)
(* pages ("pages") or that waits ("waits"); Workers ("workers").            *)
EXTENDS TaskLifecycle, TLC

CONSTANTS h1, loop, c1, c2, k1,
  Pagers, Waiters, Limits, MaxTasks, MaxStamps, MaxLists, MaxPolls,
  WorkerIds, Callers, Skills, None, MaxRegs, MaxQueued

VARIABLES
  part,
  ended, stamp, now, pager, lists, waiter, waited,
  workers, filters, w, skillOf, queued, posted, dispatched

pageVars == <<ended, stamp, now, pager, lists, waiter, waited>>
workerVars == <<workers, filters, w, skillOf, queued, posted, dispatched>>

OneHandler == {h1}
OneTask == {k1}
TwoCancellers == {c1, c2}

(* Requests that do not overlap: no thread is suspended inside a handler.   *)
NoOverlap == Points
(* CPython 3.10 and later: no switch between the guard and the write.       *)
SwitchAtCalls == {"old", "write"}

(* The kinds of status an :update may carry: what an agent working on a     *)
(* task reports, the state that is :cancel's own, and a name that is none.  *)
AgentUpdates == {"working", "completed", "input_required", "cancelling", "paused"}
OneUnknown == {"paused"}

Serial == INSTANCE TaskLifecycle WITH Unpreempted <- NoOverlap
Pages == INSTANCE TaskPages WITH Waiters <- {}
Waits == INSTANCE TaskPages WITH Pagers <- {}, MaxTasks <- 2
Queue == INSTANCE Workers WITH TaskIds <- {k1}, MaxRequests <- MaxQueued, requests <- queued

MCInit ==
  /\ \/ part \in {"threads", "serial", "workers", "pages"} /\ Pages!Init
     \/ part = "waits" /\ Waits!Init
  /\ Init
  /\ Queue!Init

Parts ==
  \/ part = "threads" /\ Next /\ UNCHANGED <<pageVars, workerVars>>
  \/ part = "serial" /\ Serial!Next /\ UNCHANGED <<pageVars, workerVars>>
  \/ part = "pages" /\ Pages!Next /\ UNCHANGED <<vars, workerVars>>
  \/ part = "waits" /\ Waits!Next /\ UNCHANGED <<vars, workerVars>>
  \/ part = "workers" /\ Queue!Next /\ UNCHANGED <<vars, pageVars>>

MCNext == Parts /\ UNCHANGED part

(* The threads of TaskLifecycle run, as its Fairness states it.             *)
MCSpec ==
  /\ MCInit
  /\ [][MCNext]_<<part, vars, pageVars, workerVars>>
  /\ \A t \in Threads : WF_vars(part = "serial" /\ Serial!Run(t))
  /\ \A c \in Cancellers : WF_vars(part = "serial" /\ Serial!FinishCancel(c))

(* Clients are told the truth of tasks.  Without overlap, the events of a   *)
(* task are the changes of its log up to its status, and no decision is     *)
(* logged that had no effect; a client that reads all pages of GET /tasks sees every task its  *)
(* list began with, while tasks are created and finished between the pages. *)
(* What pages and waits of clients leave behind has its types.              *)
ClientsAreToldTrue ==
  /\ part = "serial" => EventsTellTheLog /\ LastEventIsStatus /\ DecisionTakesEffect
  /\ part = "pages" => Pages!TypeOK /\ Pages!ListIsComplete
  /\ part = "waits" => Waits!TypeOK

(* Dispatch counts only envelopes that arrived, and sends a worker only     *)
(* what its filter lets through, though workers come and go in between.     *)
DispatchIsTrue == part = "workers" => Queue!TypeOK /\ Queue!CountsAreTrue /\ Queue!FiltersHold

(* Once :cancel has begun on a task, the task is canceled in the end,       *)
(* whatever other requests do to it meanwhile, an :update to any status     *)
(* included (5725-5740, 14139-14148).                                       *)
SerialCancelCompletes ==
  \A k \in Tasks :
    (part = "serial" /\ CancelUnderway(k)) ~> (table[k] # 0 /\ status[table[k]] = "canceled")

=============================================================================
