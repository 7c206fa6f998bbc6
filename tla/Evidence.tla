-------------------------------- MODULE Evidence --------------------------------
(* Evidence about a task (acp_relay.py): POST /tasks/{id}/evidence numbers, *)
(* stores and announces an entry; GET /tasks/{id}/evidence-stream replays   *)
(* what there is, then registers a bounded queue and writes what comes in.  *)
(* One task: nothing is shared between two of them.                         *)
EXTENDS Integers, Sequences, FiniteSets, Functions

CONSTANTS
  Submitters,    \* HTTP threads in POST .../evidence
  Watchers,      \* HTTP threads in GET .../evidence-stream
  QueueMax,      \* maxsize of a watcher's queue
  MaxEntries,    \* bound on the entries
  MaxLeaves      \* bound on the watchers that go away

VARIABLES
  entries,       \* _task_evidence of the task: [seq, by]
  subs,          \* _evidence_subscribers of the task
  sb,            \* threads that submit
  w,             \* threads that watch
  begun,         \* submissions begun (bounds the model)
  leaves,        \* watchers gone
  met            \* history: submissions that overlapped another one

vars == <<entries, subs, sb, w, begun, leaves, met>>

IdleSub == [pc |-> "idle", id |-> 0, seq |-> 0, todo |-> {}]
NoWatch == [pc |-> "none", todo |-> <<>>, queue |-> <<>>, got |-> <<>>, from |-> 0, dropped |-> {}]

Init ==
  /\ entries = <<>>
  /\ subs = {}
  /\ sb = [s \in Submitters |-> IdleSub]
  /\ w = [x \in Watchers |-> NoWatch]
  /\ begun = 0 /\ leaves = 0
  /\ met = {}

(* Mutant: one more than the number of the last entry.                      *)
Begin_AfterLast(s) ==
  /\ sb[s].pc = "idle" /\ begun < MaxEntries
  /\ begun' = begun + 1
  /\ sb' = [sb EXCEPT ![s] = [IdleSub EXCEPT !.pc = "store", !.id = begun + 1,
                                            !.seq = IF entries = <<>> THEN 0 ELSE entries[Len(entries)].seq + 1]]
  /\ LET others == {sb[t].id : t \in {u \in Submitters : sb[u].pc # "idle"}} IN
       met' = IF others = {} THEN met ELSE met \cup others \cup {begun + 1}
  /\ UNCHANGED <<entries, subs, w, leaves>>

(* seq = len(entries), read before the entry is built and appended.         *)
Begin(s) ==
  /\ sb[s].pc = "idle" /\ begun < MaxEntries
  /\ begun' = begun + 1
  /\ sb' = [sb EXCEPT ![s] = [IdleSub EXCEPT !.pc = "store", !.id = begun + 1, !.seq = Len(entries)]]
  /\ LET others == {sb[t].id : t \in {u \in Submitters : sb[u].pc # "idle"}} IN
       met' = IF others = {} THEN met ELSE met \cup others \cup {begun + 1}
  /\ UNCHANGED <<entries, subs, w, leaves>>

Store(s) ==
  /\ sb[s].pc = "store"
  /\ entries' = Append(entries, [id |-> sb[s].id, seq |-> sb[s].seq])
  /\ sb' = [sb EXCEPT ![s].pc = "list"]
  /\ UNCHANGED <<subs, w, begun, leaves, met>>

(* A copy of the list of queues, then put_nowait into each: a full queue    *)
(* loses the entry silently.                                                *)
ListSubs(s) ==
  /\ sb[s].pc = "list"
  /\ sb' = [sb EXCEPT ![s].pc = "put", ![s].todo = subs]
  /\ UNCHANGED <<entries, subs, w, begun, leaves, met>>

Put(s) ==
  /\ sb[s].pc = "put"
  /\ IF sb[s].todo = {}
       THEN sb' = [sb EXCEPT ![s] = IdleSub] /\ UNCHANGED w
       ELSE \E x \in sb[s].todo :
              /\ w' = IF Len(w[x].queue) < QueueMax THEN [w EXCEPT ![x].queue = Append(@, sb[s].id)]
                      ELSE [w EXCEPT ![x].dropped = @ \cup {sb[s].id}]
              /\ sb' = [sb EXCEPT ![s].todo = @ \ {x}]
  /\ UNCHANGED <<entries, subs, begun, leaves, met>>

Ids == [i \in DOMAIN entries |-> entries[i].id]

(* The watcher reads the list and writes all of it, then registers.         *)
Open(x) ==
  /\ w[x].pc = "none"
  /\ w' = [w EXCEPT ![x] = [NoWatch EXCEPT !.pc = "replay", !.got = Ids]]
  /\ UNCHANGED <<entries, subs, sb, begun, leaves, met>>

Register(x) ==
  /\ w[x].pc = "replay"
  /\ subs' = subs \cup {x}
  /\ w' = [w EXCEPT ![x].pc = "live", ![x].from = Len(entries)]
  /\ UNCHANGED <<entries, sb, begun, leaves, met>>

Write(x) ==
  /\ w[x].pc = "live" /\ w[x].queue # <<>>
  /\ w' = [w EXCEPT ![x].queue = Tail(@), ![x].got = Append(@, Head(w[x].queue))]
  /\ UNCHANGED <<entries, subs, sb, begun, leaves, met>>

(* Mutant: the one that leaves takes the list of queues with it.            *)
Leave_All(x) ==
  /\ w[x].pc = "live" /\ leaves < MaxLeaves
  /\ leaves' = leaves + 1
  /\ subs' = {}
  /\ w' = [w EXCEPT ![x].pc = "gone"]
  /\ UNCHANGED <<entries, sb, begun, met>>

(* Its connection breaks: it takes its own queue out of the list.           *)
Leave(x) ==
  /\ w[x].pc = "live" /\ leaves < MaxLeaves
  /\ leaves' = leaves + 1
  /\ subs' = subs \ {x}
  /\ w' = [w EXCEPT ![x].pc = "gone"]
  /\ UNCHANGED <<entries, sb, begun, met>>

Next ==
  \/ \E s \in Submitters : Begin(s) \/ Store(s) \/ ListSubs(s) \/ Put(s)
  \/ \E x \in Watchers : Open(x) \/ Register(x) \/ Write(x) \/ Leave(x)

Spec == Init /\ [][Next]_vars

(* ------------------------------ properties ------------------------------ *)

(* Types; the queues keep their bound.                                      *)
TypeOK ==
  /\ subs \subseteq Watchers /\ Len(entries) <= MaxEntries
  /\ \A s \in Submitters : sb[s].todo \subseteq Watchers /\ sb[s].seq \in 0..MaxEntries
  /\ \A x \in Watchers : Len(w[x].queue) <= QueueMax

(* A watcher gets every entry stored after it registered, unless its queue  *)
(* was full; what it misses of the rest was stored between its replay and   *)
(* its registration (10688-10702), however submissions and other watchers   *)
(* come and go (14246-14257).                                               *)
WatcherMissesOnlyTheGap ==
  \A x \in Watchers :
    w[x].pc = "live" /\ w[x].queue = <<>> /\ (\A s \in Submitters : sb[s].pc = "idle")
      => \A i \in DOMAIN entries :
           i > w[x].from => entries[i].id \in Range(w[x].got) \cup w[x].dropped

(* The number of an entry is its place in the list, as a client counts on   *)
(* that compares seq with count, unless two submissions overlapped: both    *)
(* may then read the same length (14243-14244).                             *)
SeqIsPlace ==
  \A i \in DOMAIN entries : entries[i].id \notin met => entries[i].seq = i - 1
===============================================================================
