------------------------------- MODULE TaskPages -------------------------------
(***************************************************************************)
(* Reading tasks while they change (acp_relay.py): the pages of GET /tasks *)
(* by offset or by cursor, ascending or descending, with a status filter;  *)
(* GET /tasks/{id}:wait; the depth of GET /tasks/queue.                    *)
(* Tasks are numbered as they are created; created_at has a resolution of  *)
(* one millisecond, and the sort is stable.                                *)
(***************************************************************************)
EXTENDS Integers, Sequences, FiniteSets, SequencesExt, FiniteSetsExt

CONSTANTS
  Pagers,        \* clients that read all pages of GET /tasks
  Waiters,       \* clients of :wait
  Limits,        \* page sizes
  MaxTasks,      \* bound on the tasks
  MaxStamps,     \* bound on the clock of created_at
  MaxLists,      \* bound on the lists each pager reads
  MaxPolls       \* polls of a :wait before its deadline

VARIABLES
  ended,         \* for each task, in order of creation: its status is terminal
  stamp,         \* created_at of each task
  now,
  pager,         \* for each pager, the list it reads
  lists,         \* lists each pager began
  waiter,        \* for each :wait, where it is
  waited         \* history: answers of :wait, [task, final, ended]

vars == <<ended, stamp, now, pager, lists, waiter, waited>>

NoList == [pc |-> "none"]
Known == DOMAIN ended

Init ==
  /\ ended = <<>> /\ stamp = <<>> /\ now = 1
  /\ pager = [g \in Pagers |-> NoList]
  /\ lists = [g \in Pagers |-> 0]
  /\ waiter = [x \in Waiters |-> [pc |-> "idle"]]
  /\ waited = {}

readers == <<pager, lists, waiter, waited>>

Create ==
  /\ Len(ended) < MaxTasks
  /\ ended' = Append(ended, FALSE)
  /\ stamp' = Append(stamp, now)
  /\ UNCHANGED <<now, readers>>

Finish(k) ==
  /\ ~ended[k]
  /\ ended' = [ended EXCEPT ![k] = TRUE]
  /\ pager' = [g \in Pagers |-> IF pager[g].pc = "none" \/ ~pager[g].open THEN pager[g]
                                ELSE [pager[g] EXCEPT !.left = TRUE]]
  /\ UNCHANGED <<stamp, now, lists, waiter, waited>>

Tick == now < MaxStamps /\ now' = now + 1 /\ UNCHANGED <<ended, stamp, readers>>

(* A list: all tasks, or those with status=submitted,working,input_required.*)
Matching(open) == {k \in Known : open => ~ended[k]}

Open(g) ==
  /\ pager[g].pc = "none" \/ pager[g].pc = "end"
  /\ lists[g] < MaxLists /\ lists' = [lists EXCEPT ![g] = @ + 1]
  /\ \E open, asc, byOffset \in BOOLEAN, n \in Limits :
       pager' = [pager EXCEPT ![g] = [pc |-> "page", open |-> open, asc |-> asc, byOffset |-> byOffset,
                   limit |-> n, offset |-> 0, cursor |-> 0, seen |-> <<>>, base |-> Matching(open), left |-> FALSE]]
  /\ UNCHANGED <<ended, stamp, now, waiter, waited>>

(* sort by created_at; among equals the order of creation stays, both ways. *)
Sorted(set, asc) ==
  SetToSortSeq(set, LAMBDA i, j :
    IF stamp[i] = stamp[j] THEN i < j
    ELSE IF asc THEN stamp[i] < stamp[j] ELSE stamp[i] > stamp[j])

(* What follows the offset, or the cursor; a cursor that is a task but does *)
(* not match any more leaves nothing.                                       *)
Rest(l) ==
  LET all == Sorted(Matching(l.open), l.asc)
      at == SelectInSeq(all, LAMBDA k : k = l.cursor)
  IN IF l.byOffset THEN SubSeq(all, l.offset + 1, Len(all))
     ELSE IF l.cursor \notin Known THEN all
     ELSE IF at = 0 THEN <<>> ELSE SubSeq(all, at + 1, Len(all))

(* Mutant: a page that is full ends the list.                               *)
Page_FullEnds(g) ==
  /\ pager[g].pc = "page"
  /\ LET l == pager[g]
         rest == Rest(l)
         page == SubSeq(rest, 1, Min({l.limit, Len(rest)}))
         more == Len(rest) > l.limit + 1
     IN pager' = [pager EXCEPT ![g] =
          [l EXCEPT !.seen = @ \o page, !.offset = @ + l.limit,
                    !.cursor = IF more THEN page[Len(page)] ELSE @,
                    !.pc = IF more THEN "page" ELSE "end"]]
  /\ UNCHANGED <<ended, stamp, now, lists, waiter, waited>>

(* A page; while there is more the client asks for the next one.            *)
Page(g) ==
  /\ pager[g].pc = "page"
  /\ LET l == pager[g]
         rest == Rest(l)
         page == SubSeq(rest, 1, Min({l.limit, Len(rest)}))
         more == Len(rest) > l.limit
     IN pager' = [pager EXCEPT ![g] =
          [l EXCEPT !.seen = @ \o page, !.offset = @ + l.limit,
                    !.cursor = IF more THEN page[Len(page)] ELSE @,
                    !.pc = IF more THEN "page" ELSE "end"]]
  /\ UNCHANGED <<ended, stamp, now, lists, waiter, waited>>

(* :wait answers at once for a task that ended, otherwise polls it every    *)
(* half second up to the deadline, and then answers 202 with what it is.    *)
Wait(x) ==
  /\ waiter[x].pc = "idle"
  /\ \E k \in Known :
       IF ended[k]
       THEN waited' = waited \cup {[task |-> k, final |-> TRUE, ended |-> TRUE]} /\ UNCHANGED waiter
       ELSE waiter' = [waiter EXCEPT ![x] = [pc |-> "poll", task |-> k, polls |-> 0]] /\ UNCHANGED waited
  /\ UNCHANGED <<ended, stamp, now, pager, lists>>

(* Mutant: the answer after a poll is final whatever the task is.           *)
Poll_Any(x) ==
  /\ waiter[x].pc = "poll"
  /\ waited' = waited \cup {[task |-> waiter[x].task, final |-> TRUE, ended |-> ended[waiter[x].task]]}
  /\ waiter' = [waiter EXCEPT ![x] = [pc |-> "idle"]]
  /\ UNCHANGED <<ended, stamp, now, pager, lists>>

Poll(x) ==
  /\ waiter[x].pc = "poll"
  /\ LET k == waiter[x].task
     IN IF waiter[x].polls < MaxPolls /\ ~ended[k]
        THEN waiter' = [waiter EXCEPT ![x].polls = @ + 1] /\ UNCHANGED waited
        ELSE /\ waited' = waited \cup {[task |-> k, final |-> waiter[x].polls < MaxPolls, ended |-> ended[k]]}
             /\ waiter' = [waiter EXCEPT ![x] = [pc |-> "idle"]]
  /\ UNCHANGED <<ended, stamp, now, pager, lists>>

Next ==
  \/ Create \/ Tick
  \/ \E k \in Known : Finish(k)
  \/ \E g \in Pagers : Open(g) \/ Page(g)
  \/ \E x \in Waiters : Wait(x) \/ Poll(x)

Spec == Init /\ [][Next]_vars

(* ------------------------------ properties ------------------------------ *)

(* Types; an answer of :wait that calls the task final is right.            *)
TypeOK ==
  /\ Len(stamp) = Len(ended)
  /\ \A k \in Known : stamp[k] \in 1..now
  /\ \A g \in Pagers : pager[g].pc # "none" =>
       pager[g].base \subseteq Known /\ ToSet(pager[g].seen) \subseteq Known
  /\ \A a \in waited : a.final => a.ended

(* A client that reads all pages sees every task its list began with, while *)
(* tasks are created between the pages, unless one left its status filter;  *)
(* by cursor and without a filter it sees none twice (10551-10590).         *)
ListIsComplete ==
  \A g \in Pagers : pager[g].pc = "end" =>
    /\ ~pager[g].left => pager[g].base \subseteq ToSet(pager[g].seen)
    /\ ~pager[g].byOffset /\ ~pager[g].open => IsInjective(pager[g].seen)
===============================================================================
