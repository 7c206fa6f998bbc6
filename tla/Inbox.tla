--------------------------------- MODULE Inbox ---------------------------------
(* The receive queue of the local agent (acp_relay.py): a deque that drops  *)
(* its oldest entry when full, in which received and sent messages stand    *)
(* side by side; GET /recv, which takes messages out and may wait for one;  *)
(* and the queries that leave them in: GET /messages, page by page,         *)
(* GET /context/<id>/messages, by server_seq, and GET /peers/<id>/messages. *)
EXTENDS Integers, Sequences, FiniteSets, SequencesExt

CONSTANTS
  Readers,       \* HTTP threads in GET /recv
  Clients,       \* which of the clients "pager" and "fetcher" there are
  Limits,        \* limits of GET /recv a client asks
  PageLimit,     \* limit of a page of GET /messages and of a fetch by seq
  QueueMax,      \* maxlen of _recv_queue
  MaxSlices,     \* bound: waits of at most one second until the deadline
  MaxAsks,       \* bound on the calls of GET /recv
  MaxIn, MaxOut  \* bounds on the messages received and sent

VARIABLES
  queue,         \* _recv_queue: entries [id, dir, seq], oldest first
  counts,        \* messages received and sent; each side numbers its own
  arrived,       \* history: every entry there ever was
  evicted,       \* history: entries the full deque dropped
  flag,          \* _sse_notify
  rd,            \* threads in GET /recv
  asks,          \* calls of GET /recv made
  answers,       \* history: the answers of GET /recv
  lost,          \* history: entries taken by a call that failed
  overlap,       \* history: two calls of GET /recv were taking messages at once
  pager,         \* a client that pages through GET /messages
  fetcher        \* a client that fetches a conversation by since_seq

readVars == <<rd, asks, answers, lost, overlap>>
clientVars == <<pager, fetcher>>
vars == <<queue, counts, arrived, evicted, flag, readVars, clientVars>>

Idle == [pc |-> "idle", limit |-> 0, left |-> 0, over |-> FALSE, n |-> 0, taken |-> <<>>]
NoPager == [pc |-> "idle", asc |-> TRUE, offset |-> 0, start |-> {}, seen |-> {}, gone |-> FALSE]
NoFetcher == [pc |-> "idle", since |-> 0, seen |-> {}]

Init ==
  /\ queue = <<>>
  /\ counts = [in |-> 0, out |-> 0]
  /\ arrived = {}
  /\ evicted = {}
  /\ flag = FALSE
  /\ rd = [r \in Readers |-> Idle]
  /\ asks = 0
  /\ answers = {}
  /\ lost = {}
  /\ overlap = FALSE
  /\ pager = NoPager
  /\ fetcher = NoFetcher

(* ------------------------------ the entries ----------------------------- *)

(* An entry gets to the end of the deque; a full one drops its oldest.      *)
Append1(e) ==
  /\ arrived' = arrived \cup {e}
  /\ IF Len(queue) < QueueMax
       THEN queue' = Append(queue, e) /\ UNCHANGED <<evicted, pager>>
       ELSE /\ queue' = Append(Tail(queue), e)
            /\ evicted' = evicted \cup {Head(queue)}
            /\ pager' = [pager EXCEPT !.gone = TRUE]

(* _on_message stores the message with a number as received_at, raw holding *)
(* the sender's server_seq, and the event that is broadcast sets the flag.  *)
Receive ==
  /\ counts.in < MaxIn
  /\ counts' = [counts EXCEPT !.in = @ + 1]
  /\ Append1([dir |-> "inbound", seq |-> counts.in + 1])
  /\ flag' = TRUE
  /\ UNCHANGED <<readVars, fetcher>>

(* /message:send stores what it is about to send, with its own server_seq   *)
(* and a text as received_at; the event follows if the send succeeds.       *)
Send ==
  /\ counts.out < MaxOut
  /\ counts' = [counts EXCEPT !.out = @ + 1]
  /\ Append1([dir |-> "outbound", seq |-> counts.out + 1])
  /\ flag' \in {flag, TRUE}
  /\ UNCHANGED <<readVars, fetcher>>

(* Any other event of the relay sets the same flag.                         *)
OtherEvent ==
  /\ ~flag
  /\ flag' = TRUE
  /\ UNCHANGED <<queue, counts, arrived, evicted, readVars, clientVars>>

(* ------------------------------- GET /recv ------------------------------ *)

(* wait is 0 (left = 0) or some slices of a second.                         *)
Ask(r) ==
  /\ rd[r] = Idle /\ asks < MaxAsks
  /\ asks' = asks + 1
  /\ \E l \in Limits, w \in 0..MaxSlices :
       rd' = [rd EXCEPT ![r] = [Idle EXCEPT !.limit = l, !.left = w,
                                            !.pc = IF w > 0 /\ queue = <<>> THEN "clear" ELSE "count"]]
  /\ UNCHANGED <<queue, counts, arrived, evicted, flag, answers, lost, overlap, clientVars>>

(* The event is shared with the streams: it is cleared, the queue looked at *)
(* again, and waited for in slices until there is something or no time.     *)
Clear(r) ==
  /\ rd[r].pc = "clear"
  /\ flag' = FALSE
  /\ rd' = [rd EXCEPT ![r].pc = "recheck"]
  /\ UNCHANGED <<queue, counts, arrived, evicted, asks, answers, lost, overlap, clientVars>>

Recheck(r) ==
  /\ rd[r].pc = "recheck"
  /\ rd' = [rd EXCEPT ![r].pc = IF queue # <<>> THEN "count" ELSE "sleep"]
  /\ UNCHANGED <<queue, counts, arrived, evicted, flag, asks, answers, lost, overlap, clientVars>>

Woken(r) == [rd[r] EXCEPT !.over = FALSE, !.pc = IF queue # <<>> \/ rd[r].left = 0 THEN "count" ELSE "clear"]

(* Mutant: the wait has no slices, only the event ends it.                  *)
Sleep_OnFlag(r) ==
  /\ rd[r].pc = "sleep" /\ flag
  /\ rd' = [rd EXCEPT ![r] = Woken(r)]
  /\ UNCHANGED <<queue, counts, arrived, evicted, flag, asks, answers, lost, overlap, clientVars>>

Sleep(r) ==
  /\ rd[r].pc = "sleep" /\ (flag \/ rd[r].over)
  /\ rd' = [rd EXCEPT ![r] = Woken(r)]
  /\ UNCHANGED <<queue, counts, arrived, evicted, flag, asks, answers, lost, overlap, clientVars>>

(* A second passes: the slice of who sleeps is over.                        *)
Tick(r) ==
  /\ rd[r].pc \in {"clear", "recheck", "sleep"} /\ (rd[r].left > 0 \/ (rd[r].pc = "sleep" /\ ~rd[r].over))
  /\ rd' = [rd EXCEPT ![r].left = IF @ > 0 THEN @ - 1 ELSE 0, ![r].over = (rd[r].pc = "sleep")]
  /\ UNCHANGED <<queue, counts, arrived, evicted, flag, asks, answers, lost, overlap, clientVars>>

(* A stream handler clears the same event.                                  *)
StreamClears ==
  /\ flag
  /\ flag' = FALSE
  /\ UNCHANGED <<queue, counts, arrived, evicted, readVars, clientVars>>

Least(a, b) == IF a < b THEN a ELSE b

(* Mutant: as many as the limit says.                                       *)
Count_Limit(r) ==
  /\ rd[r].pc = "count"
  /\ rd' = [rd EXCEPT ![r].pc = "pop", ![r].n = rd[r].limit]
  /\ overlap' = (overlap \/ \E q \in Readers \ {r} : rd[q].pc = "pop")
  /\ UNCHANGED <<queue, counts, arrived, evicted, flag, asks, answers, lost, clientVars>>

(* range(min(limit, len(_recv_queue))), then one popleft after the other.   *)
Count(r) ==
  /\ rd[r].pc = "count"
  /\ rd' = [rd EXCEPT ![r].pc = "pop", ![r].n = Least(rd[r].limit, Len(queue))]
  /\ overlap' = (overlap \/ \E q \in Readers \ {r} : rd[q].pc = "pop")
  /\ UNCHANGED <<queue, counts, arrived, evicted, flag, asks, answers, lost, clientVars>>

(* Mutant: a message that is taken stays in the queue.                      *)
Pop_Peek(r) ==
  /\ rd[r].pc = "pop" /\ Len(rd[r].taken) < rd[r].n /\ queue # <<>>
  /\ rd' = [rd EXCEPT ![r].taken = Append(@, Head(queue))]
  /\ UNCHANGED <<queue, counts, arrived, evicted, flag, asks, answers, lost, overlap, clientVars>>

Pop(r) ==
  /\ rd[r].pc = "pop" /\ Len(rd[r].taken) < rd[r].n /\ queue # <<>>
  /\ rd' = [rd EXCEPT ![r].taken = Append(@, Head(queue))]
  /\ queue' = Tail(queue)
  /\ pager' = [pager EXCEPT !.gone = TRUE]
  /\ UNCHANGED <<counts, arrived, evicted, flag, asks, answers, lost, overlap, fetcher>>

(* popleft of an empty deque: IndexError, and the connection is closed.     *)
Fail(r) ==
  /\ rd[r].pc = "pop" /\ Len(rd[r].taken) < rd[r].n /\ queue = <<>>
  /\ lost' = lost \cup Range(rd[r].taken)
  /\ rd' = [rd EXCEPT ![r] = Idle]
  /\ UNCHANGED <<queue, counts, arrived, evicted, flag, asks, answers, overlap, clientVars>>

(* The answer; its messages are sorted by priority, which moves none of     *)
(* them to another answer.                                                  *)
Answer(r) ==
  /\ rd[r].pc = "pop" /\ Len(rd[r].taken) = rd[r].n
  /\ answers' = answers \cup {[by |-> r, got |-> Range(rd[r].taken)]}
  /\ rd' = [rd EXCEPT ![r] = Idle]
  /\ UNCHANGED <<queue, counts, arrived, evicted, flag, asks, lost, overlap, clientVars>>

(* ------------------------------- queries -------------------------------- *)

(* The sort key received_at is a number in what was received and a text in  *)
(* what was sent: a list that has both cannot be sorted (TypeError).        *)
Sortable(entries) == \A a, b \in Range(entries) : a.dir = b.dir

(* Mutant: a page that is full counts as the last one.                      *)
Page_FullIsLast(asc, offset) ==
  LET all == IF asc THEN queue ELSE Reverse(queue)
      sliced == SubSeq(all, offset + 1, Len(all))
  IN [page |-> SubSeq(sliced, 1, Least(PageLimit, Len(sliced))), more |-> Len(sliced) > PageLimit + 1]

(* A page of GET /messages: snapshot, sort, offset.                         *)
Page(asc, offset) ==
  LET all == IF asc THEN queue ELSE Reverse(queue)
      sliced == SubSeq(all, offset + 1, Len(all))
  IN [page |-> SubSeq(sliced, 1, Least(PageLimit, Len(sliced))), more |-> Len(sliced) > PageLimit]

StartPaging ==
  /\ "pager" \in Clients /\ pager.pc = "idle" /\ queue # <<>>
  /\ \E asc \in BOOLEAN : pager' = [NoPager EXCEPT !.pc = "page", !.asc = asc, !.start = Range(queue)]
  /\ UNCHANGED <<queue, counts, arrived, evicted, flag, readVars, fetcher>>

NextPage ==
  /\ pager.pc = "page"
  /\ IF Sortable(queue)
       THEN LET p == Page(pager.asc, pager.offset) IN
              pager' = [pager EXCEPT !.seen = @ \cup Range(p.page), !.offset = @ + PageLimit,
                                     !.pc = IF p.more THEN "page" ELSE "done"]
       ELSE pager' = [pager EXCEPT !.pc = "failed"]
  /\ UNCHANGED <<queue, counts, arrived, evicted, flag, readVars, fetcher>>

(* GET /context/<id>/messages?since_seq=: the entries of a conversation     *)
(* with a higher server_seq, lowest first; the client goes on from the      *)
(* highest it has seen.                                                     *)
SeqSorted(entries) == SortSeq(entries, LAMBDA a, b : a.seq < b.seq)

(* Mutant: the newest of them make the page.                                *)
Matched_NewestFirst(since) == Reverse(SeqSorted(SelectSeq(queue, LAMBDA e : e.seq > since)))

Matched(since) == SeqSorted(SelectSeq(queue, LAMBDA e : e.seq > since))

Fetch ==
  /\ "fetcher" \in Clients
  /\ LET m == Matched(fetcher.since)
         page == SubSeq(m, 1, Least(PageLimit, Len(m)))
     IN /\ page # <<>>
        /\ fetcher' = [pc |-> IF Len(m) > PageLimit THEN "more" ELSE "even",
                       since |-> Max({e.seq : e \in Range(page)}), seen |-> fetcher.seen \cup Range(page)]
  /\ UNCHANGED <<queue, counts, arrived, evicted, flag, readVars, pager>>

ReadStep(r) ==
  Clear(r) \/ Recheck(r) \/ Sleep(r) \/ Count(r) \/ Pop(r) \/ Fail(r) \/ Answer(r)

Next ==
  \/ Receive \/ Send \/ OtherEvent \/ StreamClears
  \/ \E r \in Readers : Ask(r) \/ Tick(r) \/ ReadStep(r)
  \/ StartPaging \/ NextPage \/ Fetch

Spec == Init /\ [][Next]_vars

(* Threads run and time passes; nothing must arrive, and no one must ask.   *)
Fairness == \A r \in Readers : WF_vars(ReadStep(r)) /\ WF_vars(Tick(r))
FairSpec == Spec /\ Fairness

(* ------------------------------ properties ------------------------------ *)

(* Types; the deque keeps its bound.                                        *)
TypeOK ==
  /\ Range(queue) \subseteq arrived /\ Len(queue) <= QueueMax
  /\ \A r \in Readers : rd[r].n \in 0..Max(Limits) /\ rd[r].left \in 0..MaxSlices
  /\ lost \cup evicted \subseteq arrived
  /\ pager.pc \in {"idle", "page", "done", "failed"} /\ fetcher.pc \in {"idle", "more", "even"}

Taken == UNION {Range(rd[r].taken) : r \in Readers}
Told == UNION {a.got : a \in answers}

(* Each message is in one answer of GET /recv at most, and none is both     *)
(* taken and still in the queue, whatever calls overlap (9503).             *)
TakenOnce ==
  /\ \A a, b \in answers : a # b => a.got \cap b.got = {}
  /\ Cardinality(Range(queue)) = Len(queue)
  /\ Range(queue) \cap (Taken \cup Told \cup lost) = {} /\ Taken \cap Told = {}

(* A message leaves the queue into an answer, or because the queue was      *)
(* full; one that is taken and never answered takes two calls of GET /recv  *)
(* that pop at the same time (9503: the count is read before the pops).     *)
LostOnlyByOverlap ==
  /\ arrived = Range(queue) \cup Taken \cup Told \cup evicted \cup lost
  /\ lost # {} => overlap

(* Who pages through GET /messages while messages arrive and none leaves    *)
(* sees all that were there at the start, in either order (9559-9609).      *)
PagesMissNothing ==
  pager.pc = "done" /\ ~pager.gone => pager.start \subseteq pager.seen

(* GET /recv returns although the event it waits for is shared with streams *)
(* that clear it (9492-9500).                                               *)
RecvReturns == \A r \in Readers : rd[r].pc # "idle" ~> rd[r].pc = "idle"

(* "GET /messages — history message list" reads without consuming and       *)
(* answers with a page (docs/CHANGELOG.md:855-864).                         *)
MessagesAreListed == pager.pc # "failed"

(* The incremental fetch with since_seq (10390-10412): as long as nothing   *)
(* was sent in the conversation, a client that goes on from the highest     *)
(* number it has seen, and is told that there is no more, has seen all of   *)
(* the conversation that is still in the queue, although messages arrive    *)
(* and old ones are evicted between its pages.  (What is sent has numbers   *)
(* of another count, and then it fails.)                                    *)
FetchMissesNothing ==
  fetcher.pc = "even" /\ (\A e \in arrived : e.dir = "inbound")
    => \A e \in Range(queue) : e.seq <= fetcher.since => e \in fetcher.seen
===============================================================================
