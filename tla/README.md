# ACP relay: a TLA+ verification project

This directory holds TLA+ models of the Agent Communication Protocol relay
(`src/relay/acp_relay.py`, one process of 17 000 lines that an agent runs beside
itself), the TLC configurations that check them on small instances, and proofs
that TLAPS checks for all instances. Source lines without a file name are lines
of `acp_relay.py`.

Contents: [the system](#1-the-system) ·
[inventory](#2-inventory) ·
[modules and code](#3-modules-and-code) ·
[runs and bounds](#4-runs-and-bounds) ·
[fairness](#5-fairness) ·
[proofs](#6-proofs) ·
[disagreements](#7-disagreements-between-code-and-documentation) ·
[other observations](#8-observations-that-no-run-carries) ·
[not modelled](#9-not-modelled-and-why) ·
[plan](#10-plan).

## 1. The system

An agent talks HTTP to its own relay on localhost; relays talk WebSocket to each
other. Every relay process has

* one asyncio event loop on one thread: accepts guests (`on_guest`), dials other
  relays (`guest_mode`), reads their frames (`_on_message`), writes frames
  (`_ws_send`) and flushes the offline queue;
* a `ThreadingHTTPServer` (15425): every HTTP request runs in a thread of its
  own, and handlers hand coroutines to the loop with
  `run_coroutine_threadsafe` and wait for them;
* short-lived threads that handlers start, such as phase 2 of a cancel.

Nearly all state is in module-level dictionaries that all those threads use
without a lock. So there are two sorts of concurrency in every component:
coroutines of the loop interleave at their `await`s, threads interleave
wherever the interpreter switches. The state is lost with the process, but for
the offline queue under `--persist-queue`, whose SQLite table outlives it.

                  HTTP                     WebSocket                    HTTP
    agent A  <----------->  relay A  <------------------>  relay B  <---------->  agent B
              POST /message:send      acp.message, acp.ack           GET /recv
              GET /stream             acp.reply, task.updated        POST /reply
                                \                        /
                                 \---- HTTP relay ------/     (fallback, polling)

## 2. Inventory

For each component: its state, its operations, what it exchanges with others,
what is hard about it, and what makes it correct.

### Task lifecycle and audit log — `TaskLifecycle`

* State: `_tasks` (id to task object), in each object `status` and `audit_log`;
  the status events announced for it.
* Operations: `_create_task` (5686) from `POST /tasks`, `/tasks/queue`,
  `/message:send` with `create_task`, and from a peer's message; `_update_task`
  (5728) from `:update`, `:continue`, `:cancel`, `DELETE`, `:confirm`,
  `:reject`, `:agent-reject`, from sync sends and from a peer's `task.updated`.
* Hard: no lock; guard, read of the old status, write, log and announcement are
  separate steps on several threads; a cancel is finished by a thread that wakes
  up 50 ms later and looks at nothing.
* Correct when: a terminal task is never active again; log, status and events
  agree; a decision that is logged has its
  effect; a task that is cancelling is canceled in the end.

### Offline queue — `OfflineQueue`

* State: `_offline_queue` (bucket to bounded deque), SQLite table
  `offline_queue`, the connection state that decides where a message goes.
* Operations: `_offline_enqueue` (6441) when the peer is away,
  `_offline_flush` (6461) when a connection comes up, the TTL sweep (lazy and on
  demand), `_pq_init` at the start.
* Hard: the flush awaits between sends, and breaks, other flushes, sweeps of
  HTTP threads and crashes fall in between; memory and table are written one
  after the other; peer ids are counters of one process life, rows are not.
* Correct when: nothing is flushed twice in a life, order is kept, what a sender
  was told is queued is somewhere until it is sent or dropped by a documented
  limit.

### Event stream — `EventStream`

* State: `_sse_seq`, `_event_log` (500 events), `_sse_subscribers`, one queue per
  client, one `threading.Event` for all.
* Operations: `_broadcast_sse_event` (3998) on any thread; `GET /stream`
  (10869) with replay; `GET /tasks/{id}:subscribe` (10621).
* Hard: two locks for number and log, none for the list of subscribers, one
  wake-up flag that every handler clears for all others.
* Correct when: numbers are unique, a connected client is offered each event
  once, a queue is emptied in the end.

### Send path — `SendPath`

* State: `_seen_message_ids`, `server_seq`, `_pending_acks`, `_sync_pending`, the
  link between two relays and the frames on it.
* Operations: `/message:send` and `/peer/{id}/send` in their asynchronous, sync
  and `require_ack` forms, `_http_dedup_check` (3949), `_on_message` for
  messages, acks and replies, `POST /reply`.
* Hard: retries race answers; one table serves two deduplications with
  different rules; the id is recorded before anything can fail and the Event is
  registered after the ack may have come.
* Correct when: an id goes out at most once per window, is stored once by the
  receiver, and what a client is told happened did happen.

### Peer sessions — `PeerSessions`

* State: `_peers`, `_peer_ws`, `connected`, `peer_count`, and where each
  `on_guest` and `guest_mode` coroutine is.
* Operations: accept, register, retry (`P2P_MAX_RETRIES`), give up, the three
  levels of `_connect_with_nat_traversal`, `/peers/connect`, unregistering by
  HTTP threads that find a connection dead.
* Hard: every coroutine writes the same globals; cleanup looks a peer up by link
  and not by connection; HTTP threads register and count at the same time.
* Correct when: a link is one peer, a peer that counts as connected has a
  coroutine that will unregister it, the count is right, every dial ends.

### The other components

| Component, module | State | Hard | Correct when |
|---|---|---|---|
| Pages of tasks, `TaskPages` | the table of tasks, sorted by creation; a client's cursor or offset | the list and the filter change between two pages; `created_at` is a millisecond | a client that follows the cursor to its end has seen every task that stayed |
| Task dispatch, `Workers` | registry of workers, their filters and counters | the snapshot of the registry is old when a callback answers | only matching workers are posted to, and only arrivals are counted |
| Broadcast and topics, `FanOut` | registered sockets, subscriber sets, futures of pings | many sends, each of which may fail, time out or meet another socket; topics are deleted when empty | the report says of each peer what happened; a subscription stands; an early pong counts |
| Receive queue, `Inbox` | `_recv_queue` (bounded), the wake-up flag | several readers pop; pages and incremental fetches of a list that moves on | a message is taken once; a fetch that ends has missed nothing that is still there |
| Attribution, `Attribution` | names, counters, typing state, `last_received_message_id` of the entries | a frame tells its sender by a free text; a guest that comes back is a new entry | while names are certain, frames, acks and receipts go to their agent |
| Waiting for replies, `SyncReplies` | `_sync_pending` | ids are chosen by clients: two calls may wait under one | a reply read while its call waits is not missed; no future is left but of a failed send |
| WebSocket stream, webhooks, `WsStream` | `_ws_stream_clients`, `_push_webhooks`, bytes of frames on a socket | several threads write to one socket; replay and live events overlap | frames stay whole, a reconnecting client misses none, a webhook gets an event once |
| Evidence, `Evidence` | entries of a task, bounded queues of its watchers | number, append and announcement are three steps | a place is a number; a watcher misses only what fell between its replay and its registration |
| HTTP/2, `Http2` | streams of a connection, what is read and not sent | one thread for all streams; events arrive in batches | a whole request has an answer, of its own data |
| Hole punch, `HolePunch` | both sides' addresses and sessions, probes under way | four sorts of timeouts and late answers of earlier sessions | an answer is of this session; the call returns, and without a channel only if there was none |
| Address records, `NatSignal` | a record per token, for 30 s | read and delete are two steps | a record is given once and does not vanish |
| HTTP relay, `HttpRelay` | sessions in a key-value store, index of rooms | read, change, write back; limits cut off what cursors name | accepted messages are kept in order; a poller gets each once |
| Gateway, `Gateway` | agents, sockets, callbacks, queues | deliveries and sockets break between awaits | nothing accepted is lost but for a broken socket; a queue gives once |
| Federation, `Federation` | links between relays, queues for their peers | looked up under a lock, registered under another | a link is one relay; routed messages arrive in order |
| Local network, `LanDiscovery` | table of heard announcements, results of a scan | pruning depends on traffic; a pool of threads probes | the list is fresh, complete, and each new entry was told |
| Gates, `TaskGates` | counters per skill and peer, records, cached grades | checks and updates are unlocked on several threads | limits hold, tiers are lowered only by what was earned |
| Tokens, `CapabilityTokens` | issued and revoked tokens, delegation chain | a revocation looks, records and marks | revoked is for good; the gates agree |
| Card, `RuntimeCard` | principal chain, extensions, limitations, policies, availability | rebound by one thread while another reads | what is shown is what the answered requests made of it |
| Skills, `SkillCatalogue` | the card's skills, limitations patched over them | pages and queries read two sources | pages are the list; what is found is supported |
| Schedules, `Cron` | a candidate time | jumps over months, days, hours and minutes | nothing is skipped, what is found is meant, the search ends |
| Groups, `P2PGroups` | a list of members at each member | no server; posts arrive late and cross | lists agree when nothing overlaps |
| Client library, `SdkClient` | what is read of a stream and not yielded | chunks cut events anywhere; counts of a shared queue | a stream yields what was published |

## 3. Modules and code

Every module names its definitions after the functions or statements they stand
for. An action is what a thread or coroutine does between two points at which
another may run; where the code gives no such point, one action is the whole
handler. A definition whose name ends in `_Something` after the name of another
and whose comment begins with "Mutant" is a deliberately broken form of it: the
property it is paired with fails when it is put in place, which shows that the
property depends on that line of the code. Mutants are used by nothing else.

**TaskLifecycle.** Task objects are numbered; `table` maps ids to objects, as two
racing creations can leave one object unreachable. `pc[t]` is the statement
thread t is before, `loc[t]` its locals, `loc[t].then` what its handler does
after the call it is in. `CreateTask`/`StoreTask` are `_create_task`;
`GetTask`, `GuardTerminal`, `ReadOld`, `WriteStatus`, `AuditSeq`, `AuditAppend`,
`Announce` are `_update_task` and `_append_audit` statement by statement;
`Cancel`, `SpawnCanceller`, `FinishCancel` are the two phases of a cancel. The
constant `Unpreempted` says at which of these statements the interpreter never
switches threads: `{"old", "write"}` for CPython 3.10 and later, whose eval loop
looks for a switch only at calls and backward jumps; all of them for requests
that do not overlap. `OtherStates` are strings the protocol does not know, which
`:update` stores like any other. Artifacts, history texts and interaction records are data
without influence on the steps and are left out.

**OfflineQueue.** A message is its number in order of arrival, which also is its
time stamp. `Enqueue` and `InsertRow` are the two halves of `_offline_enqueue`;
`Pop`, `FlushOne`, `FlushFails`, `Purge` are `_offline_flush` with each `await` a
step; `Returned` is what its callers do with the count. `SweepMemory` and
`SweepRows` are the sweep of an HTTP thread, `Cutoffs` the lazy one. `Role` tells
a host (a guest that comes back is a new peer) from a guest (a link gets its id
back). `Crash` keeps only `rows`; `Restart` is `_pq_init`. History variables
record promises, sends and losses. A sweep compares time stamps as strings in
SQLite and as numbers in memory: `RowCutoffs` is that difference.

**EventStream.** A publisher takes a number, appends to the log, goes through the
subscriber list by position and sets the flag, each a step. A handler replays,
subscribes, takes events out, finds its queue empty, waits and clears. A handler
that ends takes out the first queue *equal* to its own (`list.remove`), which may
be another client's. `seen` is
what was written to a client over all its connections. A watcher
(`:subscribe`) ends with a final status it takes out, of any task.

**SendPath.** Two relays and one connection, which loses what is in flight when
it breaks. A request is looked up (`Request`), and if not known goes through
`Scan`, `Evict`, `Record` of `_http_dedup_check`, is refused or accepted, sent,
recorded and waited for. `ReceiveMsg`, `ReceiveAck`, `ReceiveReply` are branches
of `_on_message`, atomic since no thread but the HTTP threads can come between.
A message is acknowledged if a socket is found for the name it came from.
Time is the number of requests so far, with a mark `expired` that moves: the 30 s
window without a clock. `forgot` records ids that left the table before their
time, which two of the properties excuse.

**PeerSessions.** `peers` is `_peers` in order of its ids, with the socket of
each. `AcceptGuest`, `RegisterGuest`, `CardFails`, `GuestLeaves` are `on_guest`;
`AskLink`, `RegisterLink` are `/peers/connect`, `AskFederation`, `RegisterLink`,
`EnterFederation` the same in `/federation`, which looks at the relays it knows
and not at `_peers`; `Level1`, `Level1Fails`,
`JoinRelay`, `JoinFails` the levels of the NAT traversal; `Connected`, `CardSent`,
`Retry`, `Awake`, `GiveUp` are `guest_mode`; `UnregisterDead`, `CountPeers`,
`StoreCount` an HTTP thread whose send failed, any number of which may be under
way; `UnregisterOnly` a send of a batch, after which nobody counts. Level 2 is a failure, as its call always ends in
`TypeError` (section 8).

**TaskPages, Workers.** Tasks are numbered as they are created, with a coarse
stamp, so that the sort has ties; `Open` is the first request of a client and
`Page` each further one. `Enqueue`, `Copy`, `Post`, `Count`, `Reply` are one
`POST /tasks/queue`: the task, the snapshot of the registry, one callback, its
counter, the answer.

**FanOut.** Sockets of a peer are numbered; `live[p]` is the one that works,
`sock[p]` the one that is registered: they differ from the break until the relay
notices. A request takes one of its targets per step. **Inbox** has the deque
with both directions, `GET /recv` with its wait (`Sleep`, `Tick`), and two
readers that leave messages in. **Attribution** reads one frame per step and
keeps entries beside connections. **SyncReplies** is `_sync_pending` alone, with
calls of all three sorts under ids that may coincide.

**WsStream, Evidence, Http2.** `Publish` and `AppendLog` are the two lock regions
of `_broadcast_sse_event`, so that the log of a stream may be out of order. A
frame is written by two steps, as `sendall` may be cut off; `CanLock` is the lock of `_WsStreamClient`. In `Evidence`, `w[x].from`
is where the live part of a watcher begins. `Http2` takes the h2 library by the
events it reports (`Recv` hands the thread a batch, `Event` is one of it) and
the HTTP/1 handler as one step.

**HolePunch, NatSignal.** Both sides of a punch, their channel and the datagrams
in flight; an address is known only by what it is an address of. `NatSignal` is
the worker's store of address records.

**HttpRelay, Gateway, Federation, P2PGroups, LanDiscovery, SdkClient.** Each
handler is cut at its awaits (worker, gateway, groups: one event loop) or at its
locks and calls (relay threads). Posts, sockets and probes may fail or arrive
late. A link of a group is the member list it was made with (`MakeLink`), however
late it is used. `SdkClient` has the bytes of a stream: an event is plain, has a
character of two bytes, or one that `splitlines()` takes for an end of line, and
`Decoded` is what a chunk decoded on its own makes of them. `LanDiscovery` counts time in the longest wait of the listener.

**TaskGates, CapabilityTokens, RuntimeCard, SkillCatalogue, Cron.** Reads and
writes of module globals by HTTP threads are separate steps wherever the code
does something in between. `TaskGates` also has the arithmetic of tiers and
scores; of a skill's constraints it knows which parameters break no rule
(`fits`). `SkillCatalogue` has the filters and queries, and `Cron` the search over a
calendar of any size.

**Mailbox** is the abstract promise of the send path: each relay has a box; what
is handed over arrives in order or is lost, is stored unless the box has it, is
stored again only if its id was forgotten, and a sender is told only of what is
stored. `MCSendPath` gives the refinement mapping: under way is what is on the
wire and in the other's offline queue.

How they fit together: `OfflineQueue` and `PeerSessions` both have the lifetime
of a connection, the first with the flush in detail and the registry reduced to
ids, the second the other way round; `SendPath` takes the flush as one step and
the registry as a flag per relay; `FanOut` and `Attribution` have the registry
with sockets, for sends to many and for frames that come in; `Inbox` is what
`SendPath` fills; `TaskLifecycle` produces the events that `EventStream`
carries, and there are only their states here. The modules meet at named
operations (`_ws_send`, `_on_message`, `_broadcast_sse_event`), each of which is
modelled in full in one of them and as one step in the others.

## 4. Runs and bounds

Each run is an MC module (`MC...`) or a module itself, and a `.cfg`.
`CHECK_DEADLOCK FALSE` everywhere: the bounds stop each system, and a relay
nobody calls may rest.

The composites (`MCTaskLifecycle`, `MCEventStream`, `MCMessages`, `MCRelays`,
`MCGates`, `MCPeerSessions`) put components side by side that share no state. A
constant variable `part`, chosen in the initial state, says which one moves; the
others stand still, so that the states of the run are the sum and not the
product of theirs. A property of a composite is a conjunction of the properties
its parts state, under the same heading; the modules state and explain each
conjunct. For every conjunct there is a mutant that breaks it.

| Run | What is asked, and of what instance |
|---|---|
| `task` | `LogBalancesStatus`, `TerminalStaysTerminal` with a handler thread, the loop and two cancel threads switched at every call; `SerialCancelCompletes` (liveness: once `:cancel` has begun, whatever `:update` sets in between); `ClientsAreToldTrue`: `EventsTellTheLog`, `LastEventIsStatus` and `DecisionTakesEffect` for requests that do not overlap, the list of up to four tasks of two stamps in pages of one or two, and a client that polls one; `DispatchIsTrue` with two workers, two callers, a task id used twice |
| `events` | `SeqIsUnique`, `StreamIsComplete` with two publishers, a stream that comes back and a watcher; `FollowersMissNone`: a WebSocket client with pings and two publishers, a webhook registered by two threads, two submitters or two watchers of evidence; `RequestsAreAnswered` with two HTTP/2 streams of plain, large, streaming and bad requests |
| `send_retry` | `AnswersAreTrue`, `ImplementsMailbox` (refinement): a client of each relay, three requests with retries, a break, a move of the window, and a table of one entry |
| `messages` | `FlushedInOrder` for a host with two guests, three messages, a break, a crash and HTTP threads that unregister; `PromisesAreKept` for a guest with `--persist-queue` and a TTL, two breaks and a crash; `ReportsAreTrue` for one request to two peers, two callers about one, and three subscriptions or publications; `ReadersMissNothing` with five messages and a queue of four; `FramesFindTheirs` with three connections of two agents, two threads that send receipts, and three calls about one id |
| `relays` | `RelayKeeps` with two overlapping requests, a poller by time and one by id, and three fetches of address records; `GatewayDelivers` with two sockets of an agent; `GroupsAgree` with three members, a link, a late post and one that is down; `FederationIsSound` with two callers and one link; `YieldedIsPrefix` with chunks of three bytes that cut events and characters; `LanIsSeen` for a listener over five seconds and for a scan of two hosts |
| `gates` | `TiersAreEarned` for five standings and four histories, no request; `GatesHold` with two requests at once of seven sorts, and with one client that asks through six ticks of minutes and days; `TokensStand` with two clerks; `CardIsTrue` with two editors of each part of the card, and two skills read in pages while they are patched |
| `progress` | `OnePeerPerLink`, `NoGhostPeer`, `CountIsRight` with one guest, two dials of a link, two attempts each, and two HTTP threads that unregister and count; `PunchIsSound`; `TakenOnce` with two readers; `SearchIsRight` over two months; `EveryWaitEnds` (liveness: `DialSettles`, `ConnectReturns`, `QueueDrains`, `RecvReturns`, `SearchEnds`) |
| `queue_broken` | `PromiseKept`, violated (section 7) |
| `federation_route` | `RouteGoesOut`, violated |
| `cron_month` | `EverySearchEnds`, violated |
| `sdk_reply` | `ReplyIsTheirs`, violated |
| `messages_mixed` | `MessagesAreListed`, violated |

Passing runs also check the types of their parts (`TypeOK`, `TypesOK`), which
besides types hold the capacities: buckets, logs, retries, tables.

Bounds and why they suffice:

* *MaxRequests* 3, two cancel threads: every hazard listed for tasks needs
  at most two writers and a sleeping cancel, and with three requests the third
  can create, decide or end what the others are in the middle of.
* *MaxMsgs* 3, *MaxLen* 2: a bucket overflows, and keeps more than one message,
  so a flush can be cut off after the first and before the last. Two breaks make
  a second flush after a broken one; one crash makes a reload whose rows
  overflow the deque. Two peer ids are what two guests, or one that comes back,
  use up.
* *MaxEvents* 2 or 3 with *LogMax* 1 or 2: the log drops an event, two publishers
  are in the middle at once, and a client can be between any two events.
  *MaxLeaves* 1: one handler that leaves the list is enough to skip another.
* *SeenMax* 1: the cap evicts as soon as there is a second id. *MaxReqs* 3: a
  request, its retry, and a request of the other relay that evicts in between.
* *MaxSockets* 2, *Retries* 2: one dial loses its connection and comes back
  while a guest or the other dial has one; a dial that never connects gives up
  (which needs no socket). *MaxDead* 2: two HTTP threads count at once, or one
  counts while a batch unregisters. `CountIsRight` and the peers are checked with
  those threads (part `peers`), `DialSettles` without them (part `dials`): an
  unregistered peer changes no step of a dial.
* *MaxLinks* 1: one link is used twice, or after the list has changed.
* Pages of one or two elements over lists of two to five, queues of one or two
  places: a list changes before, at and behind every cursor, and every queue
  overflows. Two threads per operation that is cut into steps: all pairs of an
  operation and another, or itself, in every order; the properties that except
  overlapping requests do so for two as for more.
* Limits: two requests at once are checked against one per minute, one more as a
  burst, and three per day. In the part `rates` one client at a time has a limit of one a minute with
  one more as a burst, and of two a day, with minutes of two ticks, days of four,
  and six ticks in all: either window refuses while the other has room, and each
  fills, ends and starts anew, so that the counts across a border of windows are
  reached. Five standings are the best, those that lack one thing
  each test asks for, and the one of whom nothing is known.
* Months of two and three days, of two hours of two minutes: every field has a
  value that is jumped over and one that is hit, and a jump can cross each
  border. *LimitDays* lets a search fail.

Preconditions a property depends on are constants or history variables and
named in its comment, and they mark the edge of what the code guarantees; TLC
finds the property violated without them. `EventsTellTheLog`,
`LastEventIsStatus` and `DecisionTakesEffect` need requests that do not overlap; `QueuedIsStored` one
connection at a time; `StreamIsComplete` that no queue is taken out while an event is on its way, nor a client's own for an equal one;
`AdmittedOncePerWindow` one HTTP thread per relay; `OnePeerPerLink` one thread in `/peers/connect` and `/federation`, links that `--join`
does not dial and that had no peer when `/federation` registered them;
`NoGhostPeer` is about guests and links with one peer; `ListsAgree` needs links as
new as the list. Those that say "unless requests overlapped" carry a set of what was
overlapped (`overlapped`, `raced`, `twin`, `crossed`, `shared`, `met`) and hold
of everything outside it. What happens inside is in section 8.

## 5. Fairness

Only what the system itself schedules is fair. A thread inside a handler goes on
(`WF(Run(t))`: the interpreter gives each thread its turn), the sleep of a cancel
ends (`WF(FinishCancel(c))`), a publisher finishes its event and a handler whose
client is connected goes on, its wait ending after 30 s
(`WF(Serve(c))`), the loop runs what is ready and a connection attempt ends with
a socket or an error (`WF(Dial(d))`). The initiator of a hole punch takes its
next step or a timeout (`Connecting`, `Probe`, `PunchTimeout`: each wait in
16940-17288 has one), a reader of `/recv` goes on and its wait is looked at every
half second at the latest (`ReadStep`, `Tick`), and the search for a time is a
loop (`Step`). No client has to send, no connection to break or come back, no
frame, probe or answer to arrive. Only `task`, `progress` and `cron_month` state
fairness; everything else is safety.

## 6. Proofs

`TaskLifecycleProofs` proves about `TaskLifecycle`, for every number of handler
threads, cancel threads, tasks and requests, and whatever strings `:update` sets as
statuses (`OtherStates` stands for those no code knows):

* `TypeCorrect`: `Spec => []TypeOK`.
* `TerminalTasksStayTerminal`: if `{"old", "write"} \subseteq Unpreempted` then
  `Spec => TerminalStaysTerminal`: no interleaving re-activates a finished task.

The assumption of the second is the one fact of the implementation language the
code relies on. Without it the theorem is false: a switch between guard and
write re-activates a task, and TLC shows that as soon as `Unpreempted` is empty.

The argument. `TypeOK` alone is not inductive: `Announce`, `GuardTerminal` and
`AuditAppend` index the object tables with `loc[t].obj`, so a thread at one of
those statements must hold an object (`obj # 0`), and the handlers reach the
statements only with suitable locals. `TypeInv` adds that. `RequestForms` first
shows that the twelve kinds of requests and peer messages reach the table in
three ways only (create, call `_update_task`, log a decision and call it), so
that the invariance proof (`TypeStep`) has three cases for requests and one for
each statement. For the second theorem the strengthening relates the *moment*
between guard and write: while a thread is at `old` or `write`, either its target
is terminal, or the object is not; since nobody else runs there
(`MayRun`), the fact survives to the write. `NumberedGoto`, `GuardGoto` and
`ReturnObject` say what a move of one thread does to those facts, and
`ReactivationStep` collects them over all actions. New objects start outside
`Terminal` and get a number that no thread holds yet, which needs that `obj`
never exceeds `requests`.

The third theorem, `LogBalances`, says `Spec => []LogBalancesStatus` under the same
assumption: in any interleaving the log of a task enters each state as often as
it leaves it, once more for the present one, up to the entries still to be
written. It counts sets of log positions and threads. `LogInv` adds that the old
state a thread holds is still the status when it writes (`OldIsStatus`, which is
where the assumption is used), that what follows a creation is a note and no
transition (`NotesFit`), and that finitely many threads owe an entry at a time
(`FewOwe`: without it a cardinality says nothing).
`WriteBalance` moves one from "status" to "owed", `AppendBalance` from "owed" to
"logged"; `SameBalance` covers all that touches neither.

The fourth, `SerialRequestsTellTheTruth`, is about requests that do not overlap
(`Unpreempted = Points`, the instance `Serial` of the run `task`):
`Spec => [](DecisionTakesEffect /\ LastEventIsStatus)`, for any threads, tasks and
updates. `SerialInv` says where a decision is while its request runs: the last
entry of its object's log, with one thread on the way to the transition (`Brings`)
that the terminal guard will not stop and that changes the status; and where an
event is that is not announced yet (`Tells`). That needs one thread in a handler
at a time (`Alone`), objects that belong to one task (`OneTaskEach`), and threads
that work on their task's present object (`Here`), which overlapping creations of
one id break. `QuietSerial` covers every move that touches nothing shared;
`WriteSerial`, `AppendSerial` and `AnnounceSerial` are the steps that hand a
decision on. `EventsTellTheLog`, which filters the log, stays with TLC.

`PickingProofs` has what the other proofs need about sequences. A list
comprehension with a condition is modelled by `Pick(s, T)` (module `Picking`, a
recursive function): `PickedOfStep`, `PickAppend`, `PickTail` give its equations,
`PickPlaces` where each element came from, so that order and absence of
duplicates carry over. The library's induction theorems take operators, which the
provers cannot instantiate; `AllNumbers` is induction over a *set* of numbers
instead, proved from the least element of its complement.

`EventStreamProofs` proves for any number of publishers, handlers, clients and
events, any size of the log:

* `NumbersAreUnique`: `Spec => []SeqIsUnique`. A publisher takes `seq + 1`, which
  is new only if no number in the log or in a publisher's hands is above `seq`:
  `Taken` adds that. `TakeSeqStep` and `AppendLogStep` are the two steps that
  matter. The proof uses that `TakeSeq` is one step, which is what
  `_sse_seq_lock` is for.
* `StreamTypes`: `Spec => []TypeOK`, the capacity of the log among it.
* `StreamsAreComplete`: `Spec => []StreamIsComplete`: a stream that is in the list
  of subscribers is offered no event twice that was published after it
  subscribed, and each of them except those in `skips` (a queue was taken out
  behind the loop while the event was on its way). The fan-out goes through the
  list by position and without a lock, and a handler that ends takes out the
  first queue *equal* to its own, perhaps another's. So the invariant (`FanInv`)
  is about places: each is one client's (`SubscribedOnce`), and the client of a
  place has an event if and only if the publisher of the event is past the place
  (`OfferedOnce`, `ToldOnce`). `FanOutStep` offers, `SubscribeStep` appends a place
  behind everybody, removal shifts the places and puts into `skips` the events
  whose loop was past them, `TakeOneKeeps` moves an event from queue to client.

and about the other parts of the composite, under `FollowAssumption` (its actors
are different, its numbers natural):

* `FollowersHold`: `MCSpec => []FollowersMissNone`. `FrameInv` is about the WebSocket
  stream: who holds which lock (`Locks`), what is on a wire (`Wires`), who is on the
  list (`Lists`), and that a live client gets every event that was in the log when
  it read it or is appended later (`Getting`), where an event between its number
  and its place in the log is not promised. `HookInv` is about webhooks (one push
  per event and address unless registrations raced), `EvInv` about evidence: what
  a watcher misses was stored between its replay and its registration.
* `RequestsHold`: `MCSpec => []RequestsAreAnswered`, HTTP/2. `FramesFit` orders the
  frames under way of each request, `AllUnderWay` says they are exactly those
  behind the ones taken, so that an answer is `Answered` from a whole request.
* `FollowTypes`: `MCSpec => []TypesOK`.

`PeerSessionsProofs` proves about `PeerSessions`, for any number of guests, dials,
links, attempts, sockets, threads and unregistrations:

* `NoGhosts`: `Spec => []NoGhostPeer`, however many threads connect or federate and
  whatever `--join` dials. `SessionInv` ties a connected peer to the coroutine that
  holds its socket (`SocketInUse`): by the local id for a guest, by link for a dial.
  A link can have several peers (`/federation` and overlapping `/peers/connect`
  make them, section 8); then `guest_mode`, which looks up by link, gives its
  socket to one and unregisters another, so the property is about guests and
  about links with one peer (`Sole`).
* `LinkIsOnePeer`: if `OneThread` and `Joined = {}` then
  `Spec => []OnePeerPerLink`, about the links that `/federation` did not take over
  from another registrar (`doubled` are those). `Links1`: the thread that found no
  peer is alone (`AskedIsNew`), every dial has a peer to go back to (`DialHasPeer`)
  and such a link has one dial (`OneDialPerLink`). With two threads, or a link that
  `--join` dials, TLC violates it.
* `PeerCountIsRight`: `Spec => []CountIsRight`, for any number of threads between
  counting and storing. `Tally`: a thread that is not `late` (the registry changed
  since it counted) stores what is right, and the stored count is wrong only
  while somebody is still to count or to store such a number, or after one that
  was late or a send that failed without counting (`stale`).
* `PunchHolds`: `MCSpec => []PunchIsSound`, with `OnlyDead`: where the hosts are apart
  and STUN answers, nobody is ever told an address that a probe gets through to.
* `ReadOnce`: `MCSpec => []TakenOnce`. Every message is in the queue, in the hands
  of a reader, in one answer, evicted or lost (`Somewhere`, `Apart`), and a reader
  that is alone finds what it counted (`Counted`). `ReadAssumption` is about the
  sizes.

`MailboxProofs` proves two theorems about `Mailbox`, for every set of boxes and
ids: `StoredOnceUnlessForgotten` (`Spec => []AtMostOnce`: a box has an id twice
only if it forgot it in between) and `ToldForGood` (`Spec => []ToldIsStored`:
what a sender was told is true and stays so). `TypeCorrect` is the lemma both
need; `BoxGrows` says that no step takes anything out of a box.

`SendPathProofs` proves for any threads, ids, requests, breaks and size of the
table of seen ids:

* `SendTypes`: `Spec => []TypeOK`. The number of Events in `_pending_acks` is
  bounded by the threads that wait (`WaitersHaveEvents`), and `server_seq` by the
  requests: `NumbersAreRequests` counts those that will still take a number.
* `AnswersHold`: if each relay has one HTTP thread in its deduplication at a time
  (`OneThreadEach`), `Spec => []AnswersAreTrue`. `AckedMeansStored` and
  `CachedNumbersWereSent`, its second and third conjunct, hold without the
  assumption. For the first, `AdmitsAreRemembered` says that who let an id through
  finds it in the table until the window or the cap took it, and what a thread
  between lookup and record has already found. With two threads per relay TLC
  shows an id going out twice (section 8).
* `TwoRelaysAreMailboxes`: `Spec => ImplementsMailbox`, the refinement, without
  assumptions on threads. Every action is mapped to one of `Mailbox` or a stutter
  (`SendHands`, `ReceiveStores`, `BreakLoses`, `AnswersTell`, `TablesForget`, ...):
  a flush moves frames from the offline queue to the wire, which the mapping puts
  in one sequence. It needs `TableIsTrue`: what a relay stored is in its table or
  was forgotten, and the other way round, so that a frame that is dropped on
  arrival has been stored before.
* `RetriesAreStoredOnce`: what `MailboxProofs` proves of boxes, read back through
  the mapping: what `/recv` has twice left the table of ids in between.

`RelaysProofs` proves about the parts of `MCRelays`, with `GatewayAssumption` and
`RelaysAssumption` on what of sets the constants are:

* `GatewayTypes` and `GatewayHolds` (`Spec => []GatewayDelivers`), for any agents,
  sockets, size of a batch and messages. `GatewayInv` follows a message through the
  handlers: it is in one place (`OnePlace`: the queue, one handler's batch, given),
  is queued by the one delivery that has it (`Numbered`), a handler waits for the
  delivery of what it read (`HandlersWait`), and the one active handler of an
  agent that no second socket, failed send or unregistration has touched holds
  the attached socket (`OneHandler`).
* `FederationHolds`: `SpecAll => []FederationIsSound`. `OneRegistration` says who may
  still register a link, `EnvelopesNumbered` that envelopes under way, queued and
  given are numbered in one order.
* `RelayHolds`: `SpecAll => []RelayKeeps`. `RelayInv`: sessions hold their messages in
  order and no id twice (`SessionsSound`), what a request found is still there
  unless evicted or overlapped (`FoundIsThere`, `KeptThere`), the cursors of pollers
  and guests are at what they have read (`CursorsFollow`, `GuestsFollow`), rooms are
  in the index (`IndexHeld`). `SignalInv` for address records: a fetch that no other
  crossed reads what is there (`ReadIsFresh`), so that a record is given out once
  and never lost unread.
* `GroupsHold`: `SpecAll => []GroupsAgree`. `MembersListThemselves` and
  `InvitedHaveJoined` hold whatever overlaps. `Agreeing` is about groups in which no
  operation overlapped, no post was lost and nobody joined by a link older than
  the list (`~faulty`): the lists agree up to the one operation under way, and a
  post about a join goes only to those on the list it carries (`TellsListed`).

`OfflineQueueProofs` proves for any agents, buckets, messages, capacity, breaks
and crashes, for host and guest:

* `QueueTypes`: `Spec => []TypeInv`, that is `TypeOK` with the capacity of the
  buckets, and that a flush at its `send` has something to send.
* `OnceAndInOrder`: `Spec => []FlushedInOrder`. `OrderInv`: all sequences are in
  the order of arrival (`AllIncrease`), a message is in one bucket, in the hands of
  one flush, or sent in this life (`Apart`), and of one bucket what was sent is
  older than what the flush has left, and that older than what waits
  (`OlderFirst`). Losing messages anywhere keeps all of it (`LosingKeepsOrder`,
  for overflow, sweeps and broken flushes); what comes in is newer than
  everything (`EnqueueKeepsOrder`); `RestartKeepsOrder` needs that the table's
  rows are in order, too.
* `PromisedIsKept`: with `--persist-queue`, one link (`Agents = {h}`) and no
  unregistering from HTTP threads (`~Unregisters`), `Spec => []KeptPromises`.
  All three are needed: without rows a crash loses all, two links can both flush
  the default bucket and one purges a row the other's `Enqueue` has just promised,
  and a peer that is unregistered while its flush runs gets messages into the
  bucket that the end of the flush purges (TLC shows each).
  `DurableInv` relates memory, table and link: what waits, or is in a flush's
  hands, has its row (`WaitingIsStored`, `FlushingIsStored`), the message of a row
  waits, is in the hands of a flush of the row's bucket, or is settled
  (`RowsAreHeld`), what was promised is settled or has a row (`PromisedIsStored`),
  and the bucket of a link stays empty from the `Pop` until the link goes down
  (`LinkInv`), as a live peer's messages are sent and not queued. So `Purge`, which
  deletes every row of the bucket, deletes only rows of settled messages.
  `SweepsAreOld` covers a sweep of an HTTP thread between memory and table.

The assumptions on constants are named (`TaskAssumption`, `StreamAssumption`,
`FollowAssumption`, `SessionAssumption`, `ReadAssumption`, `SendAssumption`,
`GatewayAssumption`, `RelaysAssumption`, `QueueAssumption`) and
say only of what sets constants are; the assumptions of a theorem beyond them are
in its statement and above.

Only model-checked: the properties of section 4 that no theorem above names, and
of the conjunctions the composites check those parts whose modules have no
proofs. Liveness under fairness (`SerialCancelCompletes`, `EveryWaitEnds`) and
anything about `ENABLED` is beyond the prover. `SearchIsRight` computes over a
calendar by cases that TLC decides for a small one. The gates, tokens and cards
(`gates`), the local network and the reader of the client library (`relays`), the
sends to many, the sync replies and the attribution (`messages`), and the pages
and workers of tasks (`task`) are modules whose properties are exhausted by small
instances: two requests that overlap, and little data that grows.

## 7. Disagreements between code and documentation

| Run | The text says | The code does |
|---|---|---|
| `queue_broken` | `docs/comparison.md:166`: buffers "and flushes them upon reconnect — no lost messages" | 6484 breaks off at the first failing send and drops what is left of the popped deque |
| `federation_route` | `CHANGELOG.md:235`: "Route message to a peer on a remote relay" | 13388 passes socket, peer and envelope to `_ws_send(msg, peer_id, ...)`: every route fails with 502 |
| `cron_month` | 2153: "Iterate up to 4 years to find a match", 2157: "Jump to next valid month" | 2156-2160 goes to the second of the same month for ever, when the month is not the current one |
| `sdk_reply` | `relay_client.py:548`: "wait for the first reply that arrives after sending" | 541-566 returns the last of a longer list, which may be the message just sent |
| `messages_mixed` | `docs/CHANGELOG.md:855-864`: `GET /messages` lists the history with paging | 9590 sorts floats (6118) together with texts (12222): 500 as soon as both directions are there |

## 8. Observations that no run carries

Met while modelling, most of them as a counterexample to a stronger form of a
property or a wider constant; each is kept in the model as the code has it.

* Tasks: with overlapping requests two audit entries can take one `seq`, against
  `docs/CHANGELOG.md:633` ("seq-monotonic"), and events can be announced in
  another order than logged. Two creations with one
  client-supplied id both store; one object is lost with its log. `:update` takes
  any string as a status (14076): after "cancelling" no second phase runs, so the
  task stays there, and a later `:cancel` answers that it is already in progress.
* Queue: after a restart `peer_001` is another agent, which is sent what was
  queued for the old one. The bucket of a guest that came back under a new id is
  never flushed. The default bucket is flushed only if the peer's own delivered
  nothing, against the comment at 6704. `ConnectionClosed` is not a
  `ConnectionError`, so a message for a broken socket is not queued (6620). Two
  guests that flush the default bucket can delete the row of a message queued
  meanwhile (6487).
* Stream: the log is not always "ordered by seq" (369). A `:subscribe` stream
  ends with any task's final status (10644) against `spec/core-v0.5.md:314`. A
  handler that leaves makes a running fan-out skip its neighbour (4023), and takes
  out the first queue *equal* to its own (10653, 10913: `list.remove` on deques),
  which may be that of another client, who gets nothing more.
* Send path: with two HTTP threads `_http_dedup_check` can delete a fresh entry
  and let the id through again, or raise (3958 calls it thread-safe). The retry
  of a refused request is answered ok and deduplicated, without a number, and
  never sent. Entries made by the WebSocket side have no time stamp and are
  evicted by the next HTTP request. A duplicate gets no second ack (3938). A
  failed sync send leaves its future behind (12175). `_ws_send` on the legacy
  path holds a `threading.Lock` over an `await` (6618).
* Sessions: `/peers/connect` for a link that `--join` dials makes a second peer,
  and when one connection ends, the other's peer is unregistered instead. Two
  HTTP threads in `/peers/connect` do the same. A dial that gives up marks every
  peer of the relay disconnected (6928), and any guest that leaves clears
  `_peer_ws` and `connected` for all (6732). A link that was given up is never
  dialled again. Level 2 calls `attempt` with an argument it does not take
  (6958, 16887). After the fallback nothing uses `_http_relay_send`, so messages
  stay queued (6822). `POST /federation` looks for its link among the federated
  relays only (13259) and registers a second peer for one that is in `_peers`.
  `peer_count` is counted without a lock (12623) and stored later: of two threads
  the one that counted first may store last; a failed send of a batch and of the
  WebSocket side marks a peer disconnected without counting (12792, 4505).
  `_peers` is iterated on the loop while HTTP threads insert.
* Final statuses: one terminal status can replace another: the second phase of a
  cancel turns `completed` into `canceled` (5733), against `spec/core-v1.0.md:182`
  (terminal states "cannot transition to any other state").
* Replays: an event published between the replay and the subscription of a
  reconnecting client is lost to it (10899), against 365 ("without data loss").
  The WebSocket stream registers first, against its comment (4285), and may send
  an event twice or out of order; it replays "acp.status" for what was live
  "acp.task.status", answers a ping with an extra empty frame, and writes the
  pong without the lock (4312). An event gets its number (4016) before it is in the
  log (4021): a client that has seen a later number and comes back with it as
  cursor misses an earlier one that is appended afterwards, on both streams.
* Acks: the Event of `require_ack` is registered after the send (12297, 12655);
  a faster ack is "unsolicited" and the request times out, against 902-903.
* Sends to many: a batch is not all-or-nothing (`README.md:416`, 12706); a
  multicast to an unknown peer goes to the last connected one and is reported
  ok; a list of one peer is ignored; a timed-out send is reported failed though
  it may arrive; a failing send over an old socket unregisters a newer one.
  Overlapping subscribe and unsubscribe can lose a subscription or answer 500.
* Reading: two readers of `/recv` can lose what one of them popped (9503);
  `/recv` returns sent messages too; numbers of received messages are the
  sender's, so an incremental fetch fails when sent ones are in the queue
  (`README.md:298`). The history of a peer has only one direction, though line 10
  promises both (12220 names no peer).
* Attribution: `_ws_ctx` (324) is assigned nowhere but as a local (6842), so the
  single-peer fallback never applies. A guest that comes back has a new entry,
  while its name leads to the old one: its messages are counted there and never
  acknowledged (6183). Cards of two guests that cross are swapped. Typing stays
  on after a disconnect; the read receipt is one for the whole relay.
* Waiting: a second wait for an id replaces the first one's future, whoever ends
  pops what is there, and a send that fails leaves its future and, with
  `create_task`, a task that stays "working".
* Tasks dispatched: tasks have no `from_peer_id`, so a worker that filters by
  peer gets none (347); a repeated id is dispatched again; `sse_url` names a path
  that is not routed; a new registration resets the count.
* HTTP/2: an event stream sends nothing and holds the connection's only thread,
  against `docs/CHANGELOG.md:1293`; an answer longer than one frame gets headers
  and no end (15638); GOAWAY or a bad body drops answers made in the same batch.
* NAT: the STUN request uses a socket of its own (16713), so the mapped address
  is not that of the probing socket; `dcutr_result` is read by nobody; other
  messages that come while a side waits are dropped (17066).
* Local network: the listener repeats the placeholder token (16488), so peers
  list a dead link; ignored packets skip the pruning (1084); a relay lists
  itself; a restarted relay replaces its link without an event; a scan keeps one
  port per host and drops the announced ones of that host.
* HTTP relay and gateway: overlapping requests of the worker lose a message or a
  join, and may give two messages one number (214). The gateway queues what it
  delivered over a socket as well (202), and the end of an old socket detaches a
  newer one.
* Groups: the invitation of a founder whose URI has a query parses to another
  group (`acp_p2p.py:158`); a late message creates a left group again (563);
  concurrent invitations forget a member (575). An invitation holds the list of the moment it
  was made (158, 387): who joins by a link that was used before posts a list
  without those who joined in between, and the members who take it over forget
  them (575).
* Gates: the rate quota is spent before the token and the skill are checked
  (13960); overlapping requests pass a limit together (4877); a failed query is
  cached like a grade (4942); three comments on tiers disagree with the code
  (5167, 5211, 5294); `bilateral` is never true for `POST /tasks` (against 1851).
  A token that was revoked is refused by validation only (14862), not by
  `POST /tasks`. A token is good on its last second (1806, `exp < now`), against the
  docstring ("exp > now", 1793). Revoking an unknown token is answered 200 (14973; 14924 says
  404). Overlapping delegations lose one (11138).
* Card: a skill is listed by the card's limitations and shown with the patched
  ones (9187, 9206), and `/skills/query` knows only the card's (14507), though
  `README.md:295` calls the patch a runtime update; a PATCH refused with 400 keeps
  what it had written (15262); `min_trust_score` is ignored when a skill is
  named; a stored `next_active_at` outlives a change of the schedule (2199).
* Schedules: days of the week are compared with the wrong numbers, only Sunday
  is converted (2161): "0 9 * * 1" also matches Tuesday, against 2132.
* Client library: a reply that comes with fewer messages than counted before is
  dropped; the first event of `auto_stream` may be an older or own message;
  `wait_for_task` of the asynchronous client does not know "rejected". The readers
  of event streams decode each chunk by itself with `errors='replace'`
  (`relay_client.py` 375, 873; `client.py` 356; `async_client.py` 334), so that a
  character cut by the border of a chunk is garbled, and `splitlines()` also ends
  a line at U+2028 and U+0085.
* HTTP relay: a message id that was cut off a full session may be sent again; a
  poller whose `last_id` it is then goes on behind the new one and misses what
  came in between (`lapped`), which `CursorReadsOnce` excepts.

## 9. Not modelled, and why

* *Reads and arithmetic*: reputation, trust signals, verification of interaction
  records and of cards (4700-5523), statistics. What decides whether a request
  is refused is modelled (`TaskGates`, `CapabilityTokens`) with signatures taken
  as good; elsewhere a refusal is a choice (`Refuse`).
* *Cryptography and encoding*: keys, `did:acp`, RFC 9421 signatures
  (`relay/identity.py`), the replay window, layout and signature of the card.
* *I/O*: HTTP/1 parsing and routing, command line, configuration,
  documentation endpoints, STUN messages.
* *Clients*: Node, Go, Java and Rust SDKs and the calls of the Python clients
  that are one request and one answer; the in-process bus; sessions of the
  peer-to-peer SDK (246-331), which are the send path in small. Scripts, demos
  and examples are no part of the running system.
* *Suspended sends*: a send is one step in every module. That `_ws_send` holds a
  `threading.Lock` over an `await` on the legacy path (6618) is a hazard without
  a property.
* Within the modelled components: recipients "topic:..." of the gateway (189),
  agents that invite themselves, replies with a correlation id to requests that
  were not sent with `sync`, artifacts and history texts of tasks, audit
  entries of expired messages, search by tag and keyword.

## 10. Plan

What is left, in this order.

1. Proofs: `RevokedForGood` of `CapabilityTokens`, the answers of `TaskGates`.
2. The suspended sends of one loop with their two locks.
3. Sessions of the peer-to-peer SDK, and the cache of verified cards.
4. Recipients "topic:..." of the gateway.
