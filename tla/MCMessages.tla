------------------------------ MODULE MCMessages ------------------------------
(* Messages that are queued, fanned out and read, for TLC.  Each behaviour  *)
(* is one of one part: OfflineQueue at a host ("order") and at a guest      *)
(* ("durable"); FanOut with many peers ("many"), two callers ("pair") or    *)
(* topics ("topic"); Inbox with clients that read page by page ("pages");    *)
(* Attribution with three connections of two agents ("who") and with two    *)
(* senders of read receipts ("receipt"); SyncReplies ("sync").              *)
EXTENDS OfflineQueue, Integers, TLC

CONSTANTS t1, t2, t3, a1, a2, l1, l2, l3, Stranger

VARIABLES
  part,
  conn, fanSock, fanLive, fanLegacy, queued, got, home, members, blog, pending, call, calls, reports, standing, early,
  box, counts, came, evicted, flag, rd, asks, answers, lost, overlap, pager, fetcher,
  order, entry, alive, clock, wire, total, lastRecv, acks, sender, receipts,
  counted, typed, met, cut, doubtful, frames, breaks, sends,
  futures, request, scheduled, resolved, asked, replies, answered, shared, late

fanVars == <<conn, fanSock, fanLive, fanLegacy, queued, got, home, members, blog, pending, call, calls, reports, standing, early>>
boxVars == <<box, counts, came, evicted, flag, rd, asks, answers, lost, overlap, pager, fetcher>>
whoVars == <<order, entry, alive, clock, wire, total, lastRecv, acks, sender, receipts,
             counted, typed, met, cut, doubtful, frames, breaks, sends>>
syncVars == <<futures, request, scheduled, resolved, asked, replies, answered, shared, late>>

TwoAgents == {a1, a2}

(* OfflineQueue as it is extended is a host of two guests; this is a guest. *)
Durable == INSTANCE OfflineQueue WITH
  Agents <- {a1}, Role <- "guest", Ttl <- TRUE, Unregisters <- FALSE, MaxPeers <- 1, MaxBreaks <- 2

Ask(kind, names) == [kind |-> kind, topic |-> a1, names |-> names]
Many == INSTANCE FanOut WITH
  Callers <- {t1}, Peers <- {a1, a2}, Topics <- {}, MaxCalls <- 1, MaxSockets <- 2, LogMax <- 1,
  live <- fanLive, legacy <- fanLegacy, sock <- fanSock,
  Wanted <- {Ask("broadcast", <<>>), Ask("broadcast", <<a2>>), Ask("cast", <<a1, Stranger>>),
             Ask("batch", <<a1, a2, a1>>), Ask("frame", <<Stranger>>)}
Pair == INSTANCE FanOut WITH
  Callers <- {t1, t2}, Peers <- {a1}, Topics <- {}, MaxCalls <- 2, MaxSockets <- 2, LogMax <- 1,
  live <- fanLive, legacy <- fanLegacy, sock <- fanSock,
  Wanted <- {Ask("batch", <<a1, a1>>), Ask("ping", <<a1>>), Ask("broadcast", <<a1, a1>>)}
Topic == INSTANCE FanOut WITH
  Callers <- {t1, t2}, Peers <- {a1, a2}, Topics <- {a1}, MaxCalls <- 3, MaxSockets <- 1, LogMax <- 1,
  live <- fanLive, legacy <- fanLegacy, sock <- fanSock,
  Wanted <- {Ask("sub", <<a1>>), Ask("sub", <<a2>>), Ask("unsub", <<a1>>), Ask("unsub", <<a2>>), Ask("publish", <<>>)}

Pages == INSTANCE Inbox WITH
  Readers <- {}, Clients <- {"pager", "fetcher"}, Limits <- {1}, PageLimit <- 1, QueueMax <- 4,
  MaxSlices <- 1, MaxAsks <- 0, MaxIn <- 5, MaxOut <- 0, arrived <- came, queue <- box

Who == INSTANCE Attribution WITH
  Links <- {l1, l2, l3}, Agents <- {a1, a2}, AgentOf <- (l1 :> a1 @@ l2 :> a2 @@ l3 :> a1), Dialled <- {l2},
  Threads <- {}, None <- Nobody, MaxFrames <- 2, MaxBreaks <- 1, MaxSends <- 0, got <- counted, overlap <- met
Receipt == INSTANCE Attribution WITH
  Links <- {l1}, Agents <- {a1}, AgentOf <- (l1 :> a1), Dialled <- {},
  Threads <- {t1, t2}, None <- Nobody, MaxFrames <- 3, MaxBreaks <- 1, MaxSends <- 3, got <- counted, overlap <- met

Sync == INSTANCE SyncReplies WITH
  Calls <- {t1, t2, t3}, Ids <- {a1}, MaxReplies <- 2,
  pending <- futures, call <- request, came <- answered

(* The variables of the parts that a behaviour is not about.                *)
NoQueue == up = 0 /\ mem = 0 /\ rows = 0 /\ adding = 0 /\ sweeping = 0 /\ peerOf = 0 /\ live = 0
  /\ legacy = 0 /\ sock = 0 /\ pc = 0 /\ flush = 0 /\ handled = 0 /\ to = 0 /\ promised = 0
  /\ sent = <<>> /\ everSent = 0 /\ dropped = 0 /\ cutOff = 0 /\ broke = 0 /\ crashes = 0
NoFan == conn = 0 /\ fanSock = 0 /\ fanLive = 0 /\ fanLegacy = 0 /\ queued = 0 /\ got = 0 /\ home = 0
  /\ members = 0 /\ blog = 0 /\ pending = 0 /\ call = 0 /\ calls = 0 /\ reports = 0 /\ standing = 0
  /\ early = 0
NoBox == box = 0 /\ counts = 0 /\ came = 0 /\ evicted = 0 /\ flag = 0 /\ rd = 0 /\ asks = 0
  /\ answers = 0 /\ lost = 0 /\ overlap = 0 /\ pager = 0 /\ fetcher = 0
NoWho == order = 0 /\ entry = 0 /\ alive = 0 /\ clock = 0 /\ wire = 0 /\ total = 0 /\ lastRecv = 0
  /\ acks = 0 /\ sender = 0 /\ receipts = 0 /\ counted = 0 /\ typed = 0 /\ met = 0 /\ cut = 0
  /\ doubtful = 0 /\ frames = 0 /\ breaks = 0 /\ sends = 0
NoSync == futures = 0 /\ request = 0 /\ scheduled = 0 /\ resolved = 0 /\ asked = 0 /\ replies = 0
  /\ answered = 0 /\ shared = 0 /\ late = 0

MCInit ==
  \/ /\ NoWho /\ NoSync
     /\ \/ part = "order" /\ Init /\ NoFan /\ NoBox
        \/ part = "durable" /\ Durable!Init /\ NoFan /\ NoBox
        \/ part = "many" /\ Many!Init /\ NoQueue /\ NoBox
        \/ part = "pair" /\ Pair!Init /\ NoQueue /\ NoBox
        \/ part = "topic" /\ Topic!Init /\ NoQueue /\ NoBox
        \/ part = "pages" /\ Pages!Init /\ NoQueue /\ NoFan
  \/ /\ NoQueue /\ NoFan /\ NoBox
     /\ \/ part = "who" /\ Who!Init /\ NoSync
        \/ part = "receipt" /\ Receipt!Init /\ NoSync
        \/ part = "sync" /\ Sync!Init /\ NoWho

Parts ==
  \/ part = "order" /\ Next /\ UNCHANGED <<fanVars, boxVars, whoVars, syncVars>>
  \/ part = "durable" /\ Durable!Next /\ UNCHANGED <<fanVars, boxVars, whoVars, syncVars>>
  \/ part = "many" /\ Many!Next /\ UNCHANGED <<vars, boxVars, whoVars, syncVars>>
  \/ part = "pair" /\ Pair!Next /\ UNCHANGED <<vars, boxVars, whoVars, syncVars>>
  \/ part = "topic" /\ Topic!Next /\ UNCHANGED <<vars, boxVars, whoVars, syncVars>>
  \/ part = "pages" /\ Pages!Next /\ UNCHANGED <<vars, fanVars, whoVars, syncVars>>
  \/ part = "who" /\ Who!Next /\ UNCHANGED <<vars, fanVars, boxVars, syncVars>>
  \/ part = "receipt" /\ Receipt!Next /\ UNCHANGED <<vars, fanVars, boxVars, syncVars>>
  \/ part = "sync" /\ Sync!Next /\ UNCHANGED <<vars, fanVars, boxVars, whoVars>>

MCNext == Parts /\ UNCHANGED part

MCSpec == MCInit /\ [][MCNext]_<<part, vars, fanVars, boxVars, whoVars, syncVars>>

(* Types of the parts.                                                      *)
TypesOK ==
  /\ part = "order" => TypeOK
  /\ part = "durable" => Durable!TypeOK
  /\ part = "many" => Many!TypeOK
  /\ part = "pair" => Pair!TypeOK
  /\ part = "topic" => Topic!TypeOK
  /\ part = "pages" => Pages!TypeOK
  /\ part = "who" => Who!TypeOK
  /\ part = "receipt" => Receipt!TypeOK
  /\ part = "sync" => Sync!TypeOK

(* What a sender was told is queued survives overflow, sweeps and crashes,  *)
(* unless a flush that breaks off gives it up, and a flush that ends has    *)
(* sent all of it.                                                          *)
PromisesAreKept ==
  part = "durable" => Durable!KeptPromises

(* Of a request about many peers each is told what happened to its part:    *)
(* who is reported as sent to was sent to, subscriptions stand, and a pong  *)
(* that came early counts.                                                  *)
ReportsAreTrue ==
  /\ part = "many" => Many!ReportsAreTrue
  /\ part = "pair" => Pair!ReportsAreTrue /\ Pair!EarlyPongCounts
  /\ part = "topic" => Topic!ReportsAreTrue /\ Topic!SubscriptionsStand

(* A client that reads by pages or from the last number it saw misses none  *)
(* of the messages that stay.                                               *)
ReadersMissNothing == part = "pages" => Pages!PagesMissNothing /\ Pages!FetchMissesNothing

(* What comes in finds the one it belongs to: names, counters, acks and     *)
(* receipts their peer, replies the call that waits for them.               *)
FramesFindTheirs ==
  /\ part = "who" => Who!NamesAreTheirs /\ Who!FramesAreCredited /\ Who!AcksGoBack
  /\ part = "receipt" => Receipt!ReceiptOnce
  /\ part = "sync" => Sync!ReplyIsNotMissed /\ Sync!WaitersAreWaiting
===============================================================================
