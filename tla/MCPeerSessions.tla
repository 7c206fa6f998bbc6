--------------------------- MODULE MCPeerSessions ---------------------------
(* What has to come to an end, for TLC.  Each behaviour is one of one part: *)
(* dials and guests (PeerSessions), with threads that unregister and count  *)
(* ("peers") or without ("dials", to the end); the hole punch of HolePunch  *)
(* ("punch"); a published event of EventStream ("stream"); GET /recv of     *)
(* Inbox ("recv"); the search of Cron ("cron").                             *)
EXTENDS PeerSessions, Integers, TLC

CONSTANTS MaxTries, MaxListens, MaxOthers, MaxPublished,
  Readers, Limits, PageLimit, QueueMax, MaxSlices, MaxAsks, MaxIn,
  p1, s1, w1, k1

VARIABLES
  part,
  net, ini, res, toIni, toRes, relayOpen, udp, hole, punches, listens, others, direct,
  seq, log, subs, events, wake, pub, at, seen, joined, leaves, skips,
  queue, counts, arrived, evicted, inFlag, rd, asks, answers, lost, overlap, pager, fetcher,
  expr, base, candidate, cron, odd

punchVars == <<net, ini, res, toIni, toRes, relayOpen, udp, hole, punches, listens, others, direct>>
streamVars == <<seq, log, subs, events, wake, pub, at, seen, joined, leaves, skips>>
recvVars == <<queue, counts, arrived, evicted, inFlag, rd, asks, answers, lost, overlap, pager, fetcher>>
cronVars == <<expr, base, candidate, cron, odd>>

(* A queue holds something, and limits are numbers.                         *)
ASSUME ReadAssumption == QueueMax \in Nat \ {0} /\ Limits \subseteq Nat /\ MaxSlices \in Nat

NoJoin == {}
Every == [from |-> -1, to |-> -1, step |-> 1]
Only(v) == [from |-> v, to |-> v, step |-> 1]
From(a, b, n) == [from |-> a, to |-> b, step |-> n]

Punch == INSTANCE HolePunch WITH tries <- punches
Stream == INSTANCE EventStream WITH
  Publishers <- {p1}, Streams <- {s1}, Watchers <- {w1}, Tasks <- {k1}, Watched <- w1 :> k1,
  Finals <- {TRUE}, LogMax <- 2, MaxEvents <- MaxPublished, MaxLeaves <- 1,
  queue <- events, flag <- wake
Recv == INSTANCE Inbox WITH Clients <- {}, MaxOut <- 0, flag <- inFlag

(* Two months of two and three days, of two hours of two minutes each.      *)
Search == INSTANCE Cron WITH
  MinutesInHour <- 2, HoursInDay <- 2, MonthDays <- <<2, 3>>, FirstWeekday <- 3, LimitDays <- 36,
  Bases <- {0, 27},
  MinuteFields <- {{Every}, {Only(1)}},
  HourFields <- {{Every}, {Only(0)}, {From(0, 1, 1)}},
  DayFields <- {{Every}, {Only(2)}, {From(1, -1, 2)}},
  MonthFields <- {{Every}, {Only(1)}},
  WeekdayFields <- {{Every}, {From(1, 5, 1)}, {Only(0), From(2, 6, 2)}}

(* A part that is not looked at stands still.                               *)
NoPunch ==
  /\ net = 0 /\ ini = 0 /\ res = 0 /\ toIni = 0 /\ toRes = 0 /\ relayOpen = 0 /\ udp = 0
  /\ hole = 0 /\ punches = 0 /\ listens = 0 /\ others = 0 /\ direct = 0
NoStream ==
  /\ seq = 0 /\ log = 0 /\ subs = 0 /\ events = 0 /\ wake = 0 /\ pub = 0 /\ at = 0
  /\ seen = 0 /\ joined = 0 /\ leaves = 0 /\ skips = 0
NoRecv ==
  /\ queue = 0 /\ counts = 0 /\ arrived = 0 /\ evicted = 0 /\ inFlag = 0 /\ rd = 0 /\ asks = 0
  /\ answers = 0 /\ lost = 0 /\ overlap = 0 /\ pager = 0 /\ fetcher = 0
NoCron == expr = 0 /\ base = 0 /\ candidate = 0 /\ cron = 0 /\ odd = 0

MCInit ==
  /\ part \in {"peers", "dials", "punch", "stream", "recv", "cron"}
  /\ Init
  /\ IF part = "punch" THEN Punch!Init ELSE NoPunch
  /\ IF part = "stream" THEN Stream!Init ELSE NoStream
  /\ IF part = "recv" THEN Recv!Init ELSE NoRecv
  /\ IF part = "cron" THEN Search!Init ELSE NoCron

PeersStep == part \in {"peers", "dials"} /\ Next /\ (part = "dials" => storing' = storing)
             /\ UNCHANGED <<part, punchVars, streamVars, recvVars, cronVars>>
PunchStep == part = "punch" /\ Punch!Next
             /\ UNCHANGED <<part, vars, streamVars, recvVars, cronVars>>
StreamStep == part = "stream" /\ Stream!Next
              /\ UNCHANGED <<part, vars, punchVars, recvVars, cronVars>>
RecvStep == part = "recv" /\ Recv!Next
            /\ UNCHANGED <<part, vars, punchVars, streamVars, cronVars>>
CronStep == part = "cron" /\ Search!Next
            /\ UNCHANGED <<part, vars, punchVars, streamVars, recvVars>>
MCNext == PeersStep \/ PunchStep \/ StreamStep \/ RecvStep \/ CronStep

(* The fairness of each part, as its module states it.                      *)
Fairness ==
  /\ \A d \in Dials : WF_vars(part = "dials" /\ Dial(d))
  /\ WF_punchVars(part = "punch" /\ Punch!Connecting)
  /\ WF_punchVars(part = "punch" /\ Punch!Probe("ini"))
  /\ WF_punchVars(part = "punch" /\ Punch!PunchTimeout("ini"))
  /\ WF_streamVars(part = "stream" /\ (Stream!AppendLog(p1) \/ Stream!FanOut(p1) \/ Stream!Notify(p1)))
  /\ \A c \in {s1, w1} : WF_streamVars(part = "stream" /\ Stream!Serve(c))
  /\ \A r \in Readers : WF_recvVars(part = "recv" /\ Recv!ReadStep(r))
                        /\ WF_recvVars(part = "recv" /\ Recv!Tick(r))
  /\ WF_cronVars(part = "cron" /\ Search!Step)

MCSpec ==
  /\ MCInit
  /\ [][MCNext]_<<part, vars, punchVars, streamVars, recvVars, cronVars>>
  /\ Fairness

(* Types of all parts.                                                      *)
TypesOK ==
  /\ TypeOK
  /\ part = "punch" => Punch!TypeOK
  /\ part = "stream" => Stream!TypeOK
  /\ part = "recv" => Recv!TypeOK

(* A hole punch takes no answer of an earlier session for its own, returns  *)
(* without a channel only if it had none, and succeeds by addresses a probe *)
(* can reach.                                                               *)
PunchIsSound ==
  part = "punch" => Punch!AnswerIsOfThisSession /\ Punch!NeverWithoutChannel /\ Punch!PunchNeedsLanOrReflection

(* Readers of the queue take each message once, and lose one only when two  *)
(* of them pop at the same time.                                            *)
TakenOnce == part = "recv" => Recv!TakenOnce /\ Recv!LostOnlyByOverlap

(* The search for a time skips none the expression means, and what it finds *)
(* is one.                                                                  *)
SearchIsRight == part = "cron" => Search!NothingSkipped /\ Search!FoundIsMeant

(* A dial settles (DialSettles), where no thread counts.                    *)
DialsSettle ==
  \A d \in Dials : (part = "dials" /\ pc[d] \in Asking \cup {"nat", "dial"})
                   ~> (part = "dials" /\ pc[d] \in {"reading", "relay", "gone"})

(* Every call of connect_with_holepunch returns (17189-17288).              *)
ConnectReturns == (part = "punch" /\ ini.at = "discover") ~> (part = "punch" /\ ini.at = "done")

(* What was put into the queue of a stream is written or the stream ends,   *)
(* although all streams share one wake-up flag (10697-10716).               *)
QueueDrains ==
  \A c \in {s1, w1} : (part = "stream" /\ events[c] # <<>>) 
      ~> (part = "stream" /\ (events[c] = <<>> \/ at[c] = "gone"))

(* GET /recv returns although its wake-up flag is shared (9475-9510).       *)
RecvReturns ==
  \A r \in Readers : (part = "recv" /\ rd[r].pc # "idle") ~> (part = "recv" /\ rd[r].pc = "idle")

(* A search over all months ends, with a time or with None (2154-2189).     *)
SearchEnds == <>(part = "cron" => cron # "loop" \/ expr.month # {Every})

(* Whatever breaks, nobody waits for ever: dials settle, hole punches and   *)
(* reads return, streams are drained and searches end.                      *)
EveryWaitEnds == DialsSettle /\ ConnectReturns /\ QueueDrains /\ RecvReturns /\ SearchEnds
=============================================================================
