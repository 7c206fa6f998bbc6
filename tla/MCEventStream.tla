---------------------------- MODULE MCEventStream ----------------------------
(* What streams events to clients, for TLC.  Each behaviour is one of one   *)
(* part: EventStream ("sse"); WsStream with connections ("frames") or with  *)
(* webhooks ("hooks"); Evidence with two submitters ("submit") or with two  *)
(* watchers ("watch"); Http2 ("http2").                                     *)
EXTENDS EventStream, TLC

CONSTANTS p1, p2, s1, w1, w2, k1,
  Connections, Urls, Registrars, Sinces, Never, Free, MaxHookCalls,
  WsLogMax, FrameEvents, HookEvents, HookPublishers,
  Submitters, Followers, QueueMax, MaxEntries,
  Requests, MaxBody, MaxData

ASSUME FollowAssumption ==
  /\ Free \notin Connections \cup Publishers \cup Urls /\ Connections \cap Publishers = {}
  /\ Never \notin Nat /\ Sinces \subseteq Nat \cup {Never}
  /\ WsLogMax \in Nat \ {0} /\ Requests \subseteq Nat \ {0} /\ MaxBody \in Nat /\ MaxData \in Nat
  /\ FrameEvents \in Nat /\ HookEvents \in Nat /\ QueueMax \in Nat /\ MaxEntries \in Nat

VARIABLES
  part,
  wsLog, wsSeq, clients, cl, wire, broken, lock, wsPub, hooks, reg, hookCalls, jobs, pushed, ponged, raced, off,
  entries, evSubs, sb, w, begun, evLeaves, met,
  kind, client, size, bytes, pc2, events, streams2, known, reset, out, got2, taken, away

wsVars == <<wsLog, wsSeq, clients, cl, wire, broken, lock, wsPub,
            hooks, reg, hookCalls, jobs, pushed, ponged, raced, off>>
evVars == <<entries, evSubs, sb, w, begun, evLeaves, met>>
h2Vars == <<kind, client, size, bytes, pc2, events, streams2, known, reset, out, got2, taken, away>>

TwoPublishers == {p1, p2}
OneStream == {s1}
OneWatcher == {w1}
OneTask == {k1}
WatchFirst == [x \in Watchers |-> k1]

Frames == INSTANCE WsStream WITH
  log <- wsLog, seqno <- wsSeq, pub <- wsPub, Clients <- Connections, Urls <- {}, Registrars <- {},
  LogMax <- WsLogMax, MaxEvents <- FrameEvents, MaxHookCalls <- 0
Hooks == INSTANCE WsStream WITH
  log <- wsLog, seqno <- wsSeq, pub <- wsPub, Clients <- {}, Publishers <- HookPublishers,
  LogMax <- WsLogMax, MaxEvents <- HookEvents
Ev == INSTANCE Evidence WITH subs <- evSubs, leaves <- evLeaves, Watchers <- Followers
H2 == INSTANCE Http2 WITH
  wire <- bytes, pc <- pc2, streams <- streams2, got <- got2, Streams <- Requests,
  Kinds <- {"plain", "large", "sse", "bad"}
NoH2 == /\ kind = 0 /\ client = 0 /\ size = 0 /\ bytes = 0 /\ pc2 = 0 /\ events = 0 /\ streams2 = 0
        /\ known = 0 /\ reset = 0 /\ out = 0 /\ got2 = 0 /\ taken = 0 /\ away = 0

MCInit ==
  /\ part \in {"sse", "frames", "hooks", "submit", "watch", "http2"}
  /\ IF part = "hooks" THEN Hooks!Init ELSE Frames!Init
  /\ Ev!Init
  /\ IF part = "http2" THEN H2!Init ELSE NoH2
  /\ Init

FirstSubmitter == CHOOSE b \in Submitters : TRUE

Parts ==
  \/ part = "sse" /\ Next /\ UNCHANGED <<wsVars, evVars, h2Vars>>
  \/ part = "frames" /\ Frames!Next /\ UNCHANGED <<vars, evVars, h2Vars>>
  \/ part = "hooks" /\ Hooks!Next /\ UNCHANGED <<vars, evVars, h2Vars>>
  \/ part = "submit" /\ Ev!Next /\ (\A x \in Followers \ {w1} : w'[x] = w[x]) /\ UNCHANGED <<vars, wsVars, h2Vars>>
  \/ /\ part = "watch" /\ Ev!Next /\ (\A b \in Submitters \ {FirstSubmitter} : sb'[b] = sb[b])
     /\ UNCHANGED <<vars, wsVars, h2Vars>>
  \/ part = "http2" /\ H2!Next /\ UNCHANGED <<vars, wsVars, evVars>>

MCNext == Parts /\ UNCHANGED part

MCSpec == MCInit /\ [][MCNext]_<<part, vars, wsVars, evVars, h2Vars>>

(* Types of all parts.                                                      *)
TypesOK ==
  /\ TypeOK
  /\ part = "frames" => Frames!TypeOK
  /\ part = "hooks" => Hooks!TypeOK
  /\ part \in {"submit", "watch"} => Ev!TypeOK
  /\ part = "http2" => H2!TypeOK

(* Whoever follows events or evidence gets them whole, in numbered places   *)
(* and once: over a WebSocket that is written to by several threads, over   *)
(* webhooks, and from a replay that registers before or after it reads.     *)
FollowersMissNone ==
  /\ part = "frames" => Frames!FramesStayWhole /\ Frames!ReconnectMissesNone
  /\ part = "hooks" => Hooks!OnePushPerHook
  /\ part \in {"submit", "watch"} => Ev!SeqIsPlace /\ Ev!WatcherMissesOnlyTheGap

(* Every complete request on an HTTP/2 connection has its answer when the   *)
(* thread waits again, one that is made of its own data.                    *)
RequestsAreAnswered == part = "http2" => H2!AnswerIsWhole /\ H2!ReadIsAnswered
=============================================================================
