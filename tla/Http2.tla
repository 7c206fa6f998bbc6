------------------------------- MODULE Http2 -------------------------------
(* The HTTP/2 binding of a relay (_run_http2_hypercorn, acp_relay.py        *)
(* 15425-15651): one thread per connection reads frames, takes the events   *)
(* of what it read one by one, calls the HTTP/1.1 handler for every request *)
(* that is complete, and sends what has piled up when the events are done.  *)
(* One connection; the h2 library is modelled by the events it reports.     *)
EXTENDS Naturals, Sequences, FiniteSets, Picking

CONSTANTS
  Streams,   \* requests of the client on this connection
  Kinds,     \* what a request may be: see Answer
  MaxBody,   \* MAX_BODY, in DATA frames
  MaxData    \* bound: DATA frames of a request

VARIABLES
  kind,      \* of each request
  client,    \* what it has sent of each: "none", "open" or "ended"
  size,      \* DATA frames it has sent of each
  wire,      \* frames not read
  pc,        \* the thread: "recv", "event", "serving" or "closed"
  events,    \* not taken of those it has read
  streams,   \* of requests that are not complete: stream -> DATA frames, or 0 - not there
  known,     \* streams that are there
  reset,     \* streams it has reset: the library reports nothing more of them
  out,       \* frames that have piled up
  got,       \* frames the client has got
  taken,     \* history: requests whose end it has taken
  away       \* the client has said it goes away, or has closed

state == <<pc, events, streams, known, reset, out, got, taken>>
vars == <<kind, client, size, wire, state, away>>

(* A frame of a request has its place in it: the headers, so many times     *)
(* data, the end.                                                           *)
Frame == [stream : Streams \cup {0}, type : {"headers", "data", "end", "away"}, place : 0 .. MaxData + 1]
(* What is sent for a stream: an answer to a request of so much data, the   *)
(* headers of one, a reset.                                                 *)
Reply == [stream : Streams, type : {"answer", "headers", "reset"}, of : 0 .. MaxData]

Init ==
  /\ kind \in [Streams -> Kinds] /\ client = [s \in Streams |-> "none"]
  /\ size = [s \in Streams |-> 0] /\ wire = <<>> /\ pc = "recv" /\ events = <<>>
  /\ streams = [s \in Streams |-> 0] /\ known = {} /\ reset = {} /\ out = <<>> /\ got = <<>>
  /\ taken = {} /\ away = FALSE

-----------------------------------------------------------------------------
(* The client, which may have several requests under way.                   *)
Say(s, type, n) == wire' = Append(wire, [stream |-> s, type |-> type, place |-> n])

Request(s) ==
  /\ ~away
  /\ \/ /\ client[s] = "none" /\ client' = [client EXCEPT ![s] = "open"]
        /\ Say(s, "headers", 0) /\ UNCHANGED size
     \/ /\ client[s] = "open" /\ size[s] < MaxData /\ size' = [size EXCEPT ![s] = @ + 1]
        /\ Say(s, "data", size[s] + 1) /\ UNCHANGED client
     \/ /\ client[s] = "open" /\ client' = [client EXCEPT ![s] = "ended"]
        /\ Say(s, "end", size[s] + 1) /\ UNCHANGED size
  /\ UNCHANGED <<kind, state, away>>

GoAway ==
  /\ ~away /\ away' = TRUE /\ Say(0, "away", 0)
  /\ UNCHANGED <<kind, client, size, state>>

-----------------------------------------------------------------------------
(* recv returns some of the frames; the library makes events of them.       *)
Reported(fs) == Pick(fs, {f \in Frame : f.stream \notin reset})

Recv ==
  /\ pc = "recv" /\ wire # <<>>
  /\ \E n \in 1 .. Len(wire) :
       /\ events' = Reported(SubSeq(wire, 1, n))
       /\ wire' = SubSeq(wire, n + 1, Len(wire))
  /\ pc' = "event"
  /\ UNCHANGED <<kind, client, size, streams, known, reset, out, got, taken, away>>

(* A request begins; its data is collected; over the limit the stream is    *)
(* reset, but stays among those that are not complete.                      *)
Begin(s) ==
  /\ known' = known \cup {s} /\ streams' = [streams EXCEPT ![s] = 0]
  /\ UNCHANGED <<pc, reset, out, taken>>

Kept_OnLast(s) == [k \in Streams |-> IF k \in known /\ \A j \in known : j <= k THEN streams[k] + 1 ELSE streams[k]]
Kept(s) == IF s \in known THEN [streams EXCEPT ![s] = @ + 1] ELSE streams

Data(s) ==
  /\ streams' = Kept(s)
  /\ IF streams'[s] > MaxBody
       THEN reset' = reset \cup {s} /\ out' = Append(out, [stream |-> s, type |-> "reset", of |-> 0])
       ELSE UNCHANGED <<reset, out>>
  /\ UNCHANGED <<pc, known, taken>>

(* _dispatch calls the handler and waits for it.  Its answer goes out in    *)
(* one DATA frame: for one that is too large the library raises when the    *)
(* headers are out already.  On a stream that was reset it raises at once.  *)
(* A streaming handler does not return.  A PATCH or DELETE with a bad body  *)
(* ends the thread (7491, 7564).                                            *)
Answer(s) ==
  IF s \in reset THEN <<>>
  ELSE <<[stream |-> s, type |-> IF kind[s] = "large" THEN "headers" ELSE "answer", of |-> streams[s]]>>

Left_None(s) == {}
Left(s) == known \ {s}

End(s) ==
  /\ known' = Left(s) /\ UNCHANGED <<streams, reset>>
  /\ taken' = IF s \in known THEN taken \cup {s} ELSE taken
  /\ IF s \notin known THEN UNCHANGED <<pc, out>>
     ELSE CASE kind[s] = "sse" -> pc' = "serving" /\ UNCHANGED out
            [] kind[s] = "bad" -> pc' = "closed" /\ UNCHANGED out
            [] OTHER -> out' = out \o Answer(s) /\ UNCHANGED pc

Event ==
  /\ pc = "event" /\ events # <<>> /\ events' = Tail(events)
  /\ LET f == Head(events) IN
       CASE f.type = "headers" -> Begin(f.stream)
         [] f.type = "data" -> Data(f.stream)
         [] f.type = "end" -> End(f.stream)
         [] f.type = "away" -> pc' = "closed" /\ UNCHANGED <<streams, known, reset, out, taken>>
  /\ UNCHANGED <<kind, client, size, wire, got, away>>

(* The events are done.  (At most 65535 bytes are taken, which a few answers *)
(* of one frame do not reach.)                                              *)
Flush ==
  /\ pc = "event" /\ events = <<>> /\ pc' = "recv"
  /\ got' = got \o out /\ out' = <<>>
  /\ UNCHANGED <<kind, client, size, wire, events, streams, known, reset, taken, away>>

Next == (\E s \in Streams : Request(s)) \/ GoAway \/ Recv \/ Event \/ Flush

Spec == Init /\ [][Next]_vars

TypeOK ==
  /\ kind \in [Streams -> Kinds] /\ size \in [Streams -> 0 .. MaxData]
  /\ wire \in Seq(Frame) /\ events \in Seq(Frame)
  /\ pc \in {"recv", "event", "serving", "closed"}
  /\ streams \in [Streams -> 0 .. MaxData] /\ known \cup reset \cup taken \subseteq Streams
  /\ out \in Seq(Reply) /\ got \in Seq(Reply)

(* An answer is to a complete request and made from all of its data and no  *)
(* other's, however the client's requests are cut up and mixed; there is    *)
(* one at most (15515-15530).                                               *)
AnswerIsWhole ==
  LET sent == got \o out IN
  \A i \in DOMAIN sent : sent[i].type # "reset" =>
    /\ client[sent[i].stream] = "ended" /\ sent[i].of = size[sent[i].stream]
    /\ \A j \in DOMAIN sent : sent[j].stream = sent[i].stream => sent[j].type = "reset" \/ j = i

(* When the thread waits for more, the client has an answer, or the headers *)
(* of one, to every request that has come whole and was not reset: only a   *)
(* stream, a bad body or the client's going away leave one without, and     *)
(* after those the thread never waits again (15505-15538).                  *)
ReadIsAnswered ==
  pc = "recv" =>
    \A s \in Streams : client[s] = "ended" /\ s \notin reset
                       /\ (\A i \in DOMAIN wire : wire[i].stream # s) =>
      \E i \in DOMAIN got : got[i].stream = s
=============================================================================
