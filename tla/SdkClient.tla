------------------------------- MODULE SdkClient -------------------------------
(* The helpers of the Python client libraries that wait for an answer: a    *)
(* relay, a program that calls send_and_recv, send(auto_stream) or stream   *)
(* (acp_sdk/relay_client.py, acp_client/client.py and async_client.py), and *)
(* other programs that take messages from the same relay.                   *)
EXTENDS Integers, Sequences, FiniteSets, SequencesExt, FiniteSetsExt

CONSTANTS
  Uses,          \* of "ask", "auto" and "stream": the calls the program makes
  Take,          \* limit the library gives to GET /recv
  QueueMax,      \* maxlen of the relay's _recv_queue
  Chunk,         \* bytes a read of the event stream waits for
  Sizes,         \* lengths of the events' data
  MaxCalls,      \* bound on the calls
  MaxIn, MaxOut  \* bounds on the peer's messages and the program's own

VARIABLES
  box,           \* the relay's _recv_queue: entries [dir, n, prio]
  made,          \* entries ever made: the n of the latest
  sentBy,        \* messages the program sent
  prog,          \* the program's call
  done,          \* calls returned
  results,       \* history: what the calls returned
  wire,          \* bytes of the event stream the library has not read: the b-th of event k, or a newline
  buffer,        \* what it has decoded and not parsed: k for a byte of event k, -k for one it replaced
  published,     \* history: events of this stream, in order
  yielded        \* history: events the library yielded of it

sdkVars == <<box, made, sentBy, prog, done, results, wire, buffer, published, yielded>>

NoCall == [use |-> "none", pc |-> "idle", before |-> 0]

SInit ==
  /\ box = <<>> /\ made = 0 /\ sentBy = 0
  /\ prog = NoCall /\ done = 0 /\ results = {}
  /\ wire = <<>> /\ buffer = <<>> /\ published = <<>> /\ yielded = <<>>

(* ------------------------------- the relay ------------------------------ *)

Entry(dir, prio) == [dir |-> dir, n |-> made + 1, prio |-> prio, size |-> 0, text |-> "plain"]

Stored(e) == Append(IF Len(box) < QueueMax THEN box ELSE Tail(box), e)

Streaming == prog.use \in {"auto", "stream"} /\ prog.pc # "last"

(* A frame: the event's data, a byte at a time, and the two newlines.       *)
Newline == <<0, 0>>
Frame(k, size) == [b \in 1..(size + 2) |-> IF b <= size THEN <<k, b>> ELSE Newline]

(* The first two bytes of a text that is not plain are one character, which *)
(* is sent as it is; in one of "lines" it is one that splitlines() takes    *)
(* for a line's end (U+0085; U+2028 has three bytes).                       *)
Texts(size) == IF size < 2 THEN {"plain"} ELSE {"plain", "wide", "lines"}

Publish(e) ==
  IF Streaming
    THEN \E size \in Sizes : \E text \in Texts(size) :
           /\ published' = Append(published, [e EXCEPT !.size = size, !.text = text])
           /\ wire' = wire \o Frame(Len(published) + 1, size)
    ELSE UNCHANGED <<published, wire>>

(* The peer's message gets into the queue and onto the stream.              *)
Arrives ==
  /\ made - sentBy < MaxIn
  /\ \E prio \in {"high", "normal"} :
       /\ box' = Stored(Entry("inbound", prio))
       /\ Publish(Entry("inbound", prio))
  /\ made' = made + 1
  /\ UNCHANGED <<sentBy, prog, done, results, buffer, yielded>>

(* POST /message:send keeps what it sends in the queue of what was received *)
(* and tells the streams of it.                                             *)
Sends ==
  /\ sentBy < MaxOut
  /\ box' = Stored(Entry("outbound", "normal"))
  /\ Publish(Entry("outbound", "normal"))
  /\ made' = made + 1
  /\ sentBy' = sentBy + 1

(* GET /recv takes messages out and sorts them, the urgent ones first.      *)
Answer(limit) == SubSeq(box, 1, Min({limit, Len(box)}))
Rest(limit) == SubSeq(box, Min({limit, Len(box)}) + 1, Len(box))
ByPriority(s) == SelectSeq(s, LAMBDA e : e.prio = "high") \o SelectSeq(s, LAMBDA e : e.prio # "high")

(* Another program takes what it finds.                                     *)
OtherTakes ==
  /\ box # <<>>
  /\ box' = Rest(Take)
  /\ UNCHANGED <<made, sentBy, prog, done, results, wire, buffer, published, yielded>>

(* -------------------------------- the calls ----------------------------- *)

Begin ==
  /\ prog.pc = "idle" /\ done < MaxCalls
  /\ \E use \in Uses :
       prog' = [use |-> use, before |-> 0,
                pc |-> CASE use = "ask" -> "count" [] use = "auto" -> "send" [] OTHER -> "read"]
  /\ wire' = <<>> /\ buffer' = <<>> /\ published' = <<>> /\ yielded' = <<>>
  /\ UNCHANGED <<box, made, sentBy, done, results>>

Return(what) ==
  /\ prog' = NoCall
  /\ done' = done + 1
  /\ results' = results \cup what

(* send_and_recv counts what there is by taking it out ...                  *)
CountBefore ==
  /\ prog.pc = "count"
  /\ prog' = [prog EXCEPT !.before = Len(Answer(Take)), !.pc = "send"]
  /\ box' = Rest(Take)
  /\ UNCHANGED <<made, sentBy, done, results, wire, buffer, published, yielded>>

(* ... sends, which the relay may refuse ...                                *)
CallSend ==
  /\ prog.pc = "send"
  /\ \/ Sends /\ prog' = [prog EXCEPT !.pc = IF prog.use = "ask" THEN "poll" ELSE "read"]
              /\ UNCHANGED <<done, results>>
     \/ Return({}) /\ UNCHANGED <<box, made, sentBy, wire, published>>
  /\ UNCHANGED <<buffer, yielded>>

(* ... and polls: the last message of an answer longer than the count is    *)
(* returned, a shorter answer is dropped.                                   *)
Poll ==
  /\ prog.pc = "poll"
  /\ LET msgs == ByPriority(Answer(Take)) IN
       IF Len(msgs) > prog.before
         THEN Return({[use |-> "ask", e |-> Last(msgs)]})
         ELSE UNCHANGED <<prog, done, results>>
  /\ box' = Rest(Take)
  /\ UNCHANGED <<made, sentBy, wire, buffer, published, yielded>>

(* The deadline of a call that polls or reads; the relay may close the      *)
(* stream as well, or nothing may come for the socket's timeout.            *)
Deadline ==
  /\ prog.pc \in {"poll", "read"}
  /\ Return({})
  /\ UNCHANGED <<box, made, sentBy, wire, buffer, published, yielded>>

(* ----------------------------- the event stream ------------------------- *)

(* Each chunk is decoded by itself, with errors="replace": a character of   *)
(* which it has only the last or only the first byte is replaced.           *)
Decoded(chunk) ==
  [i \in 1..Len(chunk) |->
     LET k == chunk[i][1]  b == chunk[i][2]
         cut == k # 0 /\ published[k].text # "plain" /\ <<i, b>> \in {<<1, 2>>, <<Len(chunk), 1>>}
     IN IF cut THEN -k ELSE k]

(* resp.read(512) returns when it has all the bytes.                        *)
Read ==
  /\ prog.pc = "read" /\ Len(wire) >= Chunk
  /\ buffer' = buffer \o Decoded(SubSeq(wire, 1, Chunk))
  /\ wire' = SubSeq(wire, Chunk + 1, Len(wire))
  /\ prog' = [prog EXCEPT !.pc = "parse"]
  /\ UNCHANGED <<box, made, sentBy, done, results, published, yielded>>

(* The relay closes the stream: the read returns what was left.             *)
ReadRest ==
  /\ prog.pc = "read" /\ wire # <<>> /\ Len(wire) < Chunk
  /\ buffer' = buffer \o Decoded(wire)
  /\ wire' = <<>>
  /\ prog' = [prog EXCEPT !.pc = "last"]
  /\ UNCHANGED <<box, made, sentBy, done, results, published, yielded>>

Ends == {i \in 1..(Len(buffer) - 1) : buffer[i] = 0 /\ buffer[i + 1] = 0}

(* The data before the first empty line: an event, perhaps with characters  *)
(* replaced, a text that is no JSON (also when a line's end in it has cut   *)
(* it), or nothing.                                                         *)
Data == SelectSeq(SubSeq(buffer, 1, Min(Ends) - 1), LAMBDA b : b # 0)

Raw(size) == [dir |-> "raw", n |-> 0, prio |-> "normal", size |-> size, text |-> "plain"]
Garbled(e) == [e EXCEPT !.text = "garbled"]

Event ==
  LET k == IF Head(Data) > 0 THEN Head(Data) ELSE -Head(Data)
      e == published[k]
  IN CASE Len(Data) # e.size \/ (\E b \in 1..Len(Data) : Data[b] \notin {k, -k}) -> Raw(Len(Data))
       [] \E b \in 1..Len(Data) : Data[b] = -k -> Garbled(e)
       [] e.text = "lines" -> Raw(e.size)
       [] OTHER -> e

(* Mutant: what follows the first event of a chunk is not kept.             *)
Leftover_None(i) == <<>>

Leftover(i) == SubSeq(buffer, i + 2, Len(buffer))

(* The buffer is split at its first empty line and the event yielded; the   *)
(* listener of send(auto_stream) stops at the first that is a message.      *)
Yield ==
  /\ prog.pc \in {"parse", "last"} /\ Ends # {}
  /\ buffer' = Leftover(Min(Ends))
  /\ IF Data = <<>> THEN UNCHANGED <<yielded, prog, done, results>>
     ELSE /\ yielded' = Append(yielded, Event)
          /\ IF prog.use = "auto" THEN Return({[use |-> "auto", e |-> Event]})
             ELSE UNCHANGED <<prog, done, results>>
  /\ UNCHANGED <<box, made, sentBy, wire, published>>

Parsed ==
  /\ prog.pc \in {"parse", "last"} /\ Ends = {}
  /\ IF prog.pc = "last" THEN Return({})
     ELSE prog' = [prog EXCEPT !.pc = "read"] /\ UNCHANGED <<done, results>>
  /\ UNCHANGED <<box, made, sentBy, wire, buffer, published, yielded>>

SNext ==
  \/ Arrives \/ OtherTakes
  \/ Begin \/ CountBefore \/ CallSend \/ Poll \/ Deadline
  \/ Read \/ ReadRest \/ Yield \/ Parsed

SSpec == SInit /\ [][SNext]_sdkVars

(* ------------------------------- properties ----------------------------- *)

TypeOK ==
  /\ Len(box) <= QueueMax
  /\ prog.use \in Uses \cup {"none"} /\ prog.pc \in {"idle", "count", "send", "poll", "read", "parse", "last"}
  /\ prog.before \in 0..Take
  /\ sentBy <= made

(* A stream yields the events the relay published, each once and in order,  *)
(* and whole wherever the reads cut them, with two exceptions: a character  *)
(* of several bytes that lies across the end of a chunk is replaced, and an *)
(* event is yielded as raw text if it has a character splitlines() breaks.  *)
Offset(i) == FoldLeft(LAMBDA n, e : n + e.size + 2, 0, SubSeq(published, 1, i - 1))
Cut(i) == published[i].text # "plain" /\ (Offset(i) + 1) % Chunk = 0
Heard(i) ==
  CASE Cut(i) -> Garbled(published[i])
    [] ~Cut(i) /\ published[i].text = "lines" -> Raw(published[i].size)
    [] OTHER -> published[i]
YieldedIsPrefix ==
  Len(yielded) <= Len(published) /\ \A i \in 1..Len(yielded) : yielded[i] = Heard(i)

(* "Send a message and wait for the first reply that arrives after          *)
(* sending": what a call returns is a message of the peer's. The code       *)
(* returns the call's own message, which the relay keeps among the received *)
(* ones.                                                                    *)
ReplyIsTheirs == \A r \in results : r.e.dir = "inbound"
================================================================================
