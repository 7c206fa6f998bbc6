----------------------------- MODULE SyncReplies -----------------------------
(* Waiting for a reply (acp_relay.py 5916-5922, 9458-9473, 12174-12195,     *)
(* 12475-12509): POST /message:send and /send with sync, and GET /wait/{id}, *)
(* leave a future under a message id in _sync_pending and block; the event  *)
(* loop resolves it when an acp.reply names that id.  Ids are chosen by     *)
(* clients, so that two calls may be about the same one.                    *)
EXTENDS Naturals, FiniteSets

CONSTANTS
  Calls,       \* HTTP requests, each in a thread of its own
  Ids,         \* message ids
  Nobody,
  MaxReplies   \* bound: acp.reply frames

VARIABLES
  pending,     \* _sync_pending: id -> the call whose future is there, or Nobody
  call,        \* each call: [kind, id, at]
  scheduled,   \* futures that call_soon_threadsafe will resolve
  resolved,    \* futures that are done
  asked,       \* calls whose message is on its way to the peer
  replies,     \* acp.reply frames read so far
  \* history
  came,        \* whether a reply has been read since its message went out: call -> BOOLEAN
  shared,      \* ids that two calls have been about at once
  late         \* calls that timed out while their future was being resolved

vars == <<pending, call, scheduled, resolved, asked, replies, came, shared, late>>

Kinds == {"send", "wait"}
Active(c) == call[c].at \in {"begun", "registered", "sent", "waiting", "ending"}
About(i) == {c \in Calls : Active(c) /\ call[c].id = i}

Init ==
  /\ pending = [i \in Ids |-> Nobody]
  /\ call = [c \in Calls |-> [kind |-> "wait", id |-> Nobody, at |-> "idle"]]
  /\ scheduled = {} /\ resolved = {} /\ asked = {} /\ replies = 0
  /\ came = [c \in Calls |-> FALSE] /\ shared = {} /\ late = {}

Goes(c, at) == call' = [call EXCEPT ![c].at = at]

(* A request comes in: a message to send, or an id to wait for.             *)
Ask(c) ==
  /\ call[c].at = "idle"
  /\ \E k \in Kinds, i \in Ids :
       /\ call' = [call EXCEPT ![c] = [kind |-> k, id |-> i, at |-> "begun"]]
       /\ shared' = IF About(i) # {} THEN shared \cup {i} ELSE shared
  /\ UNCHANGED <<pending, scheduled, resolved, asked, replies, came, late>>

(* Mutant: the message goes out before the future is registered.            *)
Register_AfterSend(c) ==
  /\ call[c].at = "begun"
  /\ IF call[c].kind = "send" /\ c \notin asked
       THEN asked' = asked \cup {c} /\ UNCHANGED <<pending, call>>
       ELSE /\ pending' = [pending EXCEPT ![call[c].id] = c]
            /\ Goes(c, IF call[c].kind = "send" THEN "registered" ELSE "waiting")
            /\ UNCHANGED asked
  /\ UNCHANGED <<scheduled, resolved, replies, came, shared, late>>

(* The future is put under the id, in place of one that is there.           *)
Register(c) ==
  /\ call[c].at = "begun"
  /\ pending' = [pending EXCEPT ![call[c].id] = c]
  /\ Goes(c, IF call[c].kind = "send" THEN "registered" ELSE "waiting")
  /\ UNCHANGED <<scheduled, resolved, asked, replies, came, shared, late>>

(* _ws_send_sync returns when the frame is on its way, or raises: a 503 that *)
(* leaves the future where it is.                                           *)
Send(c) ==
  /\ call[c].at = "registered"
  /\ asked' = asked \cup {c}
  /\ Goes(c, "waiting")
  /\ UNCHANGED <<pending, scheduled, resolved, replies, came, shared, late>>

SendFails(c) ==
  /\ call[c].at = "registered"
  /\ Goes(c, "failed")
  /\ UNCHANGED <<pending, scheduled, resolved, asked, replies, came, shared, late>>

(* acp.reply, to any message the peer has ever got: the future is taken     *)
(* out; the result is set in a later turn of the loop.  A reply nobody waits *)
(* for is dropped.                                                          *)
Reply(i) ==
  /\ replies < MaxReplies /\ replies' = replies + 1
  /\ IF pending[i] = Nobody THEN UNCHANGED <<pending, scheduled>>
     ELSE /\ pending' = [pending EXCEPT ![i] = Nobody]
          /\ scheduled' = IF pending[i] \in resolved THEN scheduled ELSE scheduled \cup {pending[i]}
  /\ came' = [c \in Calls |-> came[c] \/ c \in About(i) \cap asked]
  /\ UNCHANGED <<call, resolved, asked, shared, late>>

Resolve(c) ==
  /\ c \in scheduled
  /\ scheduled' = scheduled \ {c} /\ resolved' = resolved \cup {c}
  /\ UNCHANGED <<pending, call, asked, replies, came, shared, late>>

(* The thread has the reply, or its time is over.  Either way it takes out  *)
(* what is under its id, whosever it is.                                    *)
Wake(c) ==
  /\ call[c].at = "waiting" /\ c \in resolved
  /\ Goes(c, "ending")
  /\ UNCHANGED <<pending, scheduled, resolved, asked, replies, came, shared, late>>

Cleared(c) == [pending EXCEPT ![call[c].id] = Nobody]

(* Mutant: a call whose time is over leaves its future.                     *)
TimeOut_Leaves(c) ==
  /\ call[c].at = "waiting" /\ c \notin resolved
  /\ Goes(c, "timeout")
  /\ late' = IF c \in scheduled THEN late \cup {c} ELSE late
  /\ UNCHANGED <<pending, scheduled, resolved, asked, replies, came, shared>>

TimeOut(c) ==
  /\ call[c].at = "waiting" /\ c \notin resolved
  /\ Goes(c, "timeout") /\ pending' = Cleared(c)
  /\ late' = IF c \in scheduled THEN late \cup {c} ELSE late
  /\ UNCHANGED <<scheduled, resolved, asked, replies, came, shared>>

Answer(c) ==
  /\ call[c].at = "ending"
  /\ Goes(c, "replied") /\ pending' = Cleared(c)
  /\ UNCHANGED <<scheduled, resolved, asked, replies, came, shared, late>>

Next ==
  \/ \E c \in Calls : Ask(c) \/ Register(c) \/ Send(c) \/ SendFails(c) \/ Resolve(c)
                      \/ Wake(c) \/ TimeOut(c) \/ Answer(c)
  \/ \E i \in Ids : Reply(i)

Spec == Init /\ [][Next]_vars

TypeOK ==
  /\ pending \in [Ids -> Calls \cup {Nobody}]
  /\ \A c \in Calls :
       /\ call[c].kind \in Kinds /\ call[c].id \in Ids \cup {Nobody}
       /\ call[c].at \in {"idle", "begun", "registered", "waiting", "ending", "replied", "timeout", "failed"}
  /\ scheduled \cup resolved \cup late \cup asked \subseteq Calls
  /\ shared \subseteq Ids /\ replies \in 0 .. MaxReplies

(* A send that waits for its reply is not told it timed out when the reply  *)
(* was read before, unless that was at the same moment or another call was  *)
(* about the same id at the same time (9462, 12175-12184, 5916-5921).       *)
ReplyIsNotMissed ==
  \A c \in Calls :
    call[c].kind = "send" /\ call[c].at = "timeout" /\ came[c] =>
      c \in late \/ call[c].id \in shared

(* What _sync_pending holds is the future of a call that waits, or of one   *)
(* whose send failed (12176, 12493): those stay, nothing else does.         *)
WaitersAreWaiting ==
  \A i \in Ids : pending[i] # Nobody =>
    call[pending[i]].id = i /\ (Active(pending[i]) \/ call[pending[i]].at = "failed")
=============================================================================
