----------------------------- MODULE NatSignal -----------------------------
(***************************************************************************)
(* Address records of the relay (POST /acp/announce and GET /acp/peer of   *)
(* acp_worker.js) as _relay_announce and _relay_get_peer_addr use them:    *)
(* a record lives 30 seconds and is deleted by the first fetch.  A fetch   *)
(* reads the store and then deletes; requests overlap between the two.     *)
(***************************************************************************)
EXTENDS Naturals, FiniteSets

CONSTANTS
  Tokens,
  Fetches,     (* requests GET /acp/peer, each made once                    *)
  MaxRecords   (* bound: announcements                                      *)

VARIABLES
  record,      (* the record under each token, 0 for none                   *)
  fetch,       (* per fetch: where it is, its token, what it read           *)
  announced,
  fetched,     (* history: how often each record was given out              *)
  ended,       (* history: records given out, expired or replaced           *)
  crossed      (* history: tokens of which a fetch met another request      *)

vars == <<record, fetch, announced, fetched, ended, crossed>>

Records == 1 .. MaxRecords
Fresh == [at |-> "new", token |-> {}, read |-> 0]
Reading(t) == {f \in Fetches : fetch[f].at = "read" /\ fetch[f].token = {t}}

TypeOK ==
  /\ record \in [Tokens -> 0 .. MaxRecords]
  /\ fetch \in [Fetches -> [at : {"new", "read", "done"}, token : SUBSET Tokens, read : 0 .. MaxRecords]]
  /\ \A f \in Fetches : fetch[f].at # "new" => Cardinality(fetch[f].token) = 1
  /\ fetched \in [Records -> 0 .. Cardinality(Fetches)]

Init ==
  /\ record = [t \in Tokens |-> 0] /\ fetch = [f \in Fetches |-> Fresh]
  /\ announced = 0 /\ fetched = [r \in Records |-> 0] /\ ended = {} /\ crossed = {}

(* A record replaces the one of the same token.                             *)
Announce(t) ==
  /\ announced < MaxRecords /\ announced' = announced + 1
  /\ record' = [record EXCEPT ![t] = announced + 1]
  /\ ended' = ended \cup ({record[t]} \ {0})
  /\ crossed' = IF Reading(t) # {} THEN crossed \cup {t} ELSE crossed
  /\ UNCHANGED <<fetch, fetched>>

Expire(t) ==
  /\ record[t] # 0
  /\ record' = [record EXCEPT ![t] = 0] /\ ended' = ended \cup {record[t]}
  /\ UNCHANGED <<fetch, announced, fetched, crossed>>

(* Without a record the answer is 404.                                      *)
ReadRecord(f, t) ==
  /\ fetch[f].at = "new"
  /\ fetch' = [fetch EXCEPT ![f] = [at |-> IF record[t] = 0 THEN "done" ELSE "read",
                                    token |-> {t}, read |-> record[t]]]
  /\ crossed' = IF Reading(t) # {} THEN crossed \cup {t} ELSE crossed
  /\ UNCHANGED <<record, announced, fetched, ended>>

(* Mutant: the record stays.                                                *)
DeleteRecord_Keep(f) ==
  /\ fetch[f].at = "read"
  /\ fetch' = [fetch EXCEPT ![f].at = "done"]
  /\ fetched' = [fetched EXCEPT ![fetch[f].read] = @ + 1]
  /\ ended' = ended \cup {fetch[f].read}
  /\ UNCHANGED <<record, announced, crossed>>

(* Mutant: every record is deleted.                                         *)
DeleteRecord_All(f) ==
  /\ fetch[f].at = "read"
  /\ record' = [t \in Tokens |-> 0]
  /\ fetch' = [fetch EXCEPT ![f].at = "done"]
  /\ fetched' = [fetched EXCEPT ![fetch[f].read] = @ + 1]
  /\ ended' = ended \cup {fetch[f].read}
  /\ UNCHANGED <<announced, crossed>>

(* Whatever record is there by now is deleted; what was read is the answer. *)
DeleteRecord(f) ==
  /\ fetch[f].at = "read"
  /\ record' = [t \in Tokens |-> IF t \in fetch[f].token THEN 0 ELSE record[t]]
  /\ fetch' = [fetch EXCEPT ![f].at = "done"]
  /\ fetched' = [fetched EXCEPT ![fetch[f].read] = @ + 1]
  /\ ended' = ended \cup {fetch[f].read}
  /\ UNCHANGED <<announced, crossed>>

Next ==
  \/ \E t \in Tokens : Announce(t) \/ Expire(t) \/ \E f \in Fetches : ReadRecord(f, t)
  \/ \E f \in Fetches : DeleteRecord(f)

Spec == Init /\ [][Next]_vars

-----------------------------------------------------------------------------
(* Properties.                                                              *)

(* A record is given out once, as long as no requests of a token overlap.   *)
FetchedOnce == crossed = {} => \A r \in Records : fetched[r] <= 1

(* And none goes without being given out, expired or replaced; a record     *)
(* announced in the middle of a fetch does.                                 *)
GoneForAReason ==
  crossed = {} => \A r \in 1 .. announced : r \in ended \/ \E t \in Tokens : record[t] = r

=============================================================================
