--------------------------- MODULE CapabilityTokens ---------------------------
(***************************************************************************)
(* Capability tokens and delegations of the relay (acp_relay.py): issue,   *)
(* check, active revocation, and the delegation chain of the identity.     *)
(*                                                                         *)
(* Requests run on threads of their own without a lock: a revocation looks *)
(* and then records, a delegation rebinds the list and then appends to it. *)
(* A token is [jti, sub, skill, tier, exp]: signed by whom it names as     *)
(* issuer, some issued here, Foreign ones by others.                       *)
(***************************************************************************)
EXTENDS Integers, Sequences, FiniteSets, SequencesExt

CONSTANTS
  Jtis, Foreign,      (* tokens to be issued here; tokens of other issuers  *)
  Subjects, CardSkills, Anyone, AnySkill, (* what a request may leave out   *)
  Ttls, Reasons, Delegators,
  Clerks,             (* threads that revoke or delegate                    *)
  MaxTime, MaxJobs    (* bounds                                             *)

VARIABLES
  time,
  issued,     (* _capability_tokens                                         *)
  revoked,    (* _revoked_tokens: jti -> reason                             *)
  lists,      (* the lists _delegation_chain has been; the last is current  *)
  job,        (* requests under way                                         *)
  jobs,
  answered,   (* history: reasons of the revocations answered with 200      *)
  crossed,    (* history: tokens two revocations were under way for         *)
  tangled,    (* history: two delegations were under way at once            *)
  delegated   (* history: entries answered with ok and not replaced since   *)

tokenVars == <<time, issued, revoked, lists, job, jobs, answered, crossed, tangled, delegated>>

Free == [at |-> "free"]
Claim(j, s, k, l, e) == [jti |-> j, sub |-> s, skill |-> k, tier |-> l, exp |-> e]
Known == DOMAIN issued
IsRevoked(j) == j \in DOMAIN revoked
Chain == Last(lists)
Extend(f, x, v) == [y \in DOMAIN f \cup {x} |-> IF y = x THEN v ELSE f[y]]

TypeOK ==
  /\ time \in 0 .. MaxTime /\ Known \subseteq Jtis /\ DOMAIN revoked \subseteq Jtis \cup Foreign
  /\ \A j \in Known : /\ issued[j].token.jti = j /\ issued[j].token.sub \in Subjects
                      /\ issued[j].token.skill \in CardSkills /\ issued[j].token.tier \in 0 .. 3
                      /\ issued[j].mark # "" => IsRevoked(j)
  /\ \A j \in DOMAIN revoked : revoked[j] \in Reasons
  /\ \A i \in DOMAIN lists : \A e \in ToSet(lists[i]) : e.did \in Delegators
  /\ \A c \in Clerks : job[c].at \in {"free", "record", "mark", "append"}

Init ==
  /\ time = 0 /\ issued = <<>> /\ revoked = <<>> /\ lists = <<<<>>>>
  /\ job = [c \in Clerks |-> Free] /\ jobs = 0
  /\ answered = [j \in Jtis \cup Foreign |-> <<>>] /\ crossed = {} /\ tangled = FALSE /\ delegated = {}

-----------------------------------------------------------------------------
(* Issue and check.                                                         *)

(* POST /skills/{id}/capability-token: a random jti, of a skill of the card. *)
Issue(j, sub, skill, tier, ttl) ==
  /\ j \in Jtis \ Known
  /\ issued' = Extend(issued, j, [token |-> Claim(j, sub, skill, tier, time + ttl), mark |-> ""])
  /\ UNCHANGED <<time, revoked, lists, job, jobs, answered, crossed, tangled, delegated>>

(* Mutant: a token is good for every skill.                                 *)
Verifies_AnySkill(t, skill) == t.exp >= time

(* At POST /tasks: not over (the code refuses exp < now, its docstring says  *)
(* exp > now), of this skill (the signature is taken as good).              *)
Verifies(t, skill) == t.exp >= time /\ t.skill = skill

(* POST .../validate: what a request leaves out is not checked.             *)
Failed(t, used, skill, did) ==
  { check \in {"expiry", "scope", "subject", "revocation"} :
      \/ check = "expiry" /\ used > t.exp
      \/ check = "scope" /\ skill # AnySkill /\ t.skill # skill
      \/ check = "subject" /\ did # Anyone /\ t.sub # did
      \/ check = "revocation" /\ IsRevoked(t.jti) }

(* Mutant: the mark of the store of issued tokens is consulted.             *)
Authorized_ByMark(t, used, skill, did) ==
  Failed(t, used, skill, did) \ {"revocation"} = {} /\ ~(t.jti \in Known /\ issued[t.jti].mark # "")

Authorized(t, used, skill, did) == Failed(t, used, skill, did) = {}

(* The first of the priority order, which revocation is not in.             *)
DenyReason(t, used, skill, did) ==
  LET f == Failed(t, used, skill, did)
  IN IF "expiry" \in f THEN "expiry" ELSE IF "scope" \in f THEN "scope"
     ELSE IF "subject" \in f THEN "subject" ELSE "revocation"

-----------------------------------------------------------------------------
(* Revocation.                                                              *)

Start(c) == job[c] = Free /\ jobs < MaxJobs /\ jobs' = jobs + 1
Revoking(j) == {c \in Clerks : job[c].at \in {"record", "mark"} /\ job[c].jti = j}

(* Mutant: no 409.                                                          *)
RevokeLook_Again(c, j, reason) ==
  /\ Start(c)
  /\ job' = [job EXCEPT ![c] = [at |-> "record", jti |-> j, reason |-> reason]]
  /\ crossed' = IF Revoking(j) # {} THEN crossed \cup {j} ELSE crossed
  /\ UNCHANGED <<time, issued, revoked, lists, answered, tangled, delegated>>

(* Mutant: the issued token is marked first, and the registry left out.     *)
RevokeLook_MarkOnly(c, j, reason) ==
  /\ Start(c)
  /\ job' = IF IsRevoked(j) THEN job ELSE [job EXCEPT ![c] = [at |-> "mark", jti |-> j, reason |-> reason]]
  /\ crossed' = IF Revoking(j) # {} THEN crossed \cup {j} ELSE crossed
  /\ UNCHANGED <<time, issued, revoked, lists, answered, tangled, delegated>>

(* 409 if it is revoked already.                                            *)
RevokeLook(c, j, reason) ==
  /\ Start(c)
  /\ job' = IF IsRevoked(j) THEN job ELSE [job EXCEPT ![c] = [at |-> "record", jti |-> j, reason |-> reason]]
  /\ crossed' = IF Revoking(j) # {} THEN crossed \cup {j} ELSE crossed
  /\ UNCHANGED <<time, issued, revoked, lists, answered, tangled, delegated>>

(* Also of a token that was not issued here.                                *)
RevokeRecord(c) ==
  /\ job[c].at = "record"
  /\ revoked' = Extend(revoked, job[c].jti, job[c].reason)
  /\ job' = [job EXCEPT ![c].at = "mark"]
  /\ UNCHANGED <<time, issued, lists, jobs, answered, crossed, tangled, delegated>>

(* The mark of the issued token, and the answer.                            *)
RevokeMark(c) ==
  LET j == job[c].jti
  IN /\ job[c].at = "mark"
     /\ issued' = IF j \in Known THEN [issued EXCEPT ![j].mark = job[c].reason] ELSE issued
     /\ answered' = [answered EXCEPT ![j] = Append(@, job[c].reason)]
     /\ job' = [job EXCEPT ![c] = Free]
     /\ UNCHANGED <<time, revoked, lists, jobs, crossed, tangled, delegated>>

-----------------------------------------------------------------------------
(* Delegation.                                                              *)

Others(d) == SelectSeq(Chain, LAMBDA e : e.did # d)

(* Mutant: an entry of the same delegator stays.                            *)
DelegateRebind_Keeps(c, d, ttl) ==
  /\ Start(c)
  /\ lists' = Append(lists, Chain)
  /\ tangled' = (tangled \/ \E o \in Clerks \ {c} : job[o].at = "append")
  /\ job' = [job EXCEPT ![c] = [at |-> "append", entry |-> [did |-> d, exp |-> time + ttl]]]
  /\ UNCHANGED <<time, issued, revoked, answered, crossed, delegated>>

(* POST /identity/delegate: a new list without the delegator, ...           *)
DelegateRebind(c, d, ttl) ==
  /\ Start(c)
  /\ lists' = Append(lists, Others(d))
  /\ tangled' = (tangled \/ \E o \in Clerks \ {c} : job[o].at = "append")
  /\ job' = [job EXCEPT ![c] = [at |-> "append", entry |-> [did |-> d, exp |-> time + ttl]]]
  /\ UNCHANGED <<time, issued, revoked, answered, crossed, delegated>>

(* ... which, or whatever is the list by then, gets the entry.              *)
DelegateAppend(c) ==
  LET e == job[c].entry
  IN /\ job[c].at = "append"
     /\ lists' = [lists EXCEPT ![Len(lists)] = Append(@, e)]
     /\ delegated' = {x \in delegated : x.did # e.did} \cup {e}
     /\ job' = [job EXCEPT ![c] = Free]
     /\ UNCHANGED <<time, issued, revoked, jobs, answered, crossed, tangled>>

Wait ==
  /\ time < MaxTime /\ time' = time + 1
  /\ UNCHANGED <<issued, revoked, lists, job, jobs, answered, crossed, tangled, delegated>>

(* A jti is random: nobody knows one before it is issued.                   *)
Next ==
  \/ \E j \in Jtis, s \in Subjects, k \in CardSkills, ttl \in Ttls : Issue(j, s, k, 1, ttl)
  \/ \E c \in Clerks : \/ \E j \in Known \cup Foreign, r \in Reasons : RevokeLook(c, j, r)
                       \/ RevokeRecord(c) \/ RevokeMark(c)
                       \/ \E d \in Delegators, ttl \in Ttls : DelegateRebind(c, d, ttl)
                       \/ DelegateAppend(c)
  \/ Wait

Spec == Init /\ [][Next]_tokenVars

-----------------------------------------------------------------------------
(* Properties.                                                              *)

(* What a caller may present: a token issued here, or one of another issuer. *)
Presented == {issued[j].token : j \in Known}
             \cup {Claim(j, s, k, 1, MaxTime) : j \in Foreign, s \in Subjects, k \in CardSkills}

(* After a revocation was answered with 200 no validation authorizes the    *)
(* token, whoever issued it, whatever time and skill the caller names.      *)
RevokedForGood ==
  \A t \in Presented : answered[t.jti] # <<>> =>
    \A used \in 0 .. MaxTime, skill \in CardSkills \cup {AnySkill}, did \in Subjects \cup {Anyone} :
      ~Authorized(t, used, skill, did)

(* Of revocations of a token that do not overlap one is answered with 200,  *)
(* and the registry and the mark of an issued token give its reason.        *)
OneRevocationStands ==
  \A j \in (Jtis \cup Foreign) \ crossed : answered[j] # <<>> =>
    /\ Len(answered[j]) = 1 /\ revoked[j] = Head(answered[j])
    /\ j \in Known => issued[j].mark = revoked[j]

(* The gate of POST /tasks and the validation agree about every token that  *)
(* is not revoked: both still take it in the second its exp names, although *)
(* the docstring of the one says "exp > now".                               *)
GatesAgree ==
  \A t \in Presented, skill \in CardSkills :
    ~IsRevoked(t.jti) => (Verifies(t, skill) <=> Authorized(t, time, skill, Anyone))

(* Delegations that do not overlap are all in the chain, one of each        *)
(* delegator, its last.                                                     *)
DelegationsKept ==
  ~tangled /\ (\A c \in Clerks : job[c].at # "append") =>
    ToSet(Chain) = delegated /\ Len(Chain) = Cardinality({e.did : e \in delegated})
=============================================================================
