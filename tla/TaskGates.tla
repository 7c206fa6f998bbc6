----------------------------- MODULE TaskGates -----------------------------
(***************************************************************************)
(* What stands between POST /tasks and a task (acp_relay.py): the tier a   *)
(* skill has for a caller (_compute_effective_tier, from the rule of the   *)
(* skill, the depth of the principal chain and three adjustments), the     *)
(* caller's trust score, the constraints on parameters, the rate limit,    *)
(* the capability token; and the interaction record of a task.             *)
(*                                                                         *)
(* Each request runs on a thread of its own, nothing is locked.  Trust is  *)
(* counted in 1/10000, effective records in tenths.  A skill is a record   *)
(* [tier, needsToken, rpm, burst, rpd, fits]: no bucket where rpm and rpd  *)
(* are NoLimit; fits are the parameters that violate no rule of its schema *)
(* (required, type, bounds, allowed values, pattern), perhaps Absent.      *)
(***************************************************************************)
EXTENDS Integers, Sequences, FiniteSets, FiniteSetsExt, SequencesExt, TLC

CONSTANTS
  Peers, Unknown,      (* connected peers; a caller that is not one         *)
  Nobody,              (* no peer_id, no callee                             *)
  SkillOf, Skills,     (* the skills of the card                            *)
  NoLimit, Absent,
  Standings,           (* what may be known of a peer                       *)
  Pasts,               (* bilateral records there may be: pairs -> number   *)
  Roots, NoRoot,       (* WTRMRK commitments                                *)
  Principals,
  Asks,                (* requests: skill, peer, root, param, token, record *)
  Threads,
  Minute, Day, CacheTtl, (* windows, in ticks of the clock                  *)
  MaxNow, MaxRequests, MaxEvents  (* bounds                                 *)

VARIABLES
  now,
  peers,     (* _peers: standing of each                                    *)
  chain,     (* DIDs of _principal_chain                                    *)
  past,      (* bilateral records, by caller and callee                     *)
  log,       (* records this life of the relay created                      *)
  irSeq,
  registry,  (* the grade the registry gives, or Down                       *)
  cache,     (* _WTRMRK_CACHE                                               *)
  buckets,   (* _rl_buckets                                                 *)
  th,        (* requests under way                                          *)
  requests, events,
  admitted,  (* history: when each request passed the rate limit            *)
  tasks,     (* history: tasks created                                      *)
  overlapped, (* history: buckets that two requests were in at once         *)
  mingled,   (* history: two records were being made at once                *)
  graded     (* history: the grades each root had, and when                 *)

env == <<peers, chain, past, registry>>
vars == <<now, env, log, irSeq, cache, buckets, th, requests, events, admitted, tasks, overlapped, mingled, graded>>

Callers == Peers \cup {Unknown, Nobody}
Buckets == Skills \X Callers
Down == -1
Never == [grade |-> Down, ts |-> 0 - CacheTtl]
NoBucket == [count |-> -1, days |-> 0, minStart |-> 0, dayStart |-> 0]
Idle == [at |-> "idle"]

TypeOK ==
  /\ now \in 0 .. MaxNow /\ peers \in [Peers -> Standings] /\ chain \subseteq Principals
  /\ registry \in [Roots -> Down .. 3]
  /\ \A r \in Roots : cache[r].grade \in Down .. 3 /\ cache[r].ts <= now
  /\ \A k \in Buckets : /\ buckets[k].count \in -1 .. MaxRequests /\ buckets[k].days \in 0 .. MaxRequests
                     /\ buckets[k].minStart \in 0 .. now /\ buckets[k].dayStart \in 0 .. now
  /\ \A t \in Threads : th[t].at \in {"idle", "tier", "check", "load", "store", "token", "inc", "prev", "append"}
  /\ irSeq \in 0 .. MaxRequests /\ \A i \in DOMAIN log : log[i].seq \in 1 .. irSeq
  /\ Len(tasks) + Cardinality({t \in Threads : th[t].at \in {"tier", "check", "load", "store", "token"}}) <= requests

(* The start-up may put principals in the chain.                            *)
Init ==
  /\ now = 0 /\ peers \in [Peers -> Standings] /\ chain \in SUBSET Principals /\ past \in Pasts
  /\ log = <<>> /\ irSeq = 0
  /\ registry \in [Roots -> Down .. 3] /\ cache = [r \in Roots |-> Never]
  /\ buckets = [k \in Buckets |-> NoBucket]
  /\ th = [t \in Threads |-> Idle] /\ requests = 0 /\ events = 0
  /\ admitted = <<>> /\ tasks = <<>> /\ overlapped = {} /\ mingled = FALSE
  /\ graded = {<<r, registry[r], 0>> : r \in Roots}

-----------------------------------------------------------------------------
(* Adjustments.                                                             *)

Identified(s) == s.signals \cap {"verified_identity", "did_document"} # {}

(* -1 for a long record, +1 for one of whom nothing is known, or nobody.    *)
ReputationAdj(p) ==
  IF p = Nobody THEN 1
  ELSE IF p \notin Peers THEN 0
  ELSE IF peers[p].valid /\ Identified(peers[p]) /\ peers[p].msgs > 100 THEN -1
  ELSE IF ~peers[p].valid /\ peers[p].msgs = 0 /\ peers[p].signals = {} THEN 1
  ELSE 0

(* What the cache answers while it is fresh, else what a query would.       *)
Fresh(r) == now - cache[r].ts < CacheTtl
Grade(r) == IF Fresh(r) THEN cache[r].grade ELSE registry[r]

WtrmrkAdj(r) ==
  IF r = NoRoot \/ Grade(r) = Down THEN 0
  ELSE IF Grade(r) = 3 THEN -1 ELSE IF Grade(r) = 0 THEN 1 ELSE 0

(* Bilateral records that name p, all and those with c.                     *)
Between(p, c) == MapThenSumSet(LAMBDA q : past[q], {q \in DOMAIN past : {q[1], q[2]} = {p, c}})
Total(p) == MapThenSumSet(LAMBDA q : past[q], {q \in DOMAIN past : p \in {q[1], q[2]}})

(* More than 60 % with one other: beyond 60 % a record counts a tenth.      *)
Partners == UNION {{q[1], q[2]} : q \in DOMAIN past}
Concentrated(p) ==
  Total(p) >= 3 /\ \E c \in Partners \ {p, Nobody} : 10 * Between(p, c) > 6 * Total(p)

(* Mutant: records with the one counterparty all count a tenth.             *)
Effective_AllReduced(p) == IF Concentrated(p) THEN Total(p) ELSE 10 * Total(p)

Effective(p) ==
  LET normal == (6 * Total(p) + 5) \div 10
  IN IF Concentrated(p) THEN 10 * normal + (Total(p) - normal) ELSE 10 * Total(p)

BilateralAdj(p) ==
  IF p = Nobody \/ Total(p) = 0 THEN 1 ELSE IF Effective(p) >= 50 THEN -1 ELSE 0

(* Mutant: one -1 is enough.                                                *)
CombinedAdj_One(a, b, c) == IF 1 \in {a, b, c} /\ -1 \notin {a, b, c} THEN 1
                            ELSE IF -1 \in {a, b, c} THEN -1 ELSE 0

(* With a +1 the sum, at least 0; else -1 where two of three are.           *)
CombinedAdj(a, b, c) ==
  IF 1 \in {a, b, c} THEN (IF a + b + c >= 1 THEN 1 ELSE 0)
  ELSE IF a + b + c <= -2 THEN -1 ELSE 0

-----------------------------------------------------------------------------
(* Tiers, 0 for T0 and for none.                                            *)

Floor(depth) == IF depth > 3 THEN 3 ELSE depth
Base(s, depth) == IF SkillOf[s].tier > Floor(depth) THEN SkillOf[s].tier ELSE Floor(depth)

Clamp(n) == IF n < 0 THEN 0 ELSE IF n > 3 THEN 3 ELSE n

(* Mutant: the depth counts against the adjustment only, not for the floor. *)
Tier_DepthLowers(s, depth, adj) ==
  IF SkillOf[s].tier = 3 THEN 3
  ELSE IF Base(s, depth) >= 2 /\ depth < 3 THEN Clamp(Base(s, depth) + adj)
  ELSE SkillOf[s].tier

Tier(s, depth, adj) ==
  IF SkillOf[s].tier = 3 THEN 3
  ELSE IF Base(s, depth) >= 2 THEN Clamp(Base(s, depth) + adj)
  ELSE Base(s, depth)

AdjOf(p, r) == CombinedAdj(ReputationAdj(p), WtrmrkAdj(r), BilateralAdj(p))
Depth == Cardinality(chain)
EffectiveTier(s, p, r) == Tier(s, Depth, AdjOf(p, r))

(* The trust score.  A vouch names this relay as vouched for, never a peer, *)
(* so the tenth it weighs stays 0.                                          *)
CardScore(st) == IF st.valid THEN 100 ELSE 0
DidScore(st) == IF st.consistent THEN 100 ELSE IF st.valid THEN 50 ELSE 0
MsgScore(st) == IF st.msgs > 100 THEN 100 ELSE IF st.msgs > 20 THEN 70
                ELSE IF st.msgs > 5 THEN 40 ELSE IF st.msgs > 0 THEN 20 ELSE 0
PingScore(st) == IF st.rtt = Absent THEN 0 ELSE IF st.rtt < 50 THEN 100 ELSE IF st.rtt < 200 THEN 70
                 ELSE IF st.rtt < 500 THEN 40 ELSE 10

(* Mutant: weights that add up to more than one.                            *)
TrustScore_Heavy(st) == 40 * CardScore(st) + 25 * DidScore(st) + 25 * PingScore(st) + 20 * MsgScore(st)

TrustScore(st) == 35 * CardScore(st) + 20 * DidScore(st) + 20 * PingScore(st) + 15 * MsgScore(st)

MeetsTier(s, p, r) ==
  LET tier == EffectiveTier(s, p, r)
  IN \/ tier <= 1
     \/ p \in Peers /\ tier = 2 /\ TrustScore(peers[p]) >= 7000
     \/ p \in Peers /\ tier = 3 /\ TrustScore(peers[p]) >= 9000 /\ "verified_identity" \in peers[p].signals

-----------------------------------------------------------------------------
(* Requests.                                                                *)

To(t, place) == th' = [th EXCEPT ![t].at = place]
End(t) == th' = [th EXCEPT ![t] = Idle]
Meeting(t, place) == \E u \in Threads \ {t} : th[u].at \in place
Key(t) == <<th[t].skill, th[t].peer>>

(* Without the token its skill needs a request is refused.                 *)
Request(t, ask) ==
  /\ th[t] = Idle /\ requests < MaxRequests
  /\ requests' = requests + 1
  /\ th' = IF SkillOf[ask.skill].needsToken /\ ask.token = "none" THEN th
           ELSE [th EXCEPT ![t] = ask @@ [at |-> IF ask.token = "none" THEN "tier" ELSE "check",
                                          ts |-> 0, count |-> 0, days |-> 0, seq |-> 0, prev |-> 0, met |-> Nobody]]
  /\ UNCHANGED <<now, env, log, irSeq, cache, buckets, events, admitted, tasks, overlapped, mingled, graded>>

(* The tier, of a request without a token.  A query of the registry leaves  *)
(* its answer, or the failure, in the cache.                                *)
TierGate(t) ==
  LET q == th[t]
  IN /\ q.at = "tier"
     /\ th' = IF MeetsTier(q.skill, q.peer, q.root)
              THEN [th EXCEPT ![t].at = "check", ![t].met = IF q.peer \in Peers THEN peers[q.peer] ELSE Nobody]
              ELSE [th EXCEPT ![t] = Idle]
     /\ cache' = IF q.root = NoRoot \/ Fresh(q.root) THEN cache
                 ELSE [cache EXCEPT ![q.root] = [grade |-> registry[q.root], ts |-> now]]
     /\ UNCHANGED <<now, env, log, irSeq, buckets, requests, events, admitted, tasks, overlapped, mingled, graded>>

(* The constraints on parameters.                                           *)
Fits(s, v) == v \in SkillOf[s].fits

Limited(s) == SkillOf[s].rpm # NoLimit \/ SkillOf[s].rpd # NoLimit

(* A bucket of which the windows that are over start anew.                  *)
Window(b) ==
  LET c == IF b.count = -1 THEN [count |-> 0, days |-> 0, minStart |-> now, dayStart |-> now] ELSE b
      m == IF now - c.minStart >= Minute THEN [c EXCEPT !.count = 0, !.minStart = now] ELSE c
  IN IF now - m.dayStart >= Day THEN [m EXCEPT !.days = 0, !.dayStart = now] ELSE m

(* Mutant: with a limit per minute, that of the day is not looked at.       *)
Full_ByMinute(s, b) ==
  IF SkillOf[s].rpm # NoLimit THEN b.count >= SkillOf[s].rpm + SkillOf[s].burst
  ELSE SkillOf[s].rpd # NoLimit /\ b.days >= SkillOf[s].rpd

Full(s, b) ==
  \/ SkillOf[s].rpm # NoLimit /\ b.count >= SkillOf[s].rpm + SkillOf[s].burst
  \/ SkillOf[s].rpd # NoLimit /\ b.days >= SkillOf[s].rpd

Check(t) ==
  LET q == th[t]  b == Window(buckets[Key(t)])
  IN /\ q.at = "check"
     /\ IF ~Fits(q.skill, q.param) THEN End(t) /\ UNCHANGED <<buckets, overlapped>>
        ELSE IF ~Limited(q.skill) THEN To(t, "token") /\ UNCHANGED <<buckets, overlapped>>
        ELSE /\ buckets' = [buckets EXCEPT ![Key(t)] = b]
             /\ overlapped' = IF \E u \in Threads \ {t} : th[u].at \in {"load", "store"} /\ Key(u) = Key(t)
                              THEN overlapped \cup {Key(t)} ELSE overlapped
             /\ IF Full(q.skill, b) THEN End(t) ELSE th' = [th EXCEPT ![t].at = "load", ![t].ts = now]
     /\ UNCHANGED <<now, env, log, irSeq, cache, requests, events, admitted, tasks, mingled, graded>>

(* += 1 on both counts: they are read, and written back.                    *)
Load(t) ==
  /\ th[t].at = "load"
  /\ th' = [th EXCEPT ![t].at = "store", ![t].count = buckets[Key(t)].count, ![t].days = buckets[Key(t)].days]
  /\ UNCHANGED <<now, env, log, irSeq, cache, buckets, requests, events, admitted, tasks, overlapped, mingled, graded>>

Store(t) ==
  /\ th[t].at = "store"
  /\ buckets' = [buckets EXCEPT ![Key(t)].count = th[t].count + 1, ![Key(t)].days = th[t].days + 1]
  /\ admitted' = Append(admitted, [key |-> Key(t), ts |-> th[t].ts])
  /\ To(t, "token")
  /\ UNCHANGED <<now, env, log, irSeq, cache, requests, events, tasks, overlapped, mingled, graded>>

(* The card that has to list the skill: a peer's own, else this relay's.    *)
Listed(s, p) == p \notin Peers \/ s \in peers[p].skills

(* The token, when it is an object, has to be valid, and the skill listed;  *)
(* then the task is created, and if a record is wanted its number is taken. *)
Create(t) ==
  LET q == th[t]
  IN /\ q.at = "token"
     /\ IF q.token = "invalid" \/ ~Listed(q.skill, q.peer) THEN End(t) /\ UNCHANGED tasks
        ELSE /\ tasks' = Append(tasks, [skill |-> q.skill, param |-> q.param, token |-> q.token, met |-> q.met])
             /\ IF q.record THEN To(t, "inc") ELSE End(t)
     /\ UNCHANGED <<now, env, log, irSeq, cache, buckets, requests, events, admitted, overlapped, mingled, graded>>

-----------------------------------------------------------------------------
(* The interaction record.                                                  *)

IncSeq(t) ==
  /\ th[t].at = "inc"
  /\ irSeq' = irSeq + 1
  /\ To(t, "prev")
  /\ mingled' = (mingled \/ Meeting(t, {"prev", "append"}))
  /\ UNCHANGED <<now, env, log, cache, buckets, requests, events, admitted, tasks, overlapped, graded>>

(* Mutant: the hash of the first record.                                    *)
ReadPrev_First(t) ==
  /\ th[t].at = "prev"
  /\ th' = [th EXCEPT ![t].at = "append", ![t].prev = IF log = <<>> THEN 0 ELSE 1, ![t].seq = irSeq]
  /\ UNCHANGED <<now, env, log, irSeq, cache, buckets, requests, events, admitted, tasks, overlapped, mingled, graded>>

(* The hash of the last record, 0 for genesis; then the number as it is now. *)
ReadPrev(t) ==
  /\ th[t].at = "prev"
  /\ th' = [th EXCEPT ![t].at = "append", ![t].prev = Len(log), ![t].seq = irSeq]
  /\ UNCHANGED <<now, env, log, irSeq, cache, buckets, requests, events, admitted, tasks, overlapped, mingled, graded>>

(* The caller's signature would have to cover the id, the time and the      *)
(* number the relay has only just made, so it is never found valid and the  *)
(* record is not bilateral.                                                 *)
AppendRecord(t) ==
  /\ th[t].at = "append"
  /\ log' = Append(log, [caller |-> th[t].peer, seq |-> th[t].seq, prev |-> th[t].prev])
  /\ End(t)
  /\ UNCHANGED <<now, env, irSeq, cache, buckets, requests, events, admitted, tasks, overlapped, mingled, graded>>

-----------------------------------------------------------------------------
(* What goes on besides.                                                    *)

Event == events < MaxEvents /\ events' = events + 1
Besides == UNCHANGED <<log, irSeq, buckets, th, requests, admitted, tasks, overlapped, mingled>>

(* POST and DELETE /principal-chain.                                        *)
AddPrincipal(d) ==
  /\ Event /\ chain' = chain \cup {d}
  /\ UNCHANGED <<now, peers, past, registry, cache, graded>> /\ Besides
RemovePrincipal(d) ==
  /\ d \in chain /\ Event /\ chain' = chain \ {d}
  /\ UNCHANGED <<now, peers, past, registry, cache, graded>> /\ Besides

(* Verification, messages and pings change what is known of a peer.         *)
Learn(p, st) ==
  /\ Event /\ peers' = [peers EXCEPT ![p] = st]
  /\ UNCHANGED <<now, chain, past, registry, cache, graded>> /\ Besides

(* POST /trust/bilateral-ir/inject.                                         *)
Inject(pair) ==
  /\ pair \in DOMAIN past /\ Event /\ past' = [past EXCEPT ![pair] = @ + 1]
  /\ UNCHANGED <<now, peers, chain, registry, cache, graded>> /\ Besides

Regrade(r, g) ==
  /\ Event /\ registry' = [registry EXCEPT ![r] = g]
  /\ graded' = graded \cup {<<r, g, now>>}
  /\ UNCHANGED <<now, peers, chain, past, cache>> /\ Besides

(* Mutant: a hit makes the entry fresh again.                               *)
AskTier_Refresh(r) ==
  /\ cache' = [cache EXCEPT ![r] = [grade |-> Grade(r), ts |-> now]]
  /\ UNCHANGED <<now, env, events, graded>> /\ Besides

(* GET /skills/{id}/effective-tier.                                         *)
AskTier(r) ==
  /\ ~Fresh(r)
  /\ cache' = [cache EXCEPT ![r] = [grade |-> registry[r], ts |-> now]]
  /\ UNCHANGED <<now, env, events, graded>> /\ Besides

Tick ==
  /\ now < MaxNow /\ now' = now + 1
  /\ graded' = graded \cup {<<r, registry[r], now + 1>> : r \in Roots}
  /\ UNCHANGED <<env, cache, events>> /\ Besides

Next ==
  \/ \E t \in Threads : \/ \E ask \in Asks : Request(t, ask)
                        \/ TierGate(t) \/ Check(t) \/ Load(t) \/ Store(t) \/ Create(t)
                        \/ IncSeq(t) \/ ReadPrev(t) \/ AppendRecord(t)
  \/ \E d \in Principals : AddPrincipal(d) \/ RemovePrincipal(d)
  \/ \E p \in Peers, st \in Standings : Learn(p, st)
  \/ \E pair \in DOMAIN past : Inject(pair)
  \/ \E r \in Roots : AskTier(r) \/ \E g \in Down .. 3 : Regrade(r, g)
  \/ Tick

Spec == Init /\ [][Next]_vars

-----------------------------------------------------------------------------
(* Properties.                                                              *)

Within(k, from, to) == {i \in DOMAIN admitted : admitted[i].key = k /\ from <= admitted[i].ts /\ admitted[i].ts <= to}

(* As long as the requests of a skill and a caller do not overlap, no       *)
(* window of the bucket admits more than its limit, and no minute or day    *)
(* anywhere on the clock more than twice as many.                           *)
LimitsHold ==
  \A k \in Buckets \ overlapped : LET s == SkillOf[k[1]]  b == buckets[k] IN
    /\ s.rpm # NoLimit =>
         /\ b.count # -1 => Cardinality(Within(k, b.minStart, now)) <= s.rpm + s.burst
         /\ \A from \in 0 .. now : Cardinality(Within(k, from, from + Minute - 1)) <= 2 * (s.rpm + s.burst)
    /\ s.rpd # NoLimit =>
         /\ b.count # -1 => Cardinality(Within(k, b.dayStart, now)) <= s.rpd
         /\ \A from \in 0 .. now : Cardinality(Within(k, from, from + Day - 1)) <= 2 * s.rpd

(* Without bilateral records no reputation and no attestation lowers a tier *)
(* below the skill's rule or the floor of the delegation depth.             *)
NoRecordsNoLowering ==
  \A p \in Callers : p = Nobody \/ Total(p) = 0 =>
    \A r \in Roots \cup {NoRoot} : LET adj == AdjOf(p, r)
      IN \A s \in Skills : Tier(s, Depth, adj) >= Base(s, Depth)

(* A tier is lowered by one at most, never that of a T3 skill, and only for *)
(* a caller with bilateral records and two of: more than a hundred          *)
(* messages, the highest grade, five bilateral records.                     *)
LoweringIsEarned ==
  \A p \in Callers, r \in Roots \cup {NoRoot} : LET adj == AdjOf(p, r)
    IN \A s \in Skills : Tier(s, Depth, adj) < Base(s, Depth) =>
         /\ SkillOf[s].tier # 3 /\ Tier(s, Depth, adj) = Base(s, Depth) - 1
         /\ Total(p) > 0
         /\ Cardinality({a \in 1 .. 3 : \/ a = 1 /\ p \in Peers /\ peers[p].msgs > 100
                                        \/ a = 2 /\ r # NoRoot /\ Grade(r) = 3
                                        \/ a = 3 /\ Total(p) >= 5}) >= 2

(* A history with one counterparty alone counts as established from eight   *)
(* records on, not from five.                                               *)
OnePartnerNeedsEight ==
  \A p \in Peers : \A c \in Partners \ {p, Nobody} :
    Between(p, c) = Total(p) /\ Total(p) > 0 => (BilateralAdj(p) = -1 <=> Total(p) >= 8)

(* A principal more never makes a tier lower, whatever the adjustment.      *)
DeeperIsNotLower ==
  \A s \in Skills, adj \in -1 .. 1 : Tier(s, Depth + 1, adj) >= Tier(s, Depth, adj)

(* A task of a T3 skill that came without a token is one of a peer that had *)
(* the best score in every respect and a verified identity.                 *)
T3IsForTheBest ==
  \A i \in DOMAIN tasks : SkillOf[tasks[i].skill].tier = 3 /\ tasks[i].token = "none" =>
    LET st == tasks[i].met
    IN st # Nobody /\ st.valid /\ st.consistent /\ st.msgs > 100 /\ st.rtt < 50 /\ "verified_identity" \in st.signals

(* Records that are not made at the same time are a chain.                  *)
RecordsAreAChain ==
  ~mingled => \A i \in DOMAIN log : log[i].prev = i - 1 /\ log[i].seq = i

(* The grade a tier is computed with is one the registry had, or failed to  *)
(* tell, less than the lifetime of the cache ago.                           *)
GradeIsRecent ==
  \A r \in Roots : \E i \in graded : i[1] = r /\ i[2] = Grade(r) /\ now - i[3] <= (IF CacheTtl = 0 THEN 0 ELSE CacheTtl - 1)

=============================================================================
