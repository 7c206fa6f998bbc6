------------------------------- MODULE MCGates -------------------------------
(* What stands before a task, for TLC: the tiers of skills with few skills  *)
(* and many standings and no request, the gates with two requests at once,  *)
(* a rate limit alone with many requests over its minutes and days,         *)
(* capability tokens, the card that changes while the agent runs, and the   *)
(* catalogue of its skills.  Each behaviour is of one of them.              *)
EXTENDS Integers

CONSTANTS
  p1, p2, s0, s2, s3, Unknown, Nobody, NoLimit, Absent, Roots, NoRoot, Principals, Threads,
  MaxNow, MaxRequests, MaxEvents,
  Jtis, Foreign, Subjects, CardSkills, Anyone, AnySkill, Ttls, Reasons, Delegators, Clerks, MaxTime, MaxJobs,
  Editors, Lists, Maps, Keys, MaxNew, MaxLimits, MaxAvail, MaxClock, t1

VARIABLES
  part,
  now, peers, chain, past, log, irSeq, registry, cache, buckets, th, requests, events,
  admitted, tasks, overlapped, mingled, graded,
  time, issued, revoked, lists, job, jobs, answered, crossed, tangled, delegated,
  entries, limits, policy, shown, avail, clock, edit, edits, overlaps, asked, beats,
  override, probed, reader, worth, patches, readings

gateVars == <<now, peers, chain, past, log, irSeq, registry, cache, buckets, th, requests, events,
              admitted, tasks, overlapped, mingled, graded>>
tokenVars == <<time, issued, revoked, lists, job, jobs, answered, crossed, tangled, delegated>>
cardVars == <<entries, limits, policy, shown, avail, clock, edit, edits, overlaps, asked, beats>>
skillVars == <<override, probed, reader, worth, patches, readings>>

Standing(valid, consistent, signals, msgs, rtt) ==
  [valid |-> valid, consistent |-> consistent, signals |-> signals, msgs |-> msgs, rtt |-> rtt, skills |-> {s0, s3}]
Rule(tier) == [tier |-> tier, needsToken |-> FALSE, rpm |-> NoLimit, burst |-> 0, rpd |-> NoLimit, fits |-> {0, 1, Absent}]
Best == Standing(TRUE, TRUE, {"verified_identity"}, 101, 40)
Ask(s, p, v, token, record) == [skill |-> s, peer |-> p, root |-> NoRoot, param |-> v, token |-> token, record |-> record]

Tiers == INSTANCE TaskGates WITH
  Peers <- {p1}, Skills <- {s0, s2, s3}, Threads <- {}, Asks <- {}, Minute <- 1, Day <- 2, CacheTtl <- 2,
  SkillOf <- [s \in {s0, s2, s3} |-> Rule(IF s = s0 THEN 0 ELSE IF s = s2 THEN 2 ELSE 3)],
  Standings <- {Best, Standing(TRUE, TRUE, {"did_document"}, 101, 40), Standing(TRUE, FALSE, {}, 0, Absent),
                Standing(FALSE, FALSE, {}, 0, Absent), Standing(FALSE, FALSE, {"verified_identity"}, 101, 40)},
  Pasts <- {[q \in {<<p1, Unknown>>, <<p1, p2>>} |-> IF q = <<p1, p2>> THEN n[1] ELSE n[2]] :
              n \in {<<0, 0>>, <<4, 0>>, <<7, 0>>, <<4, 3>>}}

Gates == INSTANCE TaskGates WITH
  Peers <- {p1}, Skills <- {s0, s3}, Roots <- {}, Principals <- {}, Minute <- 1, Day <- 2, CacheTtl <- 2, Pasts <- {<<>>},
  SkillOf <- [s \in {s0, s3} |->
                IF s = s3 THEN Rule(3)
                ELSE [Rule(0) EXCEPT !.needsToken = TRUE, !.rpm = 1, !.burst = 1, !.rpd = 3, !.fits = {0}]],
  Standings <- {Best, [Best EXCEPT !.rtt = 100, !.skills = {}]},
  Asks <- {Ask(s0, p1, 0, "valid", FALSE), Ask(s0, p1, 1, "none", FALSE), Ask(s0, p1, 1, "valid", TRUE),
           Ask(s3, p1, 0, "none", TRUE), Ask(s3, Unknown, 0, "text", FALSE), Ask(s3, Unknown, 0, "none", FALSE),
           Ask(s3, Nobody, Absent, "invalid", FALSE)}

(* Two requests in two ticks, and two in four; one after the other.         *)
Rates == INSTANCE TaskGates WITH
  Threads <- {t1}, Peers <- {p1}, Skills <- {s0}, Roots <- {}, Principals <- {}, Pasts <- {<<>>}, Standings <- {Best},
  Minute <- 2, Day <- 4, CacheTtl <- 2, MaxNow <- 6, MaxRequests <- 6, MaxEvents <- 0,
  SkillOf <- [s \in {s0} |-> [Rule(0) EXCEPT !.rpm = 1, !.burst = 1, !.rpd = 2]],
  Asks <- {Ask(s0, p1, 0, "valid", FALSE)}

Tokens == INSTANCE CapabilityTokens

Card(uses, bound) == INSTANCE RuntimeCard WITH
  Uses <- uses, MaxEdits <- bound, MaxNow <- MaxClock, Schedules <- [s \in {1} |-> 1],
  lists <- entries, overlapped <- overlaps

Lim(kind, permanent) == [kind |-> kind, code |-> kind, permanent |-> permanent]
Skill(id, modes, lims, examples, limit) == [id |-> id, modes |-> modes, lims |-> lims, examples |-> examples, limit |-> limit]
Catalogue == INSTANCE SkillCatalogue WITH
  Skills <- <<Skill(s0, {"text"}, {Lim("scale", TRUE)}, FALSE, 1),
              Skill(s2, {}, {Lim("scale", TRUE), Lim("access", FALSE)}, TRUE, NoLimit)>>,
  Modes <- {"text", "file"}, Lims <- {Lim("scale", TRUE), Lim("access", FALSE)},
  NoMode <- Absent, None <- Nobody, RelayMax <- 2, Sizes <- 1 .. 3,
  PageSizes <- {0, 1, 3}, DefaultSize <- 1, LargestSize <- 2, MaxPatches <- 2, MaxLists <- 1,
  admitted <- worth, lists <- readings

(* A part that is not looked at stands still.                               *)
NoCard ==
  /\ entries = 0 /\ limits = 0 /\ policy = 0 /\ shown = 0 /\ avail = 0 /\ clock = 0
  /\ edit = 0 /\ edits = 0 /\ overlaps = 0 /\ asked = 0 /\ beats = 0
NoSkills == override = 0 /\ probed = 0 /\ reader = 0 /\ worth = 0 /\ patches = 0 /\ readings = 0

OfCard == {"lists", "limits", "availability"}

Init ==
  /\ \/ part = "tiers" /\ Tiers!Init
     \/ part = "gates" /\ Gates!Init
     \/ part = "rates" /\ Rates!Init
     \/ part \in {"tokens", "skills"} \cup OfCard /\ Gates!Init /\ peers = [p \in {p1} |-> Best]
  /\ Tokens!Init
  /\ IF part \in OfCard THEN Card({}, 0)!Init ELSE NoCard
  /\ IF part = "skills" THEN Catalogue!Init ELSE NoSkills

TiersStep == part = "tiers" /\ Tiers!Next /\ UNCHANGED <<part, tokenVars, cardVars, skillVars>>
GatesStep ==
  /\ \/ part = "gates" /\ Gates!Next
     \/ part = "rates" /\ Rates!Next
  /\ UNCHANGED <<part, tokenVars, cardVars, skillVars>>
TokensStep == part = "tokens" /\ Tokens!Next /\ UNCHANGED <<part, gateVars, cardVars, skillVars>>
CardStep ==
  /\ \/ part = "lists" /\ Card({"list"}, MaxNew)!Next
     \/ part = "limits" /\ Card({"limits", "policy"}, MaxLimits)!Next
     \/ part = "availability" /\ Card({"availability"}, MaxAvail)!Next
  /\ UNCHANGED <<part, gateVars, tokenVars, skillVars>>
SkillsStep == part = "skills" /\ Catalogue!Next /\ UNCHANGED <<part, gateVars, tokenVars, cardVars>>

Next == TiersStep \/ GatesStep \/ TokensStep \/ CardStep \/ SkillsStep

Spec == Init /\ [][Next]_<<part, gateVars, tokenVars, cardVars, skillVars>>

(* Types of all parts.                                                      *)
TypeOK ==
  /\ part = "tiers" => Tiers!TypeOK
  /\ part = "gates" => Gates!TypeOK
  /\ part = "rates" => Rates!TypeOK
  /\ part = "tokens" => Tokens!TypeOK
  /\ part \in OfCard => Card({}, 0)!TypeOK
  /\ part = "skills" => Catalogue!TypeOK

(* A tier is lowered only by what a caller has earned, and no lower the     *)
(* deeper the chain of principals; the grade it rests on is recent.         *)
TiersAreEarned ==
  part = "tiers" => /\ Tiers!NoRecordsNoLowering /\ Tiers!LoweringIsEarned /\ Tiers!OnePartnerNeedsEight
                    /\ Tiers!DeeperIsNotLower /\ Tiers!GradeIsRecent

(* No more tasks than a limit allows get past it where requests do not      *)
(* overlap, a T3 skill is for the best peers, and records made one after    *)
(* the other are a chain.                                                   *)
GatesHold ==
  /\ part = "gates" => Gates!LimitsHold /\ Gates!T3IsForTheBest /\ Gates!RecordsAreAChain
  /\ part = "rates" => Rates!LimitsHold

(* A token that was revoked stays so, by the first reason given; the gates  *)
(* that read it agree, and no delegation is lost.                           *)
TokensStand ==
  part = "tokens" => /\ Tokens!RevokedForGood /\ Tokens!OneRevocationStands
                     /\ Tokens!GatesAgree /\ Tokens!DelegationsKept

(* The card and the catalogue tell what the requests made of them: lists,   *)
(* policies and availability while they change, skills page by page.        *)
CardIsTrue ==
  /\ part = "lists" => Card({}, 0)!ListsTellTheRequests
  /\ part = "limits" => Card({}, 0)!ShownIsInForce
  /\ part = "availability" => Card({}, 0)!HeartbeatLooksAhead
  /\ part = "skills" => Catalogue!PagesAreTheList /\ Catalogue!AdmittedStaysWorthy /\ Catalogue!FoundIsSupported
=============================================================================
