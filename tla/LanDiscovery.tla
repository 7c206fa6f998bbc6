---------------------------- MODULE LanDiscovery ----------------------------
(* How a relay finds others on its network (acp_relay.py 1011-1318,         *)
(* 9008-9092): a thread that hears and repeats multicast announcements, and *)
(* GET /peers/discover, which probes the ports of the subnet from a pool of *)
(* threads and adds what the thread has heard.  Hosts and ports stand for   *)
(* addresses; a relay is at <<host, port>>.  The time unit is the longest   *)
(* wait of the thread for a packet, one second.                             *)
EXTENDS Integers, Sequences, FiniteSets

CONSTANTS
  Hosts,       \* machines of the subnet
  Ports,       \* 1 .. n: the ports that are probed, in the order of the list
  Me,          \* this relay's address
  Announcers,  \* relays elsewhere that announce themselves
  Tokens,      \* what they announce: a relay that restarts has another one
  Interval,    \* ANNOUNCE_INTERVAL
  Ttl,         \* PEER_TTL
  Never,
  MaxNow,      \* bound: the clock
  MaxPackets,  \* bound: packets of others
  MaxFlips,    \* bound: ports that open or close
  Requests     \* bound: whether GET /peers/discover is called, once

(* What this relay announces first and repeats, and what it announces once. *)
Placeholder == "placeholder"
Real == "real"
(* A packet that does not begin with the magic of the protocol.             *)
Foreign == "foreign"

Addrs == Hosts \X Ports
(* The hosts of the subnet without this machine.                            *)
ScanHosts == Hosts \ {Me[1]}

VARIABLES
  now,      \* the clock
  pc,       \* the thread: "off", "top", "wait" or "prune"
  t,        \* the time it read at the top of its loop
  last,     \* last_announce
  buffer,   \* packets its socket holds
  table,    \* _mdns_peers: address -> [token, seen], or Never
  told,     \* addresses of "discovered" events
  real,     \* the main thread has announced the real token
  open,     \* addresses where a relay answers HTTP
  scan,     \* "none", "probing", "merge" or "done"
  todo,     \* probes not made
  hits,     \* probes answered with a card
  found,    \* hosts of the response's "found"
  \* history
  heard,    \* when a packet of an address was last taken in
  skipped,  \* rounds in a row that an ignored packet ended
  up,       \* addresses that have answered ever since the scan began
  stayed,   \* addresses that have been listed ever since then
  packets, flips

mdnsVars == <<now, pc, t, last, buffer, table, told, heard, skipped>>
scanVars == <<scan, todo, hits, found>>
vars == <<mdnsVars, real, open, scanVars, up, stayed, packets, flips>>

Packets == [addr : Addrs, tok : Tokens \cup {Placeholder, Real, Foreign}]

Init ==
  /\ now = 0 /\ pc = "off" /\ t = 0 /\ last = Never /\ buffer = <<>>
  /\ table = [a \in Addrs |-> Never] /\ told = {} /\ real = FALSE
  /\ open \in SUBSET (ScanHosts \X Ports)
  /\ scan = "none" /\ todo = {} /\ hits = {} /\ found = {}
  /\ heard = [a \in Addrs |-> Never] /\ skipped = 0 /\ up = {} /\ stayed = {}
  /\ packets = 0 /\ flips = 0

Listed == {a \in Addrs : table[a] # Never}
HostsOf(as) == {a[1] : a \in as}

(* _mdns_start: the first announcement goes out before there is a socket to *)
(* hear it with.                                                            *)
MdnsStart ==
  /\ pc = "off" /\ pc' = "top"
  /\ UNCHANGED <<now, t, last, buffer, table, told, heard, skipped, real, open, scanVars, up, stayed, packets, flips>>

(* The main thread announces the token it will serve, once; a multicast is  *)
(* heard by its sender too.                                                 *)
AnnounceReal ==
  /\ pc # "off" /\ ~real /\ real' = TRUE
  /\ buffer' = Append(buffer, [addr |-> Me, tok |-> Real])
  /\ UNCHANGED <<now, pc, t, last, table, told, heard, skipped, open, scanVars, up, stayed, packets, flips>>

(* The top of the loop: the time is read, and the thread announces itself   *)
(* again, always with the token it was started with.                        *)
DueAgain == last = Never \/ now - last > Interval

Round ==
  /\ pc = "top" /\ pc' = "wait" /\ t' = now
  /\ last' = IF DueAgain THEN now ELSE last
  /\ buffer' = IF DueAgain THEN Append(buffer, [addr |-> Me, tok |-> Placeholder]) ELSE buffer
  /\ UNCHANGED <<now, table, told, heard, skipped, real, open, scanVars, up, stayed, packets, flips>>

(* What the thread does with a packet.  The time of the entry is the one of *)
(* the top of the loop.                                                     *)
Ignored(m) == m.tok \in {Foreign, Placeholder}
Noted_FirstSeen(a, tok) ==
  [table EXCEPT ![a] = [token |-> tok, seen |-> IF @ = Never THEN t ELSE @.seen]]
Noted(a, tok) == [table EXCEPT ![a] = [token |-> tok, seen |-> t]]
IsNew_AfterWrite(a) == Noted(a, Real)[a] = Never
IsNew(a) == table[a] = Never

Hear ==
  /\ pc = "wait" /\ buffer # <<>>
  /\ LET m == Head(buffer) IN
       /\ buffer' = Tail(buffer)
       /\ IF Ignored(m)
            THEN /\ pc' = "top" /\ skipped' = skipped + 1
                 /\ UNCHANGED <<table, told, heard>>
            ELSE /\ pc' = "prune" /\ skipped' = skipped
                 /\ table' = Noted(m.addr, m.tok)
                 /\ told' = IF IsNew(m.addr) THEN told \cup {m.addr} ELSE told
                 /\ heard' = [heard EXCEPT ![m.addr] = now]
  /\ UNCHANGED <<now, t, last, real, open, scanVars, up, stayed, packets, flips>>

(* The second is over and nothing came.                                     *)
Quiet ==
  /\ pc = "wait" /\ buffer = <<>> /\ now > t
  /\ pc' = "prune"
  /\ UNCHANGED <<now, t, last, buffer, table, told, heard, skipped, real, open, scanVars, up, stayed, packets, flips>>

(* Peers not heard from are forgotten.                                      *)
Stale_AtAnnounce(a) == table[a] # Never /\ last - table[a].seen > Ttl
Stale(a) == table[a] # Never /\ t - table[a].seen > Ttl

Prune ==
  /\ pc = "prune" /\ pc' = "top" /\ skipped' = 0
  /\ table' = [a \in Addrs |-> IF Stale(a) THEN Never ELSE table[a]]
  /\ told' = told \ {a \in Addrs : Stale(a)}
  /\ stayed' = stayed \ {a \in Addrs : Stale(a)}
  /\ UNCHANGED <<now, t, last, buffer, heard, real, open, scanVars, up, packets, flips>>

(* Time passes while the thread waits; the rest of its round takes none.    *)
Tick ==
  /\ pc = "wait" /\ now = t /\ now < MaxNow /\ now' = now + 1
  /\ UNCHANGED <<pc, t, last, buffer, table, told, heard, skipped, real, open, scanVars, up, stayed, packets, flips>>

(* Packets of others: a relay announces itself, or something else speaks.   *)
Announce ==
  /\ pc # "off" /\ packets < MaxPackets /\ packets' = packets + 1
  /\ \/ \E a \in Announcers, tok \in Tokens : buffer' = Append(buffer, [addr |-> a, tok |-> tok])
     \/ buffer' = Append(buffer, [addr |-> Me, tok |-> Foreign])
  /\ UNCHANGED <<now, pc, t, last, table, told, heard, skipped, real, open, scanVars, up, stayed, flips>>

(* A relay's HTTP port opens or closes.                                     *)
Flip ==
  /\ flips < MaxFlips /\ flips' = flips + 1
  /\ \E a \in ScanHosts \X Ports :
       open' = IF a \in open THEN open \ {a} ELSE open \cup {a}
  /\ up' = up \cap open'
  /\ UNCHANGED <<mdnsVars, real, scanVars, stayed, packets>>

(* GET /peers/discover: the probes of the scan are those of every port of   *)
(* its hosts, or none when the own address cannot be told.                  *)
Discover ==
  /\ Requests /\ scan = "none" /\ scan' = "probing"
  /\ todo' \in {{}, ScanHosts \X Ports}
  /\ up' = open \cap todo' /\ stayed' = Listed
  /\ UNCHANGED <<mdnsVars, real, open, hits, found, packets, flips>>

(* _check_host_port in one of the pool's threads: a card comes back or not. *)
Probe(a) ==
  /\ scan = "probing" /\ a \in todo /\ todo' = todo \ {a}
  /\ hits' = IF a \in open THEN hits \cup {a} ELSE hits
  /\ UNCHANGED <<mdnsVars, real, open, scan, found, up, stayed, packets, flips>>

(* The results come in the order of the tasks; of each host the first port  *)
(* that answered is kept.                                                   *)
Deduped_FirstPort(as) == {a \in as : a[2] = 1}
Deduped(as) == {a \in as : \A b \in as : b[1] = a[1] => b[2] >= a[2]}

Scanned ==
  /\ scan = "probing" /\ todo = {} /\ scan' = "merge"
  /\ found' = Deduped(hits)
  /\ UNCHANGED <<mdnsVars, real, open, todo, hits, up, stayed, packets, flips>>

(* The addresses heard of are added for hosts the scan did not find.        *)
Added_IfNothingFound(as) == {a \in as : found = {}}
Added(as) == {a \in as : a[1] \notin HostsOf(found)}

Merge ==
  /\ scan = "merge" /\ scan' = "done"
  /\ found' = found \cup Added(Listed)
  /\ UNCHANGED <<mdnsVars, real, open, todo, hits, up, stayed, packets, flips>>

Thread == Round \/ Hear \/ Quiet \/ Prune \/ Tick

Next ==
  \/ MdnsStart \/ AnnounceReal \/ Thread \/ Announce \/ Flip
  \/ Discover \/ (\E a \in Addrs : Probe(a)) \/ Scanned \/ Merge

Spec == Init /\ [][Next]_vars

TypeOK ==
  /\ now \in 0..MaxNow /\ t \in 0..now /\ last \in {Never} \cup 0..now
  /\ pc \in {"off", "top", "wait", "prune"} /\ real \in BOOLEAN
  /\ \A i \in DOMAIN buffer : buffer[i] \in Packets
  /\ \A a \in Addrs :
       /\ table[a] = Never \/ (table[a].token \in Tokens \cup {Real} /\ table[a].seen \in 0..now)
       /\ heard[a] \in {Never} \cup 0..now
  /\ told \subseteq Addrs /\ open \subseteq Addrs /\ todo \subseteq Addrs /\ hits \subseteq Addrs
  /\ scan \in {"none", "probing", "merge", "done"} /\ found \subseteq Addrs /\ up \cup stayed \subseteq Addrs

(* A listed relay was heard within the time to live and the round that is   *)
(* not over, and one round more for each packet that was ignored: those     *)
(* `continue` past the pruning (1084-1090, 1115).                           *)
ListedIsFresh == \A a \in Listed : now - table[a].seen <= Ttl + 2 + skipped

(* A relay heard of less than the time to live ago is listed: no pruning    *)
(* takes one that keeps announcing itself (1104, 1117).                     *)
HeardIsListed == \A a \in Addrs : heard[a] # Never /\ now - heard[a] < Ttl => a \in Listed

(* Clients have been told of every relay listed, since it was last listed   *)
(* (1096, 1107).                                                            *)
ListedWasTold == Listed \subseteq told

(* A host that answered on some probed port, or was listed, from the        *)
(* beginning of the request on is in the response, however the probes and   *)
(* the thread interleave (1290-1308, 9065-9076).                            *)
SteadyIsFound == scan = "done" => HostsOf(up \cup stayed) \subseteq HostsOf(found)
=============================================================================
