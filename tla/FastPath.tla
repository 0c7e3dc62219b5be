------------------------------- MODULE FastPath -------------------------------
(* One FastPathProcessor (src/fast_path.cpp) with its ConnectionTracker      *)
(* (src/connection_tracker.cpp), the rules of the shared RuleManager that    *)
(* other threads change meanwhile, and the steady clock.  Only the fast      *)
(* path's own thread touches its tracker, so the work on a packet up to the  *)
(* first rule lookup is one action; each of the four lookups of shouldBlock  *)
(* takes its own lock and is an action of its own.                           *)
EXTENDS Naturals, FiniteSets

CONSTANTS
    Tuple,           (* five-tuples: records with src, sport, dport, proto       *)
    Payload,         (* payloads: records with kind and host, see NoPayload      *)
    FlagSets,        (* sets of TCP flags a packet may carry                     *)
    AppOf,           (* sniToAppType                                             *)
    Rule,            (* rules that may be set: <<table, value>>                  *)
    MaxConnections,  (* max_connections_                                         *)
    Timeout,         (* idle time after which cleanupStale removes a connection  *)
    MaxPackets,      (* bound: packets processed                                 *)
    MaxChanges,      (* bound: rule changes                                      *)
    MaxTime          (* bound: the clock                                         *)

ASSUME FastPathAssumption ==
    /\ MaxConnections \in Nat \ {0}
    /\ Timeout \in Nat
    /\ MaxPackets \in Nat /\ MaxChanges \in Nat /\ MaxTime \in Nat
    /\ IsFiniteSet(Tuple)

State == {"NEW", "ESTABLISHED", "CLASSIFIED", "BLOCKED", "CLOSED"}
Tables == {"ip", "port", "app", "domain"}
NoPayload == [kind |-> "none", host |-> ""]

(* Apps a packet can be classified as, and the names found with them. *)
Host == {p.host : p \in Payload} \cup {""}
App == {AppOf[h] : h \in Host} \cup {"UNKNOWN", "HTTP", "HTTPS", "DNS"}

VARIABLES
    table,      (* five-tuples in connections_                                *)
    conn,       (* their Connection; a fresh one for the others               *)
    rules,      (* the rules in force                                         *)
    pc,         (* "idle", or the table shouldBlock reads next                *)
    job,        (* five-tuple of the packet at hand                           *)
    verdict,    (* the action of the last packet                              *)
    now,        (* steady_clock                                               *)
    packets, changes,  (* counted against their bounds                        *)
    standing,   (* history: rules in force during the whole of this check     *)
    lastPacket, (* history: when the last packet of each tracked flow came    *)
    blockedBy,  (* history: rules that blocked each flow since its entry was
                   created                                                    *)
    closed      (* history: flows with a closing packet since then            *)

vars == <<table, conn, rules, pc, job, verdict, now, packets, changes, standing,
          lastPacket, blockedBy, closed>>

Connection == [state : State, app : App, sni : Host, lastSeen : 0..MaxTime,
               syn : BOOLEAN, synAck : BOOLEAN, fin : BOOLEAN]

Fresh == [state |-> "NEW", app |-> "UNKNOWN", sni |-> "", lastSeen |-> 0,
          syn |-> FALSE, synAck |-> FALSE, fin |-> FALSE]

TypeOK ==
    /\ table \subseteq Tuple /\ Cardinality(table) <= MaxConnections
    /\ conn \in [Tuple -> Connection]
    /\ \A t \in Tuple \ table : conn[t] = Fresh
    /\ rules \subseteq Rule
    /\ pc \in Tables \cup {"idle"}
    /\ job \in Tuple
    /\ pc # "idle" => job \in table
    /\ verdict \in {"NONE", "FORWARD", "DROP"}
    /\ now \in 0..MaxTime
    /\ packets \in 0..MaxPackets /\ changes \in 0..MaxChanges
    /\ standing \subseteq Rule
    /\ lastPacket \in [Tuple -> 0..MaxTime]
    /\ blockedBy \in [Tuple -> SUBSET Rule]
    /\ closed \subseteq Tuple

Init ==
    /\ table = {} /\ conn = [t \in Tuple |-> Fresh]
    /\ rules \in SUBSET Rule
    /\ pc = "idle" /\ verdict = "NONE"
    /\ job \in Tuple
    /\ now = 0 /\ packets = 0 /\ changes = 0
    /\ standing = {}
    /\ lastPacket = [t \in Tuple |-> 0]
    /\ blockedBy = [t \in Tuple |-> {}]
    /\ closed = {}

-----------------------------------------------------------------------------
(* updateTCPState; fin_seen and the handshake flags are never reset. *)
Closing(c, flags) ==
    "RST" \in flags \/ ("ACK" \in flags /\ (c.fin \/ "FIN" \in flags))

UpdateTCPState(c, flags) ==
    LET syn == c.syn \/ ("SYN" \in flags /\ "ACK" \notin flags)
        synAck == c.synAck \/ {"SYN", "ACK"} \subseteq flags
        opened == c.state = "NEW" /\ syn /\ synAck /\ "ACK" \in flags
    IN [c EXCEPT !.syn = syn, !.synAck = synAck,
                 !.fin = c.fin \/ "FIN" \in flags,
                 !.state = IF Closing(c, flags) THEN "CLOSED"
                           ELSE IF opened THEN "ESTABLISHED" ELSE @]

(* What inspectPayload finds: at most one <<app, name>>.  A ClientHello is   *)
(* recognised on any port, a Host header on port 80, a query on port 53; the *)
(* port decides when nothing is found.                                       *)
Findings(t, payload) ==
    CASE payload.kind = "none" -> {}
      [] payload.kind = "tls" -> {<<AppOf[payload.host], payload.host>>}
      [] payload.kind = "http" /\ t.dport = "80" -> {<<AppOf[payload.host], payload.host>>}
      [] payload.kind = "dns" /\ "53" \in {t.dport, t.sport} -> {<<"DNS", payload.host>>}
      [] OTHER -> {f \in {<<"HTTP", "">>, <<"HTTPS", "">>} :
                       \/ t.dport = "80" /\ f[1] = "HTTP"
                       \/ t.dport = "443" /\ f[1] = "HTTPS"}

(* Mutant of Inspect: a classified connection is inspected again. *)
InspectAlways(c, t, payload) ==
    LET found == Findings(t, payload) IN
    IF found = {} THEN c
    ELSE LET f == CHOOSE f \in found : TRUE
         IN [c EXCEPT !.app = f[1], !.sni = f[2], !.state = "CLASSIFIED"]

(* inspectPayload and classifyConnection *)
Inspect(c, t, payload) ==
    LET found == Findings(t, payload) IN
    IF c.state = "CLASSIFIED" \/ found = {} THEN c
    ELSE LET f == CHOOSE f \in found : TRUE
         IN [c EXCEPT !.app = f[1], !.sni = f[2], !.state = "CLASSIFIED"]

(* Mutant of Oldest: the comparison the wrong way round. *)
Newest == {t \in table : \A s \in table : conn[t].lastSeen >= conn[s].lastSeen}

(* evictOldest: one of the connections seen least recently; iteration order  *)
(* decides between equals.                                                   *)
Oldest == {t \in table : \A s \in table : conn[t].lastSeen <= conn[s].lastSeen}

(* Mutant of Evicted: the table grows without limit. *)
EvictedNever(t) == {{}}

(* The table entries evicted to make room for t: none or one. *)
Evicted(t) ==
    IF t \in table \/ Cardinality(table) < MaxConnections THEN {{}}
    ELSE {{o} : o \in Oldest}

-----------------------------------------------------------------------------
(* run and processPacket up to checkRules: getOrCreateConnection,            *)
(* updateConnection, updateTCPState, the BLOCKED test and inspectPayload.    *)
Receive(t, flags, payload) ==
    /\ pc = "idle" /\ packets < MaxPackets
    /\ flags = {} \/ t.proto = "tcp"
    /\ \E gone \in Evicted(t) :
         LET c == [conn[t] EXCEPT !.lastSeen = now]
             c1 == IF t.proto = "tcp" THEN UpdateTCPState(c, flags) ELSE c
             drop == c1.state = "BLOCKED"
         IN /\ table' = (table \ gone) \cup {t}
            /\ conn' = [s \in Tuple |-> IF s \in gone THEN Fresh
                                        ELSE IF s # t THEN conn[s]
                                        ELSE IF drop THEN c1 ELSE Inspect(c1, t, payload)]
            /\ pc' = IF drop THEN "idle" ELSE "ip"
            /\ verdict' = IF drop THEN "DROP" ELSE "NONE"
            /\ blockedBy' = [s \in Tuple |-> IF s \in gone THEN {} ELSE blockedBy[s]]
            /\ lastPacket' = [s \in Tuple |-> IF s \in gone THEN 0
                                              ELSE IF s = t THEN now ELSE lastPacket[s]]
            /\ closed' = (closed \ gone) \cup (IF c1.state = "CLOSED" THEN {t} ELSE {})
    /\ job' = t
    /\ packets' = packets + 1
    /\ standing' = IF pc' = "ip" THEN rules ELSE {}
    /\ UNCHANGED <<rules, now, changes>>

(* What shouldBlock looks up; an empty name is not looked up. *)
Keys == LET c == conn[job] IN
    {<<"ip", job.src>>, <<"port", job.dport>>, <<"app", c.app>>}
        \cup {<<"domain", h>> : h \in {c.sni} \ {""}}

Hits == {r \in Keys \cap rules : r[1] = pc}

(* Mutant of NextTable: the port table is not read. *)
NextTableNoPort == [ip |-> "app", port |-> "app", app |-> "domain", domain |-> "idle"]

NextTable == [ip |-> "port", port |-> "app", app |-> "domain", domain |-> "idle"]

(* Mutant of LookupHits: the packet is dropped, the connection not marked. *)
LookupHitsNoMark ==
    /\ pc # "idle" /\ Hits # {}
    /\ verdict' = "DROP"
    /\ pc' = "idle"
    /\ blockedBy' = [blockedBy EXCEPT ![job] = @ \cup Hits]
    /\ standing' = {}
    /\ UNCHANGED <<table, conn, rules, job, now, packets, changes, lastPacket, closed>>

(* A lookup that hits: blockConnection and DROP. *)
LookupHits ==
    /\ pc # "idle" /\ Hits # {}
    /\ conn' = [conn EXCEPT ![job].state = "BLOCKED"]
    /\ verdict' = "DROP"
    /\ pc' = "idle"
    /\ blockedBy' = [blockedBy EXCEPT ![job] = @ \cup Hits]
    /\ standing' = {}
    /\ UNCHANGED <<table, rules, job, now, packets, changes, lastPacket, closed>>

(* A lookup that misses: on to the next table, FORWARD after the last. *)
LookupMisses ==
    /\ pc # "idle" /\ Hits = {}
    /\ pc' = NextTable[pc]
    /\ verdict' = IF pc = "domain" THEN "FORWARD" ELSE "NONE"
    /\ standing' = IF pc = "domain" THEN {} ELSE standing
    /\ UNCHANGED <<table, conn, rules, job, now, packets, changes, lastPacket, blockedBy, closed>>

(* No packet for 100 ms: cleanupStale. *)
CleanupStale ==
    LET gone == {t \in table : now - conn[t].lastSeen > Timeout \/ conn[t].state = "CLOSED"}
    IN /\ pc = "idle" /\ gone # {}
       /\ table' = table \ gone
       /\ conn' = [t \in Tuple |-> IF t \in gone THEN Fresh ELSE conn[t]]
       /\ blockedBy' = [t \in Tuple |-> IF t \in gone THEN {} ELSE blockedBy[t]]
       /\ lastPacket' = [t \in Tuple |-> IF t \in gone THEN 0 ELSE lastPacket[t]]
       /\ closed' = closed \ gone
       /\ UNCHANGED <<rules, pc, job, verdict, now, packets, changes, standing>>

(* Another thread sets or removes a rule. *)
ChangeRule(r) ==
    /\ changes < MaxChanges
    /\ changes' = changes + 1
    /\ \/ r \notin rules /\ rules' = rules \cup {r} /\ UNCHANGED standing
       \/ r \in rules /\ rules' = rules \ {r} /\ standing' = standing \ {r}
    /\ UNCHANGED <<table, conn, pc, job, verdict, now, packets, lastPacket, blockedBy, closed>>

Tick ==
    /\ now < MaxTime
    /\ now' = now + 1
    /\ UNCHANGED <<table, conn, rules, pc, job, verdict, packets, changes, standing,
                   lastPacket, blockedBy, closed>>

Next ==
    \/ \E t \in Tuple, flags \in FlagSets \cup {{}}, payload \in Payload \cup {NoPayload} :
           Receive(t, flags, payload)
    \/ LookupHits \/ LookupMisses
    \/ CleanupStale
    \/ \E r \in Rule : ChangeRule(r)
    \/ Tick

Spec == Init /\ [][Next]_vars

-----------------------------------------------------------------------------
(* processPacket decides to forward the packet at hand. *)
Forwards == pc = "domain" /\ verdict' = "FORWARD"

(* A rule in force from a packet's arrival to its verdict is enforced on it, *)
(* whatever other rules come and go between the four lookups.                *)
StandingRuleEnforced == [][Forwards => standing \cap Keys = {}]_vars

(* A blocked connection stays blocked when its rule is removed, until a      *)
(* packet closes it or its entry goes (fast_path.cpp:96-99).                 *)
BlockedUntilClosed ==
    [][Forwards /\ job \notin closed => blockedBy[job] = {}]_vars

(* An entry is removed for one of three reasons: it is closed, its flow has  *)
(* been silent for longer than the timeout, or the table is full and no      *)
(* other flow has been silent for longer (connection_tracker.cpp:97-162).    *)
RemovalJustified ==
    [][\A t \in table \ table' :
          \/ conn[t].state = "CLOSED" /\ pc = "idle"
          \/ now - lastPacket[t] > Timeout
          \/ /\ Cardinality(table) = MaxConnections
             /\ \A s \in table : lastPacket[t] <= lastPacket[s]]_vars

(* A classification is kept until a packet closes the connection: later      *)
(* payloads change neither the application nor the name the rules see.       *)
ClassificationStable ==
    [][\A t \in table \cap table' :
          conn[t].sni # "" /\ t \notin closed'
              => conn'[t].app = conn[t].app /\ conn'[t].sni = conn[t].sni]_vars

(* "If connection is already blocked, drop immediately" (fast_path.cpp:96):  *)
(* no packet of a flow that a rule blocked is forwarded while that rule      *)
(* stands and the entry lives.                                               *)
BlockedFlowStaysDropped == [][Forwards => blockedBy[job] \cap standing = {}]_vars
=============================================================================
