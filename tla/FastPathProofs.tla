---------------------------- MODULE FastPathProofs ----------------------------
(* What holds of a fast path for any table size, timeout, rules and traffic: *)
(* its types, that a rule standing during a whole check is enforced, that a  *)
(* blocked connection stays blocked until a packet closes it, that a         *)
(* classification is kept as long, and which entries may be removed.         *)
EXTENDS FastPath, FiniteSetTheorems, TLAPS

(* updateTCPState returns a connection, and leaves BLOCKED only by closing.  *)
LEMMA UpdateTCPStateType ==
    ASSUME NEW c \in Connection, NEW flags
    PROVE  /\ UpdateTCPState(c, flags) \in Connection
           /\ c.state = "BLOCKED" => UpdateTCPState(c, flags).state \in {"BLOCKED", "CLOSED"}
  BY DEF UpdateTCPState, Connection, State, Closing

LEMMA UpdateTCPStateKeeps ==
    ASSUME NEW c \in Connection, NEW flags, NEW u, u = UpdateTCPState(c, flags)
    PROVE  /\ u.lastSeen = c.lastSeen /\ u.app = c.app /\ u.sni = c.sni
           /\ c.state \in {"CLASSIFIED", "BLOCKED"} => u.state \in {c.state, "CLOSED"}
  BY DEF UpdateTCPState, Connection, State, Closing

LEMMA FindingsType ==
    ASSUME NEW t \in Tuple, NEW payload \in Payload \cup {NoPayload}
    PROVE  Findings(t, payload) \subseteq App \X Host
<1>1. CASE payload.kind = "none"
  BY <1>1 DEF Findings
<1>2. CASE payload.kind # "none"
  <2>0. NoPayload.kind = "none"
    BY DEF NoPayload
  <2>1. payload \in Payload
    BY <1>2, <2>0
  <2>2. payload.host \in Host /\ "" \in Host /\ AppOf[payload.host] \in App
    BY <2>1 DEF Host, App
  <2>3. {"UNKNOWN", "HTTP", "HTTPS", "DNS"} \subseteq App
    BY DEF App
  <2>4. {<<AppOf[payload.host], payload.host>>, <<"DNS", payload.host>>,
         <<"HTTP", "">>, <<"HTTPS", "">>} \subseteq App \X Host
    <3>1. /\ <<AppOf[payload.host], payload.host>> \in App \X Host
          /\ <<"DNS", payload.host>> \in App \X Host
      BY <2>2, <2>3
    <3>2. <<"HTTP", "">> \in App \X Host /\ <<"HTTPS", "">> \in App \X Host
      BY <2>2, <2>3
    <3> QED
      BY <3>1, <3>2
  <2>5. Findings(t, payload) \subseteq {<<AppOf[payload.host], payload.host>>,
           <<"DNS", payload.host>>, <<"HTTP", "">>, <<"HTTPS", "">>}
    <3>1. CASE payload.kind = "tls"
      BY <3>1 DEF Findings
    <3>2. CASE payload.kind = "http" /\ t.dport = "80"
      BY <3>2 DEF Findings
    <3>3. CASE payload.kind = "dns" /\ "53" \in {t.dport, t.sport}
      BY <3>3 DEF Findings
    <3>4. CASE /\ payload.kind # "tls" /\ ~(payload.kind = "http" /\ t.dport = "80")
               /\ ~(payload.kind = "dns" /\ "53" \in {t.dport, t.sport})
      BY <1>2, <3>4 DEF Findings
    <3> QED
      BY <3>1, <3>2, <3>3, <3>4
  <2> QED
    BY <2>4, <2>5
<1> QED
  BY <1>1, <1>2

LEMMA InspectType ==
    ASSUME NEW c \in Connection, NEW t \in Tuple, NEW payload \in Payload \cup {NoPayload}
    PROVE  Inspect(c, t, payload) \in Connection
<1> DEFINE found == Findings(t, payload)
           f == CHOOSE f \in found : TRUE
<1>1. CASE c.state = "CLASSIFIED" \/ found = {}
  BY <1>1 DEF Inspect
<1>2. CASE ~(c.state = "CLASSIFIED" \/ found = {})
  <2>1. f \in App \X Host
    BY <1>2, FindingsType
  <2>2. f[1] \in App /\ f[2] \in Host
    BY <2>1
  <2>3. Inspect(c, t, payload) = [c EXCEPT !.app = f[1], !.sni = f[2], !.state = "CLASSIFIED"]
    BY <1>2 DEF Inspect
  <2> HIDE DEF f
  <2> QED
    BY <2>2, <2>3 DEF Connection, State
<1> QED
  BY <1>1, <1>2

(* inspectPayload leaves a classified connection alone. *)
LEMMA InspectKeeps ==
    ASSUME NEW c \in Connection, NEW t, NEW payload, NEW i, i = Inspect(c, t, payload)
    PROVE  /\ i.lastSeen = c.lastSeen
           /\ c.state = "CLASSIFIED" => i = c
           /\ i = c \/ i.state = "CLASSIFIED"
<1> DEFINE found == Findings(t, payload)
           f == CHOOSE f \in found : TRUE
<1>1. CASE c.state = "CLASSIFIED" \/ found = {}
  BY <1>1 DEF Inspect
<1>2. CASE ~(c.state = "CLASSIFIED" \/ found = {})
  <2>1. i = [c EXCEPT !.app = f[1], !.sni = f[2], !.state = "CLASSIFIED"]
    BY <1>2 DEF Inspect
  <2> HIDE DEF f
  <2> QED
    BY <1>2, <2>1 DEF Connection
<1> QED
  BY <1>1, <1>2

(* Evicting before inserting keeps the table within its limit. *)
LEMMA TableBound ==
    ASSUME NEW S, IsFiniteSet(S), Cardinality(S) <= MaxConnections, NEW t, NEW gone,
           \/ gone = {} /\ (t \in S \/ Cardinality(S) < MaxConnections)
           \/ \E o \in S : gone = {o}
    PROVE  Cardinality((S \ gone) \cup {t}) <= MaxConnections
<1> USE FastPathAssumption DEF FastPathAssumption
<1>0. Cardinality(S) \in Nat
  BY FS_CardinalityType
<1>1. CASE gone = {} /\ t \in S
  <2>1. (S \ gone) \cup {t} = S
    BY <1>1
  <2> QED
    BY <2>1
<1>2. CASE gone = {} /\ t \notin S /\ Cardinality(S) < MaxConnections
  <2>1. (S \ gone) \cup {t} = S \cup {t} /\ Cardinality(S \cup {t}) = Cardinality(S) + 1
    BY <1>2, FS_AddElement
  <2> QED
    BY <1>0, <1>2, <2>1
<1>3. CASE \E o \in S : gone = {o}
  <2>1. PICK o \in S : gone = {o}
    BY <1>3
  <2>2. IsFiniteSet(S \ {o}) /\ Cardinality(S \ {o}) = Cardinality(S) - 1
    BY FS_RemoveElement
  <2>3. t \in S \ {o} => (S \ {o}) \cup {t} = S \ {o}
    OBVIOUS
  <2>4. Cardinality((S \ {o}) \cup {t}) <= Cardinality(S)
    <3>1. CASE t \in S \ {o}
      BY <1>0, <2>2, <2>3, <3>1
    <3>2. CASE t \notin S \ {o}
      <4>1. Cardinality((S \ {o}) \cup {t}) = Cardinality(S \ {o}) + 1
        BY <2>2, <3>2, FS_AddElement
      <4> QED
        BY <1>0, <2>2, <4>1
    <3> QED
      BY <3>1, <3>2
  <2>5. Cardinality((S \ gone) \cup {t}) <= Cardinality(S)
    BY <2>1, <2>4
  <2>6. IsFiniteSet((S \ gone) \cup {t})
    BY <2>1, <2>2, FS_AddElement
  <2>7. Cardinality((S \ gone) \cup {t}) \in Nat
    BY <2>6, FS_CardinalityType
  <2> QED
    BY <1>0, <2>5, <2>7
<1> QED
  BY <1>1, <1>2, <1>3

LEMMA FreshType == Fresh \in Connection
  BY FastPathAssumption DEF Fresh, Connection, State, App, Host, FastPathAssumption

(* What Receive does to the entry of its own flow: c1 is the entry after     *)
(* updateConnection and updateTCPState.                                      *)
LEMMA ReceiveOwn ==
    ASSUME TypeOK, NEW t \in Tuple, NEW flags, NEW payload \in Payload \cup {NoPayload},
           Receive(t, flags, payload)
    PROVE  \E gone \in Evicted(t), c1 \in Connection :
             /\ conn[t].state = "BLOCKED" => c1.state \in {"BLOCKED", "CLOSED"}
             /\ table' = (table \ gone) \cup {t} /\ t \notin gone
             /\ \A s \in gone : conn'[s] = Fresh /\ blockedBy'[s] = {} /\ lastPacket'[s] = 0
             /\ \A s \in Tuple \ (gone \cup {t}) : conn'[s] = conn[s] /\ lastPacket'[s] = lastPacket[s]
             /\ \A s \in Tuple \ gone : blockedBy'[s] = blockedBy[s]
             /\ lastPacket'[t] = now
             /\ conn' \in [Tuple -> Connection]
             /\ c1.state = "BLOCKED" => conn'[t].state = "BLOCKED" /\ pc' = "idle" /\ verdict' = "DROP"
             /\ c1.state # "BLOCKED" => pc' = "ip" /\ verdict' = "NONE"
             /\ closed' = (closed \ gone) \cup (IF c1.state = "CLOSED" THEN {t} ELSE {})
             /\ c1.app = conn[t].app /\ c1.sni = conn[t].sni
             /\ conn[t].state \in {"CLASSIFIED", "BLOCKED"} => c1.state \in {conn[t].state, "CLOSED"}
             /\ c1.state \in {"CLASSIFIED", "BLOCKED"} => conn'[t] = c1
             /\ conn'[t] = c1 \/ conn'[t].state = "CLASSIFIED"
             /\ conn'[t].lastSeen = now
<1> DEFINE c == [conn[t] EXCEPT !.lastSeen = now]
           c1 == IF t.proto = "tcp" THEN UpdateTCPState(c, flags) ELSE c
<1>1. PICK gone \in Evicted(t) :
        /\ table' = (table \ gone) \cup {t}
        /\ conn' = [s \in Tuple |-> IF s \in gone THEN Fresh
                                    ELSE IF s # t THEN conn[s]
                                    ELSE IF c1.state = "BLOCKED" THEN c1 ELSE Inspect(c1, t, payload)]
        /\ pc' = IF c1.state = "BLOCKED" THEN "idle" ELSE "ip"
        /\ verdict' = IF c1.state = "BLOCKED" THEN "DROP" ELSE "NONE"
        /\ blockedBy' = [s \in Tuple |-> IF s \in gone THEN {} ELSE blockedBy[s]]
        /\ lastPacket' = [s \in Tuple |-> IF s \in gone THEN 0
                                          ELSE IF s = t THEN now ELSE lastPacket[s]]
        /\ closed' = (closed \ gone) \cup (IF c1.state = "CLOSED" THEN {t} ELSE {})
  BY DEF Receive
<1>2. /\ c \in Connection /\ c.state = conn[t].state
      /\ c.app = conn[t].app /\ c.sni = conn[t].sni /\ c.lastSeen = now
  BY DEF TypeOK, Connection
<1>3. c1 \in Connection /\ (conn[t].state = "BLOCKED" => c1.state \in {"BLOCKED", "CLOSED"})
  <2> HIDE DEF c
  <2> QED
    BY <1>2, UpdateTCPStateType
<1>4. t \notin gone /\ gone \subseteq Tuple
  BY <1>1 DEF Evicted, Oldest, TypeOK
<1>8. /\ c1.app = conn[t].app /\ c1.sni = conn[t].sni /\ c1.lastSeen = now
      /\ conn[t].state \in {"CLASSIFIED", "BLOCKED"} => c1.state \in {conn[t].state, "CLOSED"}
  <2> HIDE DEF c
  <2> QED
    BY <1>2, UpdateTCPStateKeeps
<1> HIDE DEF c1
<1>5. Inspect(c1, t, payload) \in Connection
  BY <1>3, InspectType
<1>6. conn' \in [Tuple -> Connection]
  BY <1>1, <1>3, <1>5, FreshType DEF TypeOK
<1>7. /\ \A s \in gone : conn'[s] = Fresh /\ blockedBy'[s] = {} /\ lastPacket'[s] = 0
      /\ \A s \in Tuple \ (gone \cup {t}) : conn'[s] = conn[s] /\ lastPacket'[s] = lastPacket[s]
      /\ \A s \in Tuple \ gone : blockedBy'[s] = blockedBy[s]
      /\ lastPacket'[t] = now
      /\ c1.state = "BLOCKED" => conn'[t] = c1
  BY <1>1, <1>4
<1>9. /\ conn'[t] = IF c1.state = "BLOCKED" THEN c1 ELSE Inspect(c1, t, payload)
  BY <1>1, <1>4
<1>10. /\ c1.state \in {"CLASSIFIED", "BLOCKED"} => conn'[t] = c1
       /\ conn'[t] = c1 \/ conn'[t].state = "CLASSIFIED"
       /\ conn'[t].lastSeen = now
  <2>1. CASE c1.state = "BLOCKED"
    BY <1>8, <1>9, <2>1
  <2>2. CASE c1.state # "BLOCKED"
    BY <1>3, <1>8, <1>9, <2>2, InspectKeeps
  <2> QED
    BY <2>1, <2>2
<1> QED
  BY <1>1, <1>3, <1>4, <1>6, <1>7, <1>8, <1>10

LEMMA TypeStep == TypeOK /\ [Next]_vars => TypeOK'
<1> SUFFICES ASSUME TypeOK, [Next]_vars PROVE TypeOK'
  OBVIOUS
<1> USE FastPathAssumption DEF FastPathAssumption
<1>1. ASSUME NEW t \in Tuple, NEW flags, NEW payload \in Payload \cup {NoPayload},
             Receive(t, flags, payload)
      PROVE  TypeOK'
  <2>1. PICK gone \in Evicted(t), c1 \in Connection :
          /\ table' = (table \ gone) \cup {t} /\ t \notin gone
          /\ \A s \in gone : conn'[s] = Fresh /\ blockedBy'[s] = {} /\ lastPacket'[s] = 0
          /\ \A s \in Tuple \ (gone \cup {t}) : conn'[s] = conn[s] /\ lastPacket'[s] = lastPacket[s]
          /\ \A s \in Tuple \ gone : blockedBy'[s] = blockedBy[s]
          /\ lastPacket'[t] = now
          /\ conn' \in [Tuple -> Connection]
          /\ pc' \in {"idle", "ip"} /\ verdict' \in {"NONE", "DROP"}
          /\ closed' \subseteq closed \cup {t}
    BY <1>1, ReceiveOwn
  <2>2. table' \subseteq Tuple /\ \A s \in Tuple \ table' : conn'[s] = Fresh
    BY <2>1 DEF TypeOK
  <2>3. Cardinality(table') <= MaxConnections
    <3>1. IsFiniteSet(table)
      BY FS_Subset DEF TypeOK
    <3>2. \/ gone = {} /\ (t \in table \/ Cardinality(table) < MaxConnections)
          \/ \E o \in table : gone = {o}
      BY DEF Evicted, Oldest
    <3> QED
      BY <2>1, <3>1, <3>2, TableBound DEF TypeOK
  <2>4. blockedBy' \in [Tuple -> SUBSET Rule] /\ lastPacket' \in [Tuple -> 0..MaxTime]
    <3>1. DOMAIN blockedBy' = Tuple /\ DOMAIN lastPacket' = Tuple
      BY <1>1 DEF Receive
    <3>2. blockedBy' = [s \in Tuple |-> blockedBy'[s]] /\ lastPacket' = [s \in Tuple |-> lastPacket'[s]]
      BY <1>1 DEF Receive
    <3>3. \A s \in Tuple : blockedBy'[s] \in SUBSET Rule /\ lastPacket'[s] \in 0..MaxTime
      BY <2>1 DEF TypeOK
    <3> QED
      BY <3>2, <3>3
  <2>5. job' = t /\ packets' = packets + 1 /\ packets < MaxPackets /\ standing' \in {rules, {}}
        /\ UNCHANGED <<rules, now, changes>>
    BY <1>1 DEF Receive
  <2> QED
    BY <2>1, <2>2, <2>3, <2>4, <2>5 DEF TypeOK, Tables
<1>2. CASE LookupHits
  <2>1. conn' \in [Tuple -> Connection]
    BY <1>2 DEF LookupHits, TypeOK, Connection, State
  <2>2. blockedBy' \in [Tuple -> SUBSET Rule]
    BY <1>2 DEF LookupHits, TypeOK, Hits
  <2>3. \A t \in Tuple \ table : conn'[t] = conn[t]
    BY <1>2 DEF LookupHits, TypeOK
  <2> QED
    BY <1>2, <2>1, <2>2, <2>3 DEF LookupHits, TypeOK, Tables
<1>3. CASE LookupMisses
  BY <1>3 DEF LookupMisses, TypeOK, Tables, NextTable
<1>4. CASE CleanupStale
  <2>1. PICK gone \in SUBSET table :
          /\ table' = table \ gone
          /\ conn' = [t \in Tuple |-> IF t \in gone THEN Fresh ELSE conn[t]]
          /\ blockedBy' = [t \in Tuple |-> IF t \in gone THEN {} ELSE blockedBy[t]]
          /\ lastPacket' = [t \in Tuple |-> IF t \in gone THEN 0 ELSE lastPacket[t]]
          /\ closed' = closed \ gone
    BY <1>4 DEF CleanupStale
  <2>2. conn' \in [Tuple -> Connection]
    BY <2>1, FreshType DEF TypeOK
  <2>3. blockedBy' \in [Tuple -> SUBSET Rule] /\ lastPacket' \in [Tuple -> 0..MaxTime]
    BY <2>1 DEF TypeOK
  <2>4. table' \subseteq Tuple /\ Cardinality(table') <= MaxConnections
    <3>1. IsFiniteSet(table)
      BY FS_Subset DEF TypeOK
    <3>2. Cardinality(table') <= Cardinality(table) /\ Cardinality(table) \in Nat /\ Cardinality(table') \in Nat
      BY <2>1, <3>1, FS_Subset, FS_CardinalityType
    <3> QED
      BY <2>1, <3>2 DEF TypeOK
  <2>5. \A t \in Tuple \ table' : conn'[t] = Fresh
    BY <2>1 DEF TypeOK
  <2> QED
    BY <1>4, <2>1, <2>2, <2>3, <2>4, <2>5 DEF CleanupStale, TypeOK
<1>5. ASSUME NEW r \in Rule, ChangeRule(r) PROVE TypeOK'
  BY <1>5 DEF ChangeRule, TypeOK
<1>6. CASE Tick
  BY <1>6 DEF Tick, TypeOK
<1>7. CASE UNCHANGED vars
  BY <1>7 DEF vars, TypeOK
<1> QED
  BY <1>1, <1>2, <1>3, <1>4, <1>5, <1>6, <1>7 DEF Next

(* Every variable keeps its type; the table never exceeds max_connections_   *)
(* (connection_tracker.cpp:25-27).                                           *)
THEOREM TypeCorrect == Spec => []TypeOK
<1>1. Init => TypeOK
  <2> SUFFICES ASSUME Init PROVE TypeOK
    OBVIOUS
  <2>1. Cardinality(table) <= MaxConnections
    BY FS_EmptySet, FastPathAssumption DEF Init, FastPathAssumption
  <2> QED
    BY <2>1, FreshType, FastPathAssumption DEF Init, TypeOK, FastPathAssumption
<1> QED
  BY <1>1, TypeStep, PTL DEF Spec

-----------------------------------------------------------------------------
(* A check under way: no verdict yet, and no rule that stood since the       *)
(* packet came applies to it in a table already read.                        *)
Passed == [ip |-> {}, port |-> {"ip"}, app |-> {"ip", "port"}, domain |-> {"ip", "port", "app"}]

CheckInv ==
    pc # "idle" =>
        /\ verdict = "NONE"
        /\ standing \subseteq rules
        /\ \A r \in standing \cap Keys : r[1] \notin Passed[pc]

LEMMA CheckStep == TypeOK /\ CheckInv /\ [Next]_vars => CheckInv'
<1> SUFFICES ASSUME TypeOK, CheckInv, [Next]_vars, pc' # "idle"
             PROVE  /\ verdict' = "NONE"
                    /\ standing' \subseteq rules'
                    /\ \A r \in standing' \cap Keys' : r[1] \notin Passed[pc']
  BY DEF CheckInv
<1>1. ASSUME NEW t \in Tuple, NEW flags, NEW payload, Receive(t, flags, payload)
      PROVE  CheckInv'
  <2>1. pc' = "ip" /\ standing' = rules /\ rules' = rules /\ verdict' = "NONE"
    BY <1>1 DEF Receive
  <2> QED
    BY <2>1 DEF CheckInv, Passed
<1>2. CASE LookupMisses
  <2>1. pc \in {"ip", "port", "app"} /\ pc' = NextTable[pc] /\ verdict' = "NONE"
        /\ standing' = standing /\ rules' = rules /\ Keys' = Keys
    BY <1>2 DEF LookupMisses, TypeOK, Tables, NextTable, Keys
  <2>2. Passed[pc'] = Passed[pc] \cup {pc}
    BY <2>1 DEF Passed, NextTable
  <2>3. \A r \in Keys \cap rules : r[1] # pc
    BY <1>2 DEF LookupMisses, Hits
  <2> QED
    BY <2>1, <2>2, <2>3 DEF CheckInv
<1>3. ASSUME NEW r \in Rule, ChangeRule(r) PROVE CheckInv'
  <2>1. standing' \subseteq standing /\ standing' \subseteq rules' /\ Keys' = Keys /\ UNCHANGED <<pc, verdict>>
    BY <1>3 DEF ChangeRule, CheckInv, Keys
  <2> QED
    BY <2>1 DEF CheckInv
<1>4. CASE UNCHANGED <<pc, verdict, standing, rules, conn, job>>
  BY <1>4 DEF CheckInv, Keys
<1>5. CASE LookupHits \/ CleanupStale
  BY <1>5 DEF LookupHits, CleanupStale
<1> QED
  BY <1>1, <1>2, <1>3, <1>4, <1>5 DEF Next, Tick, vars, CheckInv

(* A packet is forwarded by a lookup that misses in the last table, and then *)
(* no rule that stood all along applies to it.                               *)
LEMMA EnforcedStep ==
    TypeOK /\ CheckInv /\ [Next]_vars => [Forwards => standing \cap Keys = {}]_vars
<1> SUFFICES ASSUME TypeOK, CheckInv, Next, Forwards PROVE standing \cap Keys = {}
  BY DEF vars
<1>1. pc = "domain" /\ verdict = "NONE" /\ verdict' = "FORWARD"
  BY DEF Forwards, CheckInv
<1>2. LookupMisses
  BY <1>1 DEF Next, Receive, LookupHits, CleanupStale, ChangeRule, Tick
<1>3. \A r \in Keys \cap rules : r[1] # "domain"
  BY <1>1, <1>2 DEF LookupMisses, Hits
<1>4. ASSUME NEW r \in Keys PROVE r[1] \in {"ip", "port", "app", "domain"}
  <2>1. CASE r \in {<<"domain", h>> : h \in {conn[job].sni} \ {""}}
    <3>1. PICK h : r = <<"domain", h>>
      BY <2>1
    <3> QED
      BY <3>1
  <2>2. CASE r \in {<<"ip", job.src>>, <<"port", job.dport>>, <<"app", conn[job].app>>}
    BY <2>2
  <2> QED
    BY <1>4, <2>1, <2>2 DEF Keys
<1>5. standing \subseteq rules /\ \A r \in standing \cap Keys : r[1] \notin {"ip", "port", "app"}
  BY <1>1 DEF CheckInv, Passed
<1> QED
  BY <1>3, <1>4, <1>5

(* Whatever rules come and go between the four lookups of shouldBlock, a     *)
(* rule in force from a packet's arrival to its verdict is enforced on it    *)
(* (rule_manager.cpp:209-240).                                               *)
THEOREM StandingRuleEnforcedCorrect == Spec => StandingRuleEnforced
<1>1. Init => CheckInv
  BY DEF Init, CheckInv
<1> QED
  BY <1>1, TypeCorrect, CheckStep, EnforcedStep, PTL DEF Spec, StandingRuleEnforced

-----------------------------------------------------------------------------
(* A flow that was blocked and not closed since is marked BLOCKED, and no    *)
(* packet of it is under check.                                              *)
BlockedInv ==
    /\ \A t \in Tuple \ closed : blockedBy[t] # {} => conn[t].state = "BLOCKED"
    /\ pc # "idle" /\ job \notin closed => blockedBy[job] = {}

LEMMA BlockedStep == TypeOK /\ BlockedInv /\ [Next]_vars => BlockedInv'
<1> SUFFICES ASSUME TypeOK, BlockedInv, [Next]_vars PROVE BlockedInv'
  OBVIOUS
<1>1. ASSUME NEW t \in Tuple, NEW flags, NEW payload \in Payload \cup {NoPayload},
             Receive(t, flags, payload)
      PROVE  BlockedInv'
  <2>1. PICK gone \in Evicted(t), c1 \in Connection :
          /\ conn[t].state = "BLOCKED" => c1.state \in {"BLOCKED", "CLOSED"}
          /\ t \notin gone
          /\ \A s \in gone : blockedBy'[s] = {}
          /\ \A s \in Tuple \ (gone \cup {t}) : conn'[s] = conn[s]
          /\ \A s \in Tuple \ gone : blockedBy'[s] = blockedBy[s]
          /\ c1.state = "BLOCKED" => conn'[t].state = "BLOCKED" /\ pc' = "idle"
          /\ closed' = (closed \ gone) \cup (IF c1.state = "CLOSED" THEN {t} ELSE {})
    BY <1>1, ReceiveOwn
  <2>2. t \notin closed' => t \notin closed /\ c1.state # "CLOSED"
    BY <2>1
  <2>3. t \notin closed' /\ blockedBy'[t] # {} => conn'[t].state = "BLOCKED" /\ pc' = "idle"
    BY <2>1, <2>2 DEF BlockedInv
  <2>4. \A s \in Tuple \ (closed' \cup {t}) : blockedBy'[s] # {} => conn'[s].state = "BLOCKED"
    BY <2>1 DEF BlockedInv
  <2>5. job' = t
    BY <1>1 DEF Receive
  <2> QED
    BY <2>3, <2>4, <2>5 DEF BlockedInv
<1>2. CASE LookupHits
  <2>1. conn'[job].state = "BLOCKED" /\ \A t \in Tuple \ {job} : conn'[t] = conn[t] /\ blockedBy'[t] = blockedBy[t]
    BY <1>2 DEF LookupHits, TypeOK, Connection
  <2> QED
    BY <1>2, <2>1 DEF LookupHits, BlockedInv
<1>3. CASE CleanupStale
  BY <1>3 DEF CleanupStale, BlockedInv, TypeOK
<1>4. CASE LookupMisses
  BY <1>4 DEF LookupMisses, BlockedInv
<1>5. CASE UNCHANGED <<pc, job, conn, blockedBy, closed>>
  BY <1>5 DEF BlockedInv
<1> QED
  BY <1>1, <1>2, <1>3, <1>4, <1>5 DEF Next, ChangeRule, Tick, vars

(* A blocked connection stays blocked, also when its rule is removed, until  *)
(* a packet closes it or its entry goes (fast_path.cpp:96-99).               *)
THEOREM BlockedUntilClosedCorrect == Spec => BlockedUntilClosed
<1>1. Init => BlockedInv
  BY DEF Init, BlockedInv
<1>2. BlockedInv => [Forwards /\ job \notin closed => blockedBy[job] = {}]_vars
  BY DEF BlockedInv, Forwards
<1> QED
  BY <1>1, <1>2, TypeCorrect, BlockedStep, PTL DEF Spec, BlockedUntilClosed

-----------------------------------------------------------------------------
(* The tracker remembers when a flow was seen last.                          *)
SeenInv == \A t \in table : conn[t].lastSeen = lastPacket[t]

LEMMA SeenStep == TypeOK /\ SeenInv /\ [Next]_vars => SeenInv'
<1> SUFFICES ASSUME TypeOK, SeenInv, [Next]_vars PROVE SeenInv'
  OBVIOUS
<1>1. ASSUME NEW t \in Tuple, NEW flags, NEW payload \in Payload \cup {NoPayload},
             Receive(t, flags, payload)
      PROVE  SeenInv'
  <2>1. PICK gone \in Evicted(t) :
          /\ table' = (table \ gone) \cup {t}
          /\ \A s \in Tuple \ (gone \cup {t}) : conn'[s] = conn[s] /\ lastPacket'[s] = lastPacket[s]
          /\ conn'[t].lastSeen = now /\ lastPacket'[t] = now
    BY <1>1, ReceiveOwn
  <2> QED
    BY <2>1 DEF SeenInv, TypeOK
<1>2. CASE LookupHits
  <2>1. \A t \in Tuple : conn'[t].lastSeen = conn[t].lastSeen
    BY <1>2 DEF LookupHits, TypeOK, Connection
  <2> QED
    BY <1>2, <2>1 DEF LookupHits, SeenInv, TypeOK
<1>3. CASE CleanupStale
  BY <1>3 DEF CleanupStale, SeenInv, TypeOK
<1>4. CASE UNCHANGED <<table, conn, lastPacket>>
  BY <1>4 DEF SeenInv
<1> QED
  BY <1>1, <1>2, <1>3, <1>4 DEF Next, LookupMisses, ChangeRule, Tick, vars

(* The reasons for which an entry may go. *)
Removable(t) ==
    \/ conn[t].state = "CLOSED" /\ pc = "idle"
    \/ now - lastPacket[t] > Timeout
    \/ /\ Cardinality(table) = MaxConnections
       /\ \A s \in table : lastPacket[t] <= lastPacket[s]

LEMMA RemovalStep == TypeOK /\ SeenInv /\ [Next]_vars => \A t \in table \ table' : Removable(t)
<1> SUFFICES ASSUME TypeOK, SeenInv, [Next]_vars, NEW o \in table, o \notin table' PROVE Removable(o)
  OBVIOUS
<1>1. ASSUME NEW t \in Tuple, NEW flags, NEW payload \in Payload \cup {NoPayload},
             Receive(t, flags, payload)
      PROVE  Removable(o)
  <2>1. PICK gone \in Evicted(t) : table' = (table \ gone) \cup {t}
    BY <1>1, ReceiveOwn
  <2>2. o \in gone /\ ~(Cardinality(table) < MaxConnections) /\ o \in Oldest
    BY <2>1 DEF Evicted
  <2>3. Cardinality(table) = MaxConnections
    <3>1. IsFiniteSet(table)
      BY FS_Subset, FastPathAssumption DEF TypeOK, FastPathAssumption
    <3>2. Cardinality(table) \in Nat
      BY <3>1, FS_CardinalityType
    <3> QED
      BY <2>2, <3>2, FastPathAssumption DEF TypeOK, FastPathAssumption
  <2>4. \A s \in table : lastPacket[o] <= lastPacket[s]
    BY <2>2 DEF Oldest, SeenInv
  <2> QED
    BY <2>3, <2>4 DEF Removable
<1>2. CASE CleanupStale
  <2>1. pc = "idle" /\ (now - conn[o].lastSeen > Timeout \/ conn[o].state = "CLOSED")
    BY <1>2 DEF CleanupStale
  <2> QED
    BY <2>1 DEF Removable, SeenInv
<1>3. CASE UNCHANGED table
  BY <1>3
<1> QED
  BY <1>1, <1>2, <1>3 DEF Next, LookupHits, LookupMisses, ChangeRule, Tick, vars

(* An entry goes only when it is closed, when its flow was silent for longer *)
(* than the timeout, or when the table is full and no other flow was silent  *)
(* for longer (connection_tracker.cpp:97-162).                               *)
THEOREM RemovalJustifiedCorrect == Spec => RemovalJustified
<1>1. Init => SeenInv
  BY DEF Init, SeenInv
<1>2. TypeOK /\ SeenInv /\ [Next]_vars
      => [\A t \in table \ table' :
            \/ conn[t].state = "CLOSED" /\ pc = "idle"
            \/ now - lastPacket[t] > Timeout
            \/ /\ Cardinality(table) = MaxConnections
               /\ \A s \in table : lastPacket[t] <= lastPacket[s]]_vars
  BY RemovalStep DEF Removable
<1> QED
  BY <1>1, <1>2, TypeCorrect, SeenStep, PTL DEF Spec, RemovalJustified

-----------------------------------------------------------------------------
(* Until a packet closes it, a connection with a name is classified or       *)
(* blocked, and inspectPayload is not reached for it or leaves it alone.     *)
KnownInv == \A t \in Tuple \ closed : conn[t].sni # "" => conn[t].state \in {"CLASSIFIED", "BLOCKED"}

LEMMA FreshName == Fresh.sni = ""
  BY DEF Fresh

Kept(t) == conn'[t].app = conn[t].app /\ conn'[t].sni = conn[t].sni

LEMMA KnownStep ==
    TypeOK /\ KnownInv /\ [Next]_vars
    => KnownInv' /\ \A t \in table \cap table' : conn[t].sni # "" /\ t \notin closed' => Kept(t)
<1> SUFFICES ASSUME TypeOK, KnownInv, [Next]_vars
             PROVE  /\ KnownInv'
                    /\ \A t \in table \cap table' : conn[t].sni # "" /\ t \notin closed' => Kept(t)
  OBVIOUS
<1>0. table \subseteq Tuple
  BY DEF TypeOK
<1>1. ASSUME NEW t \in Tuple, NEW flags, NEW payload \in Payload \cup {NoPayload},
             Receive(t, flags, payload)
      PROVE  /\ KnownInv'
             /\ \A s \in table \cap table' : conn[s].sni # "" /\ s \notin closed' => Kept(s)
  <2>1. PICK gone \in Evicted(t), c1 \in Connection :
          /\ table' = (table \ gone) \cup {t} /\ t \notin gone
          /\ \A s \in gone : conn'[s] = Fresh
          /\ \A s \in Tuple \ (gone \cup {t}) : conn'[s] = conn[s]
          /\ closed' = (closed \ gone) \cup (IF c1.state = "CLOSED" THEN {t} ELSE {})
          /\ c1.app = conn[t].app /\ c1.sni = conn[t].sni
          /\ conn[t].state \in {"CLASSIFIED", "BLOCKED"} => c1.state \in {conn[t].state, "CLOSED"}
          /\ c1.state \in {"CLASSIFIED", "BLOCKED"} => conn'[t] = c1
          /\ conn'[t] = c1 \/ conn'[t].state = "CLASSIFIED"
    BY <1>1, ReceiveOwn
  <2>2. t \notin closed' => t \notin closed /\ c1.state # "CLOSED"
    BY <2>1
  <2>3. ASSUME t \notin closed', conn[t].sni # "" PROVE conn'[t] = c1 /\ c1.state \in {"CLASSIFIED", "BLOCKED"}
    <3>1. conn[t].state \in {"CLASSIFIED", "BLOCKED"}
      BY <2>2, <2>3 DEF KnownInv
    <3> QED
      BY <2>1, <2>2, <2>3, <3>1
  <2>4. t \notin closed' /\ conn'[t].sni # "" => conn'[t].state \in {"CLASSIFIED", "BLOCKED"}
    BY <2>1, <2>3
  <2>5. \A s \in gone : conn'[s].sni = ""
    BY <2>1, FreshName
  <2>6. \A s \in Tuple \ (gone \cup {t}) : s \notin closed' => s \notin closed /\ conn'[s] = conn[s]
    BY <2>1
  <2>7. KnownInv'
    BY <2>4, <2>5, <2>6 DEF KnownInv
  <2>8. \A s \in table \cap table' : s # t => conn'[s] = conn[s]
    BY <1>0, <2>1
  <2> QED
    BY <2>1, <2>3, <2>7, <2>8 DEF Kept
<1>2. CASE LookupHits
  <2>1. /\ conn'[job].state = "BLOCKED"
        /\ \A t \in Tuple : Kept(t)
        /\ \A t \in Tuple \ {job} : conn'[t] = conn[t]
    BY <1>2 DEF LookupHits, TypeOK, Connection, Kept
  <2> QED
    BY <1>0, <1>2, <2>1 DEF LookupHits, KnownInv
<1>3. CASE CleanupStale
  <2>1. PICK gone \in SUBSET table :
          /\ table' = table \ gone /\ closed' = closed \ gone
          /\ conn' = [t \in Tuple |-> IF t \in gone THEN Fresh ELSE conn[t]]
    BY <1>3 DEF CleanupStale
  <2> QED
    BY <1>0, <2>1, FreshName DEF KnownInv, Kept
<1>4. CASE UNCHANGED <<conn, closed>>
  BY <1>4 DEF KnownInv, Kept
<1> QED
  BY <1>1, <1>2, <1>3, <1>4 DEF Next, LookupMisses, ChangeRule, Tick, vars

(* A classification is kept until a packet closes the connection: later      *)
(* payloads change neither the application nor the name the rules see        *)
(* (connection_tracker.cpp:74-82, fast_path.cpp:104).                        *)
THEOREM ClassificationStableCorrect == Spec => ClassificationStable
<1>1. Init => KnownInv
  BY FreshName DEF Init, KnownInv
<1>2. TypeOK /\ KnownInv /\ [Next]_vars
      => [\A t \in table \cap table' :
            conn[t].sni # "" /\ t \notin closed'
                => conn'[t].app = conn[t].app /\ conn'[t].sni = conn[t].sni]_vars
  BY KnownStep DEF Kept
<1> QED
  BY <1>1, <1>2, TypeCorrect, KnownStep, PTL DEF Spec, ClassificationStable
=============================================================================
