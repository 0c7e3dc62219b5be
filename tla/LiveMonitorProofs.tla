--------------------------- MODULE LiveMonitorProofs ---------------------------
(* The live monitor for any packets, rules and limits: its types, one case   *)
(* per offender, one alert per scanner, and where decisions go.              *)
EXTENDS LiveMonitor, FiniteSetTheorems, TLAPS

-----------------------------------------------------------------------------
(* Types                                                                     *)

(* Only an analysis has a transaction in its hand, and elements are moved    *)
(* when there is no room for it.                                             *)
InHand ==
    /\ pending # {} => pc \in {"src", "dst", "domain"}
    /\ growing => Len(transactions) = capacity

LEMMA Addresses ==
    ASSUME NEW p \in Packet
    PROVE  /\ p.src \in IP /\ p.dst \in IP /\ p.dport \in Port
           /\ p.domain # "" => p.domain \in Domain
  BY DEF IP, Port, Domain

LEMMA PutOne ==
    ASSUME NEW S, NEW q \in Seq(S), NEW e \in S
    PROVE  /\ Append(q, e) \in Seq(S) /\ Len(Append(q, e)) = Len(q) + 1 /\ Len(q) \in Nat
           /\ DOMAIN q = 1..Len(q) /\ DOMAIN Append(q, e) = 1..(Len(q) + 1)
           /\ (\A i \in 1..Len(q) : Append(q, e)[i] = q[i]) /\ Append(q, e)[Len(q) + 1] = e
  OBVIOUS

LEMMA Joined ==
    ASSUME NEW S, NEW q \in Seq(S), NEW r \in Seq(S)
    PROVE  /\ q \o r \in Seq(S) /\ Len(q) \in Nat /\ Len(r) \in Nat
           /\ DOMAIN q = 1..Len(q) /\ DOMAIN r = 1..Len(r) /\ DOMAIN (q \o r) = 1..(Len(q) + Len(r))
           /\ \A i \in 1..Len(q) : (q \o r)[i] = q[i]
           /\ \A i \in 1..Len(r) : (q \o r)[Len(q) + i] = r[i]
  OBVIOUS

LEMMA Elements ==
    ASSUME NEW S, NEW q \in Seq(S)
    PROVE  Len(q) \in Nat /\ DOMAIN q = 1..Len(q) /\ \A i \in 1..Len(q) : q[i] \in S
  OBVIOUS

LEMMA AsSequence ==
    ASSUME NEW S, NEW n \in Nat, NEW q \in [1..n -> S]
    PROVE  q \in Seq(S)
  OBVIOUS

LEMMA Bounds ==
    /\ Packet # {} /\ MaxPackets \in Nat /\ MaxTime \in Nat /\ MaxRequests \in Nat
    /\ ScanLimit \in Nat \ {0}
  BY LiveAssumption DEF LiveAssumption

LEMMA RuleAlertsType ==
    ASSUME CaptureTypeOK
    PROVE  /\ RuleAlerts \in Seq(AnyAlert)
           /\ \A i \in DOMAIN RuleAlerts : RuleAlerts[i].type \notin {"Port Scan"} \cup Case
<1>1. pkt.src \in IP /\ pkt.dport \in Port
  BY Addresses DEF CaptureTypeOK
<1>2. PICK r : r = PortRules[pkt.dport]
  OBVIOUS
<1>3. Len(r) \in Nat /\ DOMAIN r = 1..Len(r) /\ \A i \in 1..Len(r) : r[i] \in RuleName
  BY <1>1, <1>2, LiveAssumption, Elements DEF LiveAssumption
<1>4. \A i \in 1..Len(r) : r[i] \notin {"Port Scan"} \cup Case
  BY <1>3, LiveAssumption DEF LiveAssumption
<1>5. RuleAlerts = [i \in 1..Len(r) |-> Alert(r[i], pkt.src, pkt.dport)]
  BY <1>2, <1>3 DEF RuleAlerts
<1>6. \A i \in 1..Len(r) : /\ Alert(r[i], pkt.src, pkt.dport) \in AnyAlert
                           /\ Alert(r[i], pkt.src, pkt.dport).type = r[i]
  BY <1>1, <1>3 DEF Alert, AnyAlert, AlertType
<1>7. RuleAlerts \in [1..Len(r) -> AnyAlert]
  BY <1>5, <1>6
<1>8. RuleAlerts \in Seq(AnyAlert)
  BY <1>3, <1>7, AsSequence
<1> QED
  BY <1>4, <1>5, <1>6, <1>8

LEMMA ShortSequences ==
    ASSUME NEW S, NEW e \in S
    PROVE  <<>> \in Seq(S) /\ <<e>> \in Seq(S)
  OBVIOUS

LEMMA PendingType ==
    ASSUME now \in 0..MaxTime, NEW reason \in Case, NEW target \in Target, NEW source \in IP
    PROVE  Pending(reason, target, source) \in Transaction
  BY DEF Pending, Transaction, Status

LEMMA OneOrNone ==
    ASSUME NEW x
    PROVE  Cardinality({x}) <= 1 /\ Cardinality({}) <= 1
<1>1. Cardinality({x}) = 1
  BY FS_Singleton
<1>2. Cardinality({}) = 0
  BY FS_EmptySet
<1> QED
  BY <1>1, <1>2

LEMMA Proceeding ==
    ASSUME pc \in {"packet", "src", "dst", "domain"}, Proceed
    PROVE  /\ pc = "packet" => pc' = "src" /\ handled' = handled
           /\ pc = "src" => pc' = "dst" /\ handled' = handled
           /\ pc = "dst" => pc' = "domain" /\ handled' = handled
           /\ pc = "domain" => pc' = "idle" /\ handled' = handled \cup {pkt}
  BY DEF Proceed, After

(* What addTransaction and the alert after it change. *)
LEMMA Adding ==
    ASSUME TypeOK, InHand, NEW t \in pending, Added(t)
    PROVE  /\ t \in Transaction /\ pc \in {"src", "dst", "domain"} /\ pending' = {}
           /\ CaptureTypeOK'
           /\ transactions' \in Seq(Transaction) /\ Len(transactions') = Len(transactions) + 1
           /\ UNCHANGED <<api, now, dead, alertedIPs, alertedDomains, pkt, scannedPorts, alertedScanners>>
<1>1. t \in Transaction /\ pc \in {"src", "dst", "domain"} /\ pkt \in Packet /\ alerts \in Seq(AnyAlert)
      /\ transactions \in Seq(Transaction) /\ handled \subseteq Packet
  BY DEF TypeOK, CaptureTypeOK, VectorTypeOK, InHand
<1>2. PICK d : d = IF pc = "domain" THEN t.target ELSE ""
  OBVIOUS
<1>3. t.reason \in AlertType /\ t.source \in IP /\ t.target \in Target
  BY <1>1 DEF Transaction, AlertType
<1>4. Alert(t.reason, t.source, d) \in AnyAlert
  BY <1>2, <1>3 DEF Alert, AnyAlert
<1>5. alerts' \in Seq(AnyAlert)
  BY <1>1, <1>2, <1>4, PutOne DEF Added
<1>6. pc' \in {"dst", "domain", "idle"} /\ handled' \subseteq Packet
  BY <1>1, Proceeding DEF Added
<1>7. transactions' \in Seq(Transaction) /\ Len(transactions') = Len(transactions) + 1
  BY <1>1, PutOne DEF Added
<1>8. CaptureTypeOK'
  BY <1>5, <1>6, OneOrNone DEF Added, TypeOK, CaptureTypeOK
<1> QED
  BY <1>1, <1>7, <1>8 DEF Added

LEMMA CaptureTypeStep == TypeOK /\ InHand /\ [Next]_vars => CaptureTypeOK'
<1> SUFFICES ASSUME TypeOK, InHand, [Next]_vars PROVE CaptureTypeOK'
  OBVIOUS
<1> USE DEF TypeOK, CaptureTypeOK
<1>1. ASSUME UNCHANGED capture PROVE CaptureTypeOK'
  BY <1>1 DEF capture
<1>2. ASSUME NEW p \in Packet, NextPacket(p) PROVE CaptureTypeOK'
  BY <1>2, Bounds DEF NextPacket
<1>3. CASE AnalyzePacket
  <2>1. pkt.src \in IP /\ pkt.dport \in Port /\ pc = "packet" /\ Proceed
    BY <1>3, Addresses DEF AnalyzePacket
  <2>2. pc' = "src" /\ handled' = handled
    BY <2>1, Proceeding
  <2>3. UNCHANGED <<pkt, alertedIPs, alertedDomains, pending, packets>>
    BY <1>3 DEF AnalyzePacket
  <2>4. CASE pkt \in Ignored
    BY <1>3, <2>2, <2>3, <2>4 DEF AnalyzePacket
  <2>5. CASE pkt \notin Ignored
    <3>1. PICK ports : ports = scannedPorts[pkt.src] \cup {pkt.dport}
      OBVIOUS
    <3>2. PICK scan : scan = IF Scans(ports) THEN <<Alert("Port Scan", pkt.src, "")>> ELSE <<>>
      OBVIOUS
    <3>3. /\ scannedPorts' = [scannedPorts EXCEPT ![pkt.src] = ports]
          /\ alerts' = alerts \o RuleAlerts \o scan
          /\ alertedScanners' \in {alertedScanners, alertedScanners \cup {pkt.src}}
      BY <1>3, <2>5, <3>1, <3>2 DEF AnalyzePacket
    <3>4. Alert("Port Scan", pkt.src, "") \in AnyAlert
      BY <2>1 DEF Alert, AnyAlert, AlertType
    <3>5. scan \in Seq(AnyAlert)
      BY <3>2, <3>4, ShortSequences
    <3>6. alerts' \in Seq(AnyAlert)
      BY <3>3, <3>5, RuleAlertsType, Joined
    <3>7. ports \in SUBSET Port
      BY <2>1, <3>1
    <3> QED
      BY <2>1, <2>2, <2>3, <3>3, <3>6, <3>7
  <2> QED
    BY <2>4, <2>5
<1>4. CASE AnalyzeIP
  <2>1. pkt[pc] \in IP /\ UNCHANGED <<pkt, scannedPorts, alertedScanners, alertedDomains, alerts, packets>>
    BY <1>4, Addresses DEF AnalyzeIP
  <2>2. CASE pkt[pc] \in BadIP \ alertedIPs
    <3>1. Pending("Malicious IP", pkt[pc], pkt[pc]) \in Transaction
      BY <2>1, PendingType DEF Case, Target
    <3>2. pending' = {Pending("Malicious IP", pkt[pc], pkt[pc])} /\ UNCHANGED <<pc, handled>>
          /\ alertedIPs' = alertedIPs \cup {pkt[pc]}
      BY <1>4, <2>2 DEF AnalyzeIP
    <3> QED
      BY <2>1, <2>2, <3>1, <3>2, OneOrNone
  <2>3. CASE pkt[pc] \notin BadIP \ alertedIPs
    BY <1>4, <2>1, <2>3, Proceeding DEF AnalyzeIP
  <2> QED
    BY <2>2, <2>3
<1>5. CASE AnalyzeDomain
  <2>1. PICK class : class = IF pkt.domain = "" THEN "clean" ELSE DomainClass[pkt.domain]
    OBVIOUS
  <2>2. /\ pkt.src \in IP /\ pc = "domain" /\ pending = {}
        /\ class # "clean" => pkt.domain \in Domain
        /\ UNCHANGED <<pkt, scannedPorts, alertedScanners, alertedIPs, packets>>
    BY <1>5, <2>1, Addresses DEF AnalyzeDomain
  <2>3. alertedDomains' \subseteq Domain
    BY <1>5, <2>1, <2>2 DEF AnalyzeDomain
  <2>4. alerts' \in Seq(AnyAlert)
    <3>1. class # "clean" => \A type \in AlertType : Alert(type, pkt.src, pkt.domain) \in AnyAlert
      BY <2>2 DEF Alert, AnyAlert, Target
    <3>2. \/ alerts' = alerts
          \/ class # "clean" /\ alerts' = Append(alerts, Alert("Malicious Domain", pkt.src, pkt.domain))
          \/ class # "clean" /\ alerts' = Append(alerts, Alert("Suspicious Domain", pkt.src, pkt.domain))
      BY <1>5, <2>1 DEF AnalyzeDomain
    <3>3. "Malicious Domain" \in AlertType /\ "Suspicious Domain" \in AlertType
      BY DEF AlertType
    <3>4. alerts \in Seq(AnyAlert)
      OBVIOUS
    <3>5. \A a \in AnyAlert : Append(alerts, a) \in Seq(AnyAlert)
      BY <3>4, PutOne
    <3> QED
      BY <3>1, <3>2, <3>3, <3>4, <3>5
  <2>5. CASE UNCHANGED <<pc, handled>> /\ pending' = {Pending("Blocked Domain", pkt.domain, pkt.src)} /\ class # "clean"
    <3>1. Pending("Blocked Domain", pkt.domain, pkt.src) \in Transaction
      BY <2>2, <2>5, PendingType DEF Case, Target
    <3> QED
      BY <2>2, <2>3, <2>4, <2>5, <3>1, OneOrNone
  <2>6. CASE Proceed /\ UNCHANGED pending
    BY <2>2, <2>3, <2>4, <2>6, Proceeding
  <2> QED
    BY <1>5, <2>1, <2>5, <2>6 DEF AnalyzeDomain
<1>6. ASSUME NEW t \in pending, Added(t) PROVE CaptureTypeOK'
  BY <1>6, Adding
<1>7. CASE PushBack \/ Switch
  BY <1>6, <1>7 DEF PushBack, Switch
<1>8. CASE Grow
  BY <1>1, <1>8 DEF Grow
<1>9. CASE API
  BY <1>1, <1>9 DEF API, List, Decide, Iterate, Visit, Write, Dangle, Answer
<1>10. CASE Tick
  BY <1>1, <1>10 DEF Tick
<1>11. CASE UNCHANGED vars
  BY <1>1, <1>11 DEF vars
<1> QED
  BY <1>2, <1>3, <1>4, <1>5, <1>7, <1>8, <1>9, <1>10, <1>11 DEF Next, Capture

LEMMA VectorTypeStep == TypeOK /\ InHand /\ [Next]_vars => VectorTypeOK' /\ InHand'
<1> SUFFICES ASSUME TypeOK, InHand, [Next]_vars PROVE VectorTypeOK' /\ InHand'
  OBVIOUS
<1> USE DEF TypeOK, VectorTypeOK, InHand
<1>1. ASSUME UNCHANGED <<vector, pc, pending>> PROVE VectorTypeOK' /\ InHand'
  BY <1>1 DEF vector
<1>2. ASSUME NEW p \in Packet, NextPacket(p) PROVE VectorTypeOK' /\ InHand'
  BY <1>2 DEF NextPacket, vector
<1>3. CASE AnalyzePacket
  BY <1>3, Proceeding DEF AnalyzePacket, vector
<1>4. CASE AnalyzeIP
  BY <1>4, Proceeding DEF AnalyzeIP, vector
<1>5. CASE AnalyzeDomain
  BY <1>5, Proceeding DEF AnalyzeDomain, vector
<1>6. CASE PushBack
  BY <1>6, Adding DEF PushBack
<1>7. CASE Grow
  BY <1>7 DEF Grow, capture
<1>8. CASE Switch
  <2>1. PICK t \in pending : Added(t)
    BY <1>8 DEF Switch
  <2>2. transactions' \in Seq(Transaction) /\ Len(transactions') = Len(transactions) + 1 /\ pending' = {}
    BY <2>1, Adding
  <2>3. Len(transactions) = capacity /\ storage' = storage + 1 /\ growing' = FALSE
        /\ capacity' = IF capacity = 0 THEN 1 ELSE 2 * capacity
    BY <1>8 DEF Switch
  <2>4. capacity' \in Nat /\ Len(transactions) + 1 <= capacity' /\ storage' \in Nat
    BY <2>3
  <2>5. Len(transactions') <= capacity'
    BY <2>2, <2>4
  <2> QED
    BY <2>2, <2>3, <2>4, <2>5, Zenon
<1>9. CASE Write
  <2>1. transactions' = [transactions EXCEPT ![apiAt].status = decision.status]
        /\ UNCHANGED <<capture, capacity, storage, growing>>
    BY <1>9 DEF Write
  <2>2. apiAt \in 1..Len(transactions) /\ Len(transactions) \in Nat /\ decision.status \in Status
    BY <1>9 DEF Write, ApiTypeOK
  <2>3. transactions[apiAt] \in Transaction
    BY <2>2
  <2>4. [transactions[apiAt] EXCEPT !.status = decision.status] \in Transaction
    BY <2>2, <2>3 DEF Transaction
  <2>5. transactions' \in Seq(Transaction) /\ Len(transactions') = Len(transactions)
    BY <2>1, <2>2, <2>4
  <2>6. UNCHANGED <<pc, pending>>
    BY <2>1 DEF capture
  <2> QED
    BY <2>1, <2>5, <2>6
<1>10. CASE List \/ Visit \/ Dangle \/ Answer \/ Tick
  BY <1>1, <1>10 DEF List, Iterate, Visit, Dangle, Answer, Tick, capture
<1>11. ASSUME NEW i \in DOMAIN screen, NEW status \in {"ALLOWED", "BLOCKED"}, Decide(i, status)
       PROVE  VectorTypeOK' /\ InHand'
  BY <1>1, <1>11 DEF Decide, Iterate, capture
<1>12. CASE UNCHANGED vars
  BY <1>1, <1>12 DEF vars, capture
<1> QED
  BY <1>2, <1>3, <1>4, <1>5, <1>6, <1>7, <1>8, <1>9, <1>10, <1>11, <1>12 DEF Next, Capture, API

LEMMA ApiTypeStep ==
    TypeOK /\ InHand /\ [Next]_vars => ApiTypeOK' /\ now' \in 0..MaxTime /\ dead' \in BOOLEAN
<1> SUFFICES ASSUME TypeOK, InHand, [Next]_vars
             PROVE  ApiTypeOK' /\ now' \in 0..MaxTime /\ dead' \in BOOLEAN
  OBVIOUS
<1> DEFINE Goal == ApiTypeOK' /\ now' \in 0..MaxTime /\ dead' \in BOOLEAN
<1> USE DEF TypeOK, ApiTypeOK, VectorTypeOK
<1>0. Len(transactions) \in Nat /\ MaxTime \in Nat /\ MaxRequests \in Nat
  BY Bounds
<1>1. ASSUME UNCHANGED <<api, storage, now, dead>>, Len(transactions') \in Nat, Len(transactions') >= Len(transactions)
      PROVE  Goal
  BY <1>0, <1>1 DEF api
<1>2. ASSUME UNCHANGED <<api, vector, now, dead>> PROVE Goal
  BY <1>0, <1>1, <1>2 DEF vector
<1>3. ASSUME NEW p \in Packet, NextPacket(p) PROVE Goal
  <2>1. UNCHANGED <<api, vector, now, dead>>
    BY <1>3 DEF NextPacket
  <2> QED
    BY <1>2, <2>1
<1>4. CASE AnalyzePacket \/ AnalyzeIP \/ AnalyzeDomain
  <2>1. UNCHANGED <<api, vector, now, dead>>
    BY <1>4 DEF AnalyzePacket, AnalyzeIP, AnalyzeDomain
  <2> QED
    BY <1>2, <2>1
<1>5. ASSUME NEW t \in pending, Added(t), storage' \in {storage, storage + 1} PROVE Goal
  <2>1. Len(transactions') = Len(transactions) + 1 /\ UNCHANGED <<api, now, dead>>
    BY <1>5, Adding
  <2> QED
    BY <1>0, <1>5, <2>1 DEF api
<1>6. CASE PushBack \/ Switch
  BY <1>5, <1>6 DEF PushBack, Switch
<1>7. CASE Grow
  BY <1>1, <1>0, <1>7 DEF Grow
<1>8. ASSUME NEW kind \in {"list", "find"}, Iterate(kind), screen' \in Seq(Transaction),
             decision' \in {[id |-> t.id, target |-> t.target, status |-> s] : t \in Transaction, s \in Status}
      PROVE  Goal
  <2>1. UNCHANGED <<vector, now, dead>> /\ apiPc' = kind /\ apiAt' = 1
        /\ apiEnd' = Len(transactions) /\ apiStorage' = storage /\ requests' = requests + 1
        /\ requests < MaxRequests
    BY <1>8 DEF Iterate
  <2>2. transactions' = transactions /\ storage' = storage /\ now' = now /\ dead' = dead
    BY <2>1 DEF vector
  <2>3. requests' \in 0..MaxRequests
    BY <1>0, <2>1
  <2> QED
    BY <1>0, <1>8, <2>1, <2>2, <2>3
<1>9. CASE List
  BY <1>8, <1>9 DEF List
<1>10. ASSUME NEW i \in DOMAIN screen, NEW status \in {"ALLOWED", "BLOCKED"}, Decide(i, status)
       PROVE  Goal
  <2>1. screen[i] \in Transaction /\ status \in Status
    BY DEF Status
  <2>2. decision' \in {[id |-> t.id, target |-> t.target, status |-> s] : t \in Transaction, s \in Status}
    BY <1>10, <2>1 DEF Decide
  <2>3. Iterate("find") /\ screen' \in Seq(Transaction)
    BY <1>10 DEF Decide
  <2> QED
    BY <1>8, <2>2, <2>3
<1>11. CASE Visit
  <2>1. Current \in Transaction
    BY <1>0, <1>11 DEF Visit, Current
  <2>2. screen' \in Seq(Transaction)
    BY <1>11, <2>1, PutOne DEF Visit
  <2> QED
    BY <1>0, <1>11, <2>2 DEF Visit, vector
<1>12. ASSUME Done, UNCHANGED <<storage, now>>, dead' \in BOOLEAN, Len(transactions') \in Nat PROVE Goal
  BY <1>12 DEF Done
<1>13. CASE Write
  <2>1. Len(transactions') = Len(transactions)
    BY <1>0, <1>13 DEF Write
  <2>2. Done /\ UNCHANGED <<storage, now, dead>>
    BY <1>13 DEF Write
  <2> QED
    BY <1>0, <1>12, <2>1, <2>2
<1>14. CASE Dangle
  <2>1. UNCHANGED <<vector, now>> /\ dead' \in BOOLEAN
    <3>1. UNCHANGED <<vector, now>> /\ (dead' = TRUE \/ dead' = dead)
      BY <1>14, Zenon DEF Dangle
    <3>2. dead \in BOOLEAN
      OBVIOUS
    <3> QED
      BY <3>1, <3>2, Zenon
  <2>2. CASE UNCHANGED api
    BY <1>0, <2>1, <2>2 DEF api, vector
  <2>3. CASE Done
    BY <1>0, <1>12, <2>1, <2>3 DEF vector
  <2>4. CASE apiPc # "write" /\ apiAt' = apiAt + 1 /\ UNCHANGED <<apiPc, apiEnd, apiStorage, decision, screen, requests>>
    <3>1. apiAt <= apiEnd
      BY <1>14, <2>4 DEF Dangle
    <3> QED
      BY <1>0, <2>1, <2>4, <3>1 DEF vector
  <2> QED
    BY <1>14, <2>2, <2>3, <2>4 DEF Dangle
<1>15. CASE Answer
  BY <1>0, <1>12, <1>15 DEF Answer, vector
<1>16. CASE Tick
  BY <1>0, <1>16 DEF Tick, vector, api
<1>17. CASE UNCHANGED vars
  BY <1>2, <1>17 DEF vars
<1> QED
  BY <1>3, <1>4, <1>6, <1>7, <1>9, <1>10, <1>11, <1>13, <1>14, <1>15, <1>16, <1>17 DEF Next, Capture, API

LEMMA TypeStep == TypeOK /\ InHand /\ [Next]_vars => TypeOK' /\ InHand'
  BY CaptureTypeStep, VectorTypeStep, ApiTypeStep DEF TypeOK

LEMMA InitType == Init => TypeOK /\ InHand
<1> SUFFICES ASSUME Init PROVE TypeOK /\ InHand
  OBVIOUS
<1>1. pkt \in Packet
  BY Bounds DEF Init
<1>2. /\ pc = "idle" /\ scannedPorts = [ip \in IP |-> {}]
      /\ alertedScanners = {} /\ alertedIPs = {} /\ alertedDomains = {}
      /\ alerts = <<>> /\ pending = {} /\ packets = 0 /\ handled = {}
      /\ transactions = <<>> /\ capacity = 0 /\ storage = 0 /\ growing = FALSE
      /\ apiPc = "idle" /\ apiAt = 1 /\ apiEnd = 0 /\ apiStorage = 0 /\ screen = <<>> /\ requests = 0
      /\ now = 0 /\ dead = FALSE
  BY DEF Init
<1>3. CaptureTypeOK
  <2>1. alerts \in Seq(AnyAlert) /\ Cardinality(pending) <= 1 /\ packets \in 0..MaxPackets
    BY <1>2, FS_EmptySet, Bounds
  <2> QED
    BY <1>1, <1>2, <2>1 DEF CaptureTypeOK
<1>4. VectorTypeOK /\ InHand
  <2>1. transactions \in Seq(Transaction) /\ Len(transactions) <= capacity
    BY <1>2
  <2> QED
    BY <1>2, <2>1 DEF VectorTypeOK, InHand
<1>5. PICK t : t = Pending("Malicious IP", pkt.src, pkt.src)
  OBVIOUS
<1>6. t \in Transaction /\ t.id = 0 /\ t.target = pkt.src
  <2>1. pkt.src \in IP /\ pkt.src \in Target /\ "Malicious IP" \in Case
    BY <1>1, Addresses DEF Target, Case
  <2>2. now \in 0..MaxTime
    BY <1>2, Bounds
  <2> QED
    BY <1>2, <1>5, <2>1, <2>2, PendingType DEF Pending
<1>7. decision = [id |-> 0, target |-> pkt.src, status |-> "PENDING"]
  BY DEF Init
<1> DEFINE Decisions ==
               {[id |-> x.id, target |-> x.target, status |-> s] : x \in Transaction, s \in Status}
<1>8. decision \in Decisions
  <2>1. decision = [id |-> t.id, target |-> t.target, status |-> "PENDING"]
    BY <1>6, <1>7
  <2>2. "PENDING" \in Status
    BY DEF Status
  <2>3. \A y \in Transaction, z \in Status :
           [id |-> y.id, target |-> y.target, status |-> z] \in Decisions
    OBVIOUS
  <2> HIDE DEF Decisions
  <2>4. [id |-> t.id, target |-> t.target, status |-> "PENDING"] \in Decisions
    BY <1>6, <2>2, <2>3
  <2> QED
    BY <2>1, <2>4
<1>9. ApiTypeOK
  BY <1>2, <1>8, Bounds DEF ApiTypeOK
<1>10. now \in 0..MaxTime
  BY <1>2, Bounds
<1>11. dead \in BOOLEAN
  BY <1>2, Zenon
<1> QED
  BY <1>3, <1>4, <1>9, <1>10, <1>11 DEF TypeOK

(* Whatever the packets and the rules, and however the API thread cuts in,   *)
(* the vector holds no more than its storage and the iterators stay in it.   *)
THEOREM TypeCorrect == Spec => []TypeOK
  BY InitType, TypeStep, PTL DEF Spec

-----------------------------------------------------------------------------
(* One case per offender                                                     *)

CasesOf(q) == {CaseOf(q[i]) : i \in DOMAIN q}
Of(q, types) == {i \in DOMAIN q : q[i].type \in types}
CaseAlertsIn(q) == Of(q, Case)
ReportedBy(q) == {AlertCase(q[i]) : i \in CaseAlertsIn(q)}
Differ(q) == \A i, j \in DOMAIN q : CaseOf(q[i]) = CaseOf(q[j]) => i = j
AlertsDiffer(q) == \A i, j \in CaseAlertsIn(q) : AlertCase(q[i]) = AlertCase(q[j]) => i = j

Waiting == {CaseOf(t) : t \in pending}

(* What the detector remembers to have seen, as cases. *)
Known ==
    {<<"Malicious IP", ip>> : ip \in alertedIPs}
        \cup {<<"Blocked Domain", d>> : d \in {d \in alertedDomains : DomainClass[d] = "blocked"}}

Addressed(ps) == UNION {{p.src, p.dst} : p \in ps}

(* The addresses and names looked at so far, those of this packet too. *)
MetIPs ==
    Addressed(handled)
        \cup {ip \in {pkt.src} : pc \in {"dst", "domain"} \/ (pc = "src" /\ pending # {})}
        \cup {ip \in {pkt.dst} : pc = "domain" \/ (pc = "dst" /\ pending # {})}
MetDomains == {p.domain : p \in handled} \cup {d \in {pkt.domain} : pc = "domain" /\ pending # {}}

Remembered ==
    /\ alertedIPs = BadIP \cap MetIPs
    /\ \A d \in Domain : DomainClass[d] = "blocked" => (d \in alertedDomains <=> d \in MetDomains)

Carried ==
    /\ \A t, u \in pending : t = u
    /\ \A t \in pending :
          /\ pc \in {"src", "dst"} => t.reason = "Malicious IP" /\ t.target = pkt[pc] /\ t.source = t.target
          /\ pc = "domain" => t.reason = "Blocked Domain" /\ t.target = pkt.domain

Opened ==
    /\ CasesOf(transactions) \cup Waiting = Known /\ CasesOf(transactions) \cap Waiting = {}
    /\ Differ(transactions)
    /\ ReportedBy(alerts) = CasesOf(transactions) /\ AlertsDiffer(alerts)

Cases == Remembered /\ Carried /\ Opened

-----------------------------------------------------------------------------
(* One alert per scanner                                                     *)

(* The packets that analyzePacket has seen. *)
Analysed == handled \cup {p \in {pkt} : pc \notin {"idle", "packet"}}
PortsMet(ip) == {p.dport : p \in {q \in Analysed \ Ignored : q.src = ip}}
ScanType == {"Port Scan"}
ScansIn(q) == Of(q, ScanType)
Scanner(a) == a.source
Scanners(q) == {Scanner(q[i]) : i \in ScansIn(q)}
ScansDiffer(q) == \A i, j \in ScansIn(q) : Scanner(q[i]) = Scanner(q[j]) => i = j

Scanned ==
    /\ \A ip \in IP : scannedPorts[ip] = PortsMet(ip) /\ IsFiniteSet(scannedPorts[ip])
    /\ \A ip \in IP : ip \in alertedScanners <=> Cardinality(scannedPorts[ip]) >= ScanLimit
    /\ Scanners(alerts) = alertedScanners /\ ScansDiffer(alerts)

-----------------------------------------------------------------------------
(* Alerts of one kind                                                        *)

LEMMA QuietJoin ==
    ASSUME NEW types, NEW q \in Seq(AnyAlert), NEW r \in Seq(AnyAlert),
           \A i \in DOMAIN r : r[i].type \notin types
    PROVE  Of(q \o r, types) = Of(q, types) /\ \A i \in Of(q, types) : (q \o r)[i] = q[i]
<1>1. /\ Len(q) \in Nat /\ Len(r) \in Nat
      /\ DOMAIN q = 1..Len(q) /\ DOMAIN r = 1..Len(r) /\ DOMAIN (q \o r) = 1..(Len(q) + Len(r))
      /\ \A i \in 1..Len(q) : (q \o r)[i] = q[i]
      /\ \A i \in 1..Len(r) : (q \o r)[Len(q) + i] = r[i]
  BY Joined
<1>2. ASSUME NEW i \in DOMAIN (q \o r), (q \o r)[i].type \in types PROVE i \in DOMAIN q
  <2>1. CASE i > Len(q)
    <3>1. i - Len(q) \in 1..Len(r) /\ Len(q) + (i - Len(q)) = i
      BY <1>1, <2>1
    <3>2. (q \o r)[i] = r[i - Len(q)]
      BY <1>1, <3>1
    <3> QED
      BY <1>1, <1>2, <3>1, <3>2
  <2>2. CASE ~(i > Len(q))
    BY <1>1, <2>2
  <2> QED
    BY <2>1, <2>2
<1>3. \A i \in DOMAIN q : i \in DOMAIN (q \o r) /\ (q \o r)[i] = q[i]
  BY <1>1
<1> QED
  BY <1>2, <1>3 DEF Of

LEMMA QuietAppend ==
    ASSUME NEW types, NEW q \in Seq(AnyAlert), NEW a \in AnyAlert, a.type \notin types
    PROVE  Of(Append(q, a), types) = Of(q, types) /\ \A i \in Of(q, types) : Append(q, a)[i] = q[i]
<1>1. /\ Len(q) \in Nat /\ DOMAIN q = 1..Len(q) /\ DOMAIN Append(q, a) = 1..(Len(q) + 1)
      /\ (\A i \in 1..Len(q) : Append(q, a)[i] = q[i]) /\ Append(q, a)[Len(q) + 1] = a
  BY PutOne
<1> QED
  BY <1>1 DEF Of

LEMMA SameReports ==
    ASSUME NEW q, NEW r, Of(r, Case) = Of(q, Case), \A i \in Of(q, Case) : r[i] = q[i]
    PROVE  ReportedBy(r) = ReportedBy(q) /\ (AlertsDiffer(q) => AlertsDiffer(r))
  BY DEF ReportedBy, AlertsDiffer, CaseAlertsIn

LEMMA OneMoreReport ==
    ASSUME NEW q \in Seq(AnyAlert), NEW a \in AnyAlert, a.type \in Case,
           AlertCase(a) \notin ReportedBy(q), AlertsDiffer(q)
    PROVE  ReportedBy(Append(q, a)) = ReportedBy(q) \cup {AlertCase(a)} /\ AlertsDiffer(Append(q, a))
<1>1. /\ Len(q) \in Nat /\ DOMAIN q = 1..Len(q) /\ DOMAIN Append(q, a) = 1..(Len(q) + 1)
      /\ (\A i \in 1..Len(q) : Append(q, a)[i] = q[i]) /\ Append(q, a)[Len(q) + 1] = a
  BY PutOne
<1>2. PICK n, r : n = Len(q) + 1 /\ r = Append(q, a)
  OBVIOUS
<1>3. /\ DOMAIN r = DOMAIN q \cup {n} /\ n \notin DOMAIN q
      /\ (\A i \in DOMAIN q : r[i] = q[i]) /\ r[n] = a
  BY <1>1, <1>2
<1>4. /\ Of(r, Case) = Of(q, Case) \cup {n} /\ (\A i \in Of(q, Case) : r[i] = q[i] /\ i # n) /\ r[n] = a
  BY <1>3 DEF Of
<1>5. ReportedBy(r) = ReportedBy(q) \cup {AlertCase(a)}
  BY <1>4 DEF ReportedBy, CaseAlertsIn
<1>6. \A i \in Of(q, Case) : AlertCase(q[i]) # AlertCase(a)
  BY DEF ReportedBy, CaseAlertsIn
<1>7. AlertsDiffer(r)
  BY <1>4, <1>6 DEF AlertsDiffer, CaseAlertsIn
<1> QED
  BY <1>2, <1>5, <1>7

LEMMA OneMoreCase ==
    ASSUME NEW q \in Seq(Transaction), NEW t \in Transaction, CaseOf(t) \notin CasesOf(q), Differ(q)
    PROVE  CasesOf(Append(q, t)) = CasesOf(q) \cup {CaseOf(t)} /\ Differ(Append(q, t))
<1>1. /\ Len(q) \in Nat /\ DOMAIN q = 1..Len(q) /\ DOMAIN Append(q, t) = 1..(Len(q) + 1)
      /\ (\A i \in 1..Len(q) : Append(q, t)[i] = q[i]) /\ Append(q, t)[Len(q) + 1] = t
  BY PutOne
<1> QED
  BY <1>1 DEF CasesOf, Differ

-----------------------------------------------------------------------------
(* Proof of Cases                                                            *)

LEMMA OneMorePacket ==
    ASSUME NEW ps, NEW p
    PROVE  Addressed(ps \cup {p}) = Addressed(ps) \cup {p.src, p.dst}
<1>1. {{x.src, x.dst} : x \in ps \cup {p}} = {{x.src, x.dst} : x \in ps} \cup {{p.src, p.dst}}
  OBVIOUS
<1> QED
  BY <1>1 DEF Addressed

LEMMA CasesSame ==
    ASSUME Cases, UNCHANGED <<alertedIPs, alertedDomains, pending, MetIPs, MetDomains, transactions>>,
           pending # {} => UNCHANGED <<pc, pkt>>,
           ReportedBy(alerts') = ReportedBy(alerts), AlertsDiffer(alerts')
    PROVE  Cases'
<1>1. Remembered'
  BY DEF Cases, Remembered
<1>2. Carried'
  BY DEF Cases, Carried
<1>3. Known' = Known /\ Waiting' = Waiting
  BY DEF Known, Waiting
<1>4. Opened'
  BY <1>3 DEF Cases, Opened
<1> QED
  BY <1>1, <1>2, <1>4 DEF Cases

LEMMA CasesNextPacket ==
    ASSUME TypeOK, InHand, Cases, NEW p \in Packet, NextPacket(p)
    PROVE  Cases'
<1>1. /\ pc = "idle" /\ pc' = "packet"
      /\ UNCHANGED <<alertedIPs, alertedDomains, alerts, pending, handled, transactions>>
  BY DEF NextPacket, vector
<1>2. pending = {}
  BY <1>1 DEF InHand
<1>3. MetIPs' = MetIPs /\ MetDomains' = MetDomains
  BY <1>1, <1>2 DEF MetIPs, MetDomains
<1> QED
  BY <1>1, <1>2, <1>3, CasesSame DEF Cases, Opened

LEMMA CasesAnalyzePacket ==
    ASSUME TypeOK, InHand, Cases, AnalyzePacket
    PROVE  Cases'
<1>1. /\ pc = "packet" /\ pc' = "src" /\ handled' = handled
      /\ UNCHANGED <<pkt, alertedIPs, alertedDomains, pending, transactions>>
  BY Proceeding DEF AnalyzePacket, vector
<1>2. pending = {}
  BY <1>1 DEF InHand
<1>3. MetIPs' = MetIPs /\ MetDomains' = MetDomains
  BY <1>1, <1>2 DEF MetIPs, MetDomains
<1>4. ReportedBy(alerts') = ReportedBy(alerts) /\ AlertsDiffer(alerts')
  <2>1. AlertsDiffer(alerts)
    BY DEF Cases, Opened
  <2>2. CASE pkt \in Ignored
    BY <2>1, <2>2 DEF AnalyzePacket
  <2>3. CASE pkt \notin Ignored
    <3>1. PICK scan : /\ scan = <<>> \/ scan = <<Alert("Port Scan", pkt.src, "")>>
                      /\ alerts' = alerts \o RuleAlerts \o scan
      BY <2>3 DEF AnalyzePacket
    <3>2. /\ alerts \in Seq(AnyAlert) /\ RuleAlerts \in Seq(AnyAlert)
          /\ \A i \in DOMAIN RuleAlerts : RuleAlerts[i].type \notin Case
      BY RuleAlertsType DEF TypeOK, CaptureTypeOK
    <3>3. Alert("Port Scan", pkt.src, "") \in AnyAlert /\ Alert("Port Scan", pkt.src, "").type \notin Case
      BY Addresses DEF Alert, AnyAlert, AlertType, Case, TypeOK, CaptureTypeOK
    <3>4. scan \in Seq(AnyAlert) /\ \A i \in DOMAIN scan : scan[i].type \notin Case
      <4>1. PICK a : a = Alert("Port Scan", pkt.src, "")
        OBVIOUS
      <4>2. a \in AnyAlert /\ a.type \notin Case /\ (scan = <<>> \/ scan = <<a>>)
        BY <3>1, <3>3, <4>1
      <4>3. scan \in Seq(AnyAlert)
        BY <4>2, ShortSequences
      <4>4. \A i \in DOMAIN scan : scan[i] = a
        BY <4>2
      <4> QED
        BY <4>2, <4>3, <4>4
    <3>5. PICK q : q = alerts \o RuleAlerts
      OBVIOUS
    <3>6. /\ q \in Seq(AnyAlert) /\ Of(q, Case) = Of(alerts, Case)
          /\ \A i \in Of(alerts, Case) : q[i] = alerts[i]
      <4>1. q \in Seq(AnyAlert)
        BY <3>2, <3>5, Joined
      <4>2. Of(q, Case) = Of(alerts, Case) /\ \A i \in Of(alerts, Case) : q[i] = alerts[i]
        BY <3>2, <3>5, QuietJoin
      <4> QED
        BY <4>1, <4>2
    <3>7. /\ Of(q \o scan, Case) = Of(q, Case)
          /\ \A i \in Of(q, Case) : (q \o scan)[i] = q[i]
      BY <3>4, <3>6, QuietJoin
    <3>8. /\ Of(alerts', Case) = Of(alerts, Case)
          /\ \A i \in Of(alerts, Case) : alerts'[i] = alerts[i]
      BY <3>1, <3>5, <3>6, <3>7
    <3> QED
      BY <2>1, <3>8, SameReports
  <2> QED
    BY <2>2, <2>3
<1> QED
  BY <1>1, <1>2, <1>3, <1>4, CasesSame

LEMMA CasesAnalyzeIP ==
    ASSUME TypeOK, InHand, Cases, AnalyzeIP
    PROVE  Cases'
<1> PICK ip : ip = pkt[pc]
  OBVIOUS
<1>1. /\ pc \in {"src", "dst"} /\ pending = {}
      /\ UNCHANGED <<pkt, alertedDomains, alerts, transactions>>
  BY DEF AnalyzeIP, vector
<1>2. MetIPs = Addressed(handled) \cup (IF pc = "dst" THEN {pkt.src} ELSE {})
      /\ MetDomains = {p.domain : p \in handled}
  BY <1>1 DEF MetIPs, MetDomains
<1>3. CASE ip \in BadIP \ alertedIPs
  <2>1. PICK t : t = Pending("Malicious IP", ip, ip)
    OBVIOUS
  <2>2. /\ pending' = {t} /\ alertedIPs' = alertedIPs \cup {ip} /\ UNCHANGED <<pc, handled>>
        /\ t.reason = "Malicious IP" /\ t.target = ip /\ t.source = ip
    BY <1>3, <2>1 DEF AnalyzeIP, Pending
  <2>3. MetIPs' = MetIPs \cup {ip}
    BY <1>1, <1>2, <2>2 DEF MetIPs
  <2>4. MetDomains' = MetDomains
    BY <1>1, <2>2 DEF MetDomains
  <2>5. Remembered'
    BY <1>1, <1>3, <2>2, <2>3, <2>4 DEF Cases, Remembered
  <2>6. Carried'
    BY <1>1, <2>2 DEF Carried
  <2>7. Waiting' = {<<"Malicious IP", ip>>} /\ Waiting = {}
    BY <1>1, <2>2 DEF Waiting, CaseOf
  <2>8. Known' = Known \cup {<<"Malicious IP", ip>>}
    BY <1>1, <2>2 DEF Known
  <2>9. <<"Malicious IP", ip>> \notin Known
    BY <1>3 DEF Known
  <2>10. Opened'
    BY <1>1, <2>7, <2>8, <2>9 DEF Cases, Opened
  <2> QED
    BY <2>5, <2>6, <2>10 DEF Cases
<1>4. CASE ip \notin BadIP \ alertedIPs
  <2>1. Proceed /\ UNCHANGED <<alertedIPs, pending>>
    BY <1>4 DEF AnalyzeIP
  <2>2. handled' = handled /\ (pc = "src" => pc' = "dst") /\ (pc = "dst" => pc' = "domain")
    BY <1>1, <2>1, Proceeding
  <2>3. MetIPs' = MetIPs \cup {ip} /\ MetDomains' = MetDomains
    BY <1>1, <1>2, <2>1, <2>2 DEF MetIPs, MetDomains
  <2>4. Remembered'
    BY <1>1, <1>4, <2>1, <2>3 DEF Cases, Remembered
  <2>5. Carried'
    BY <1>1, <2>1 DEF Carried
  <2>6. Known' = Known /\ Waiting' = Waiting
    BY <1>1, <2>1 DEF Known, Waiting
  <2>7. Opened'
    BY <1>1, <2>6 DEF Cases, Opened
  <2> QED
    BY <2>4, <2>5, <2>7 DEF Cases
<1> QED
  BY <1>3, <1>4

LEMMA CasesAnalyzeDomain ==
    ASSUME TypeOK, InHand, Cases, AnalyzeDomain
    PROVE  Cases'
<1> PICK d : d = pkt.domain
  OBVIOUS
<1> PICK class : class = IF d = "" THEN "clean" ELSE DomainClass[d]
  OBVIOUS
<1>1. /\ pc = "domain" /\ pending = {} /\ d \in Domain \cup {""} /\ "" \notin Domain
      /\ UNCHANGED <<pkt, alertedIPs, transactions>>
  BY Addresses DEF AnalyzeDomain, vector, TypeOK, CaptureTypeOK, Domain
<1>2. /\ MetIPs = Addressed(handled) \cup {pkt.src, pkt.dst}
      /\ MetDomains = {p.domain : p \in handled}
  BY <1>1 DEF MetIPs, MetDomains
<1>3. CASE class = "blocked" /\ d \notin alertedDomains
  <2>1. PICK t : t = Pending("Blocked Domain", d, pkt.src)
    OBVIOUS
  <2>2. /\ pending' = {t} /\ alertedDomains' = alertedDomains \cup {d}
        /\ UNCHANGED <<pc, handled, alerts>>
        /\ t.reason = "Blocked Domain" /\ t.target = d
    BY <1>3, <2>1 DEF AnalyzeDomain, Pending
  <2>3. MetIPs' = MetIPs
    BY <1>1, <1>2, <2>2 DEF MetIPs
  <2>4. MetDomains' = MetDomains \cup {d}
    BY <1>1, <1>2, <2>2 DEF MetDomains
  <2>5. Remembered'
    BY <1>1, <1>3, <2>2, <2>3, <2>4 DEF Cases, Remembered
  <2>6. Carried'
    BY <1>1, <2>2 DEF Carried
  <2>7. Waiting' = {<<"Blocked Domain", d>>} /\ Waiting = {}
    BY <1>1, <2>2 DEF Waiting, CaseOf
  <2>8. DomainClass[d] = "blocked"
    BY <1>3
  <2>9. Known' = Known \cup {<<"Blocked Domain", d>>}
    BY <1>1, <2>2, <2>8 DEF Known
  <2>10. <<"Blocked Domain", d>> \notin Known
    BY <1>3 DEF Known
  <2>11. Opened'
    BY <1>1, <2>2, <2>7, <2>9, <2>10 DEF Cases, Opened
  <2> QED
    BY <2>5, <2>6, <2>11 DEF Cases
<1>4. CASE ~(class = "blocked" /\ d \notin alertedDomains)
  <2>1. /\ Proceed /\ UNCHANGED pending
        /\ alertedDomains' = alertedDomains
           \/ (alertedDomains' = alertedDomains \cup {d} /\ class = "suspicious")
    BY <1>4 DEF AnalyzeDomain
  <2>2. pc' = "idle" /\ handled' = handled \cup {pkt}
    BY <1>1, <2>1, Proceeding
  <2>3. MetIPs' = MetIPs
    <3>1. Addressed(handled \cup {pkt}) = Addressed(handled) \cup {pkt.src, pkt.dst}
      BY OneMorePacket
    <3>2. MetIPs' = Addressed(handled \cup {pkt})
      BY <1>1, <2>1, <2>2 DEF MetIPs
    <3> QED
      BY <1>2, <3>1, <3>2
  <2>4. MetDomains' = MetDomains \cup {d}
    BY <1>1, <1>2, <2>1, <2>2 DEF MetDomains
  <2>5. \A x \in Domain : DomainClass[x] = "blocked" => (x \in alertedDomains' <=> x \in MetDomains')
    BY <1>1, <1>4, <2>1, <2>4 DEF Cases, Remembered
  <2>6. Remembered'
    BY <1>1, <2>3, <2>5 DEF Cases, Remembered
  <2>7. Carried'
    BY <1>1, <2>1 DEF Carried
  <2>8. Waiting' = Waiting
    BY <2>1 DEF Waiting
  <2>9. Known' = Known
    <3>1. {x \in alertedDomains' : DomainClass[x] = "blocked"} = {x \in alertedDomains : DomainClass[x] = "blocked"}
      BY <1>1, <2>1
    <3> QED
      BY <1>1, <3>1 DEF Known
  <2>10. ReportedBy(alerts') = ReportedBy(alerts) /\ AlertsDiffer(alerts')
    <3>1. AlertsDiffer(alerts) /\ alerts \in Seq(AnyAlert)
      BY DEF Cases, Opened, TypeOK, CaptureTypeOK
    <3>2. \/ alerts' = alerts
          \/ class # "clean" /\ alerts' = Append(alerts, Alert("Malicious Domain", pkt.src, d))
          \/ class # "clean" /\ alerts' = Append(alerts, Alert("Suspicious Domain", pkt.src, d))
      BY DEF AnalyzeDomain
    <3>3. ASSUME NEW type \in {"Malicious Domain", "Suspicious Domain"}, class # "clean",
                 alerts' = Append(alerts, Alert(type, pkt.src, d))
          PROVE  ReportedBy(alerts') = ReportedBy(alerts) /\ AlertsDiffer(alerts')
      <4>1. PICK a : a = Alert(type, pkt.src, d)
        OBVIOUS
      <4>2. d \in Domain /\ pkt.src \in IP
        BY <1>1, <3>3, Addresses DEF TypeOK, CaptureTypeOK
      <4>3. a \in AnyAlert /\ a.type \notin Case
        BY <4>1, <4>2 DEF Alert, AnyAlert, AlertType, Case, Target
      <4>4. Of(alerts', Case) = Of(alerts, Case) /\ \A i \in Of(alerts, Case) : alerts'[i] = alerts[i]
        BY <3>1, <3>3, <4>1, <4>3, QuietAppend
      <4> QED
        BY <3>1, <4>4, SameReports
    <3> QED
      BY <3>1, <3>2, <3>3
  <2>11. Opened'
    BY <1>1, <2>8, <2>9, <2>10 DEF Cases, Opened
  <2> QED
    BY <2>6, <2>7, <2>11 DEF Cases
<1> QED
  BY <1>3, <1>4

LEMMA CasesAdded ==
    ASSUME TypeOK, InHand, Cases, NEW t \in pending, Added(t)
    PROVE  Cases'
<1>1. /\ t \in Transaction /\ pc \in {"src", "dst", "domain"} /\ pending' = {} /\ pending = {t}
      /\ UNCHANGED <<alertedIPs, alertedDomains, pkt>>
      /\ transactions' = Append(transactions, t) /\ Proceed
  BY Adding DEF Added, Cases, Carried
<1>2. /\ transactions \in Seq(Transaction) /\ alerts \in Seq(AnyAlert)
  BY DEF TypeOK, VectorTypeOK, CaptureTypeOK
<1>3. /\ pc = "src" => pc' = "dst" /\ handled' = handled
      /\ pc = "dst" => pc' = "domain" /\ handled' = handled
      /\ pc = "domain" => pc' = "idle" /\ handled' = handled \cup {pkt}
  BY <1>1, Proceeding
<1>4. Addressed(handled \cup {pkt}) = Addressed(handled) \cup {pkt.src, pkt.dst}
  BY OneMorePacket
<1>5. MetIPs' = MetIPs
  <2>1. CASE pc = "src"
    BY <1>1, <1>3, <2>1 DEF MetIPs
  <2>2. CASE pc = "dst"
    BY <1>1, <1>3, <2>2 DEF MetIPs
  <2>3. CASE pc = "domain"
    <3>1. MetIPs' = Addressed(handled \cup {pkt})
      BY <1>1, <1>3, <2>3 DEF MetIPs
    <3>2. MetIPs = Addressed(handled) \cup {pkt.src, pkt.dst}
      BY <2>3 DEF MetIPs
    <3> QED
      BY <1>4, <3>1, <3>2
  <2> QED
    BY <1>1, <2>1, <2>2, <2>3
<1>6. MetDomains' = MetDomains
  BY <1>1, <1>3 DEF MetDomains
<1>7. Remembered' /\ Carried'
  BY <1>1, <1>5, <1>6 DEF Cases, Remembered, Carried
<1>8. Known' = Known /\ Waiting' = {} /\ Waiting = {CaseOf(t)}
  BY <1>1 DEF Known, Waiting
<1>9. CaseOf(t) \notin CasesOf(transactions) /\ ReportedBy(alerts) = CasesOf(transactions)
      /\ Differ(transactions) /\ AlertsDiffer(alerts)
  BY <1>8 DEF Cases, Opened
<1>10. CasesOf(transactions') = CasesOf(transactions) \cup {CaseOf(t)} /\ Differ(transactions')
  BY <1>1, <1>2, <1>9, OneMoreCase
<1>11. PICK a : a = Alert(t.reason, t.source, IF pc = "domain" THEN t.target ELSE "")
  OBVIOUS
<1>12. a \in AnyAlert /\ a.type = t.reason /\ a.type \in Case
  BY <1>1, <1>11 DEF Transaction, Alert, AnyAlert, AlertType
<1>13. AlertCase(a) = CaseOf(t)
  BY <1>1, <1>11 DEF Cases, Carried, Alert, AlertCase, CaseOf
<1>14. alerts' = Append(alerts, a)
  BY <1>11 DEF Added
<1>15. ReportedBy(alerts') = ReportedBy(alerts) \cup {CaseOf(t)} /\ AlertsDiffer(alerts')
  BY <1>2, <1>9, <1>12, <1>13, <1>14, OneMoreReport
<1>16. Opened'
  BY <1>8, <1>9, <1>10, <1>15 DEF Cases, Opened
<1> QED
  BY <1>7, <1>16 DEF Cases

LEMMA CasesWrite ==
    ASSUME TypeOK, InHand, Cases, Write
    PROVE  Cases'
<1>1. UNCHANGED capture /\ transactions' = [transactions EXCEPT ![apiAt].status = decision.status]
  BY DEF Write
<1>2. transactions \in Seq(Transaction)
  BY DEF TypeOK, VectorTypeOK
<1>3. DOMAIN transactions' = DOMAIN transactions
  BY <1>1, <1>2
<1>4. ASSUME NEW i \in DOMAIN transactions PROVE CaseOf(transactions'[i]) = CaseOf(transactions[i])
  <2>1. transactions[i] \in Transaction
    BY <1>2
  <2> QED
    BY <1>1, <1>2, <2>1 DEF Transaction, CaseOf
<1>5. CasesOf(transactions') = CasesOf(transactions) /\ (Differ(transactions) => Differ(transactions'))
  BY <1>3, <1>4 DEF CasesOf, Differ
<1>6. UNCHANGED <<pc, pkt, alertedIPs, alertedDomains, pending, handled, alerts>>
  BY <1>1 DEF capture
<1>7. Known' = Known /\ Waiting' = Waiting /\ MetIPs' = MetIPs /\ MetDomains' = MetDomains
  BY <1>6 DEF Known, Waiting, MetIPs, MetDomains
<1>8. Remembered' /\ Carried'
  BY <1>6, <1>7 DEF Cases, Remembered, Carried
<1>9. Opened'
  BY <1>5, <1>6, <1>7 DEF Cases, Opened
<1> QED
  BY <1>8, <1>9 DEF Cases

LEMMA CasesStep == TypeOK /\ InHand /\ Cases /\ [Next]_vars => Cases'
<1> SUFFICES ASSUME TypeOK, InHand, Cases, [Next]_vars PROVE Cases'
  OBVIOUS
<1>1. ASSUME UNCHANGED <<capture, transactions>> PROVE Cases'
  <2>1. UNCHANGED <<pc, pkt, alertedIPs, alertedDomains, pending, handled, alerts, transactions>>
    BY <1>1 DEF capture
  <2>2. MetIPs' = MetIPs /\ MetDomains' = MetDomains
    BY <2>1 DEF MetIPs, MetDomains
  <2> QED
    BY <2>1, <2>2, CasesSame DEF Cases, Opened
<1>2. ASSUME NEW p \in Packet, NextPacket(p) PROVE Cases'
  BY <1>2, CasesNextPacket
<1>3. CASE PushBack \/ Switch
  BY <1>3, CasesAdded DEF PushBack, Switch
<1>4. CASE Grow
  BY <1>1, <1>4 DEF Grow
<1>5. CASE Write
  BY <1>5, CasesWrite
<1>6. CASE List \/ Visit \/ Dangle \/ Answer \/ Tick
  BY <1>1, <1>6 DEF List, Iterate, Visit, Dangle, Answer, Tick, vector
<1>7. ASSUME NEW i \in DOMAIN screen, NEW status \in {"ALLOWED", "BLOCKED"}, Decide(i, status) PROVE Cases'
  BY <1>1, <1>7 DEF Decide, Iterate, vector
<1>8. CASE UNCHANGED vars
  BY <1>1, <1>8 DEF vars, vector
<1> QED
  BY <1>2, <1>3, <1>4, <1>5, <1>6, <1>7, <1>8, CasesAnalyzePacket, CasesAnalyzeIP, CasesAnalyzeDomain
     DEF Next, Capture, API

LEMMA InitCases == Init => Cases
<1> SUFFICES ASSUME Init PROVE Cases
  OBVIOUS
<1>1. /\ pc = "idle" /\ alertedIPs = {} /\ alertedDomains = {} /\ alerts = <<>>
      /\ pending = {} /\ handled = {} /\ transactions = <<>>
  BY DEF Init
<1>2. MetIPs = {} /\ MetDomains = {} /\ Known = {} /\ Waiting = {}
  BY <1>1 DEF MetIPs, Addressed, MetDomains, Known, Waiting
<1>3. CasesOf(transactions) = {} /\ Differ(transactions) /\ ReportedBy(alerts) = {} /\ AlertsDiffer(alerts)
  BY <1>1 DEF CasesOf, Differ, ReportedBy, AlertsDiffer, CaseAlertsIn, Of
<1> QED
  BY <1>1, <1>2, <1>3 DEF Cases, Remembered, Carried, Opened

LEMMA CasesSuffice == TypeOK /\ InHand /\ Cases => OneCasePerOffender
<1> SUFFICES ASSUME TypeOK, InHand, Cases PROVE OneCasePerOffender
  OBVIOUS
<1>1. CaseAlerts = CaseAlertsIn(alerts)
  BY DEF CaseAlerts, CaseAlertsIn, Of
<1>2. ASSUME pc = "idle" PROVE CasesOf(transactions) = Offenders
  <2>1. pending = {}
    BY <1>2 DEF InHand
  <2>2. Waiting = {} /\ MetIPs = Addressed(handled) /\ MetDomains = {p.domain : p \in handled}
    BY <1>2, <2>1 DEF Waiting, MetIPs, MetDomains
  <2>3. alertedIPs = BadIP \cap Addressed(handled)
    BY <2>2 DEF Cases, Remembered
  <2>4. alertedDomains \subseteq Domain /\ {p.domain : p \in handled} \ {""} \subseteq Domain /\ "" \notin Domain
    BY DEF TypeOK, CaptureTypeOK, Domain
  <2>5. {d \in alertedDomains : DomainClass[d] = "blocked"}
        = {d \in {p.domain : p \in handled} \ {""} : DomainClass[d] = "blocked"}
    BY <2>2, <2>4 DEF Cases, Remembered
  <2>6. Known = Offenders
    BY <2>3, <2>5 DEF Known, Offenders, Addressed
  <2> QED
    BY <2>2, <2>6 DEF Cases, Opened
<1>3. {AlertCase(alerts[i]) : i \in CaseAlerts} = CasesOf(transactions)
  BY <1>1 DEF Cases, Opened, ReportedBy
<1>4. \A i, j \in DOMAIN transactions : CaseOf(transactions[i]) = CaseOf(transactions[j]) => i = j
  BY DEF Cases, Opened, Differ
<1>5. \A i, j \in CaseAlerts : AlertCase(alerts[i]) = AlertCase(alerts[j]) => i = j
  BY <1>1 DEF Cases, Opened, AlertsDiffer
<1> QED
  BY <1>2, <1>3, <1>4, <1>5 DEF OneCasePerOffender, CasesOf

(* Whatever comes in, in whichever direction and however often, and whatever *)
(* the API thread does to the vector meanwhile, every offender has one       *)
(* transaction and one alert, and nobody else has any.                       *)
THEOREM OneCasePerOffenderCorrect == Spec => []OneCasePerOffender
<1>1. TypeOK /\ InHand /\ Cases /\ [Next]_vars => TypeOK' /\ InHand' /\ Cases'
  BY TypeStep, CasesStep
<1> QED
  BY InitType, InitCases, <1>1, CasesSuffice, PTL DEF Spec

-----------------------------------------------------------------------------
(* Proof of Scanned                                                          *)

LEMMA SameScans ==
    ASSUME NEW q, NEW r, ScansIn(r) = ScansIn(q), \A i \in ScansIn(q) : r[i] = q[i]
    PROVE  Scanners(r) = Scanners(q) /\ (ScansDiffer(q) => ScansDiffer(r))
  BY DEF Scanners, ScansDiffer

LEMMA ScannedSame ==
    ASSUME Scanned, Analysed' = Analysed, UNCHANGED <<scannedPorts, alertedScanners>>,
           Of(alerts', ScanType) = Of(alerts, ScanType),
           \A i \in Of(alerts, ScanType) : alerts'[i] = alerts[i]
    PROVE  Scanned'
<1>1. ScansIn(alerts') = ScansIn(alerts) /\ \A i \in ScansIn(alerts) : alerts'[i] = alerts[i]
  BY DEF ScansIn
<1>2. \A ip \in IP : PortsMet(ip)' = PortsMet(ip)
  BY DEF PortsMet
<1>3. Scanners(alerts') = alertedScanners /\ ScansDiffer(alerts')
  BY <1>1, SameScans DEF Scanned
<1>4. \A ip \in IP : scannedPorts'[ip] = PortsMet(ip)' /\ IsFiniteSet(scannedPorts'[ip])
  BY <1>2 DEF Scanned
<1>5. \A ip \in IP : ip \in alertedScanners' <=> Cardinality(scannedPorts'[ip]) >= ScanLimit
  BY DEF Scanned
<1> QED
  BY <1>3, <1>4, <1>5 DEF Scanned

LEMMA OneMore ==
    ASSUME NEW S, NEW q \in Seq(S), NEW e \in S
    PROVE  q \o <<e>> = Append(q, e)
  OBVIOUS

LEMMA OneMoreScan ==
    ASSUME NEW q \in Seq(AnyAlert), NEW a \in AnyAlert, a.type \in ScanType,
           Scanner(a) \notin Scanners(q), ScansDiffer(q)
    PROVE  Scanners(Append(q, a)) = Scanners(q) \cup {Scanner(a)} /\ ScansDiffer(Append(q, a))
<1>1. /\ Len(q) \in Nat /\ DOMAIN q = 1..Len(q) /\ DOMAIN Append(q, a) = 1..(Len(q) + 1)
      /\ (\A i \in 1..Len(q) : Append(q, a)[i] = q[i]) /\ Append(q, a)[Len(q) + 1] = a
  BY PutOne
<1>2. PICK n, r : n = Len(q) + 1 /\ r = Append(q, a)
  OBVIOUS
<1>3. /\ DOMAIN r = DOMAIN q \cup {n} /\ n \notin DOMAIN q
      /\ (\A i \in DOMAIN q : r[i] = q[i]) /\ r[n] = a
  BY <1>1, <1>2
<1>4. /\ ScansIn(r) = ScansIn(q) \cup {n} /\ (\A i \in ScansIn(q) : r[i] = q[i] /\ i # n) /\ r[n] = a
  BY <1>3 DEF ScansIn, Of
<1>5. Scanners(r) = Scanners(q) \cup {Scanner(a)}
  BY <1>4 DEF Scanners
<1>6. \A i \in ScansIn(q) : Scanner(q[i]) # Scanner(a)
  BY DEF Scanners
<1>7. ScansDiffer(r)
  BY <1>4, <1>6 DEF ScansDiffer
<1> QED
  BY <1>2, <1>5, <1>7

LEMMA ScannedAnalyzePacket ==
    ASSUME TypeOK, Scanned, AnalyzePacket
    PROVE  Scanned'
<1>1. /\ pc = "packet" /\ pc' = "src" /\ handled' = handled /\ pkt' = pkt
      /\ pkt.src \in IP /\ scannedPorts \in [IP -> SUBSET Port] /\ alertedScanners \subseteq IP
  BY Proceeding, Addresses DEF AnalyzePacket, TypeOK, CaptureTypeOK
<1>2. Analysed = handled /\ Analysed' = handled \cup {pkt}
  BY <1>1 DEF Analysed
<1>3. CASE pkt \in Ignored
  <2>1. UNCHANGED <<scannedPorts, alertedScanners, alerts>>
    BY <1>3 DEF AnalyzePacket
  <2>2. Analysed' \ Ignored = Analysed \ Ignored
    BY <1>2, <1>3
  <2>3. \A ip \in IP : PortsMet(ip)' = PortsMet(ip)
    BY <2>2 DEF PortsMet
  <2> QED
    BY <2>1, <2>3 DEF Scanned
<1>4. CASE pkt \notin Ignored
  <2>1. PICK src, ports, a : /\ src = pkt.src /\ ports = scannedPorts[src] \cup {pkt.dport}
                             /\ a = Alert("Port Scan", src, "")
    OBVIOUS
  <2>2. /\ scannedPorts' = [scannedPorts EXCEPT ![src] = ports]
        /\ alerts' = alerts \o RuleAlerts \o (IF Scans(ports) THEN <<a>> ELSE <<>>)
        /\ alertedScanners' = IF Scans(ports) THEN alertedScanners \cup {src} ELSE alertedScanners
    BY <1>4, <2>1 DEF AnalyzePacket
  <2>3. /\ IsFiniteSet(ports) /\ Cardinality(ports) \in Nat /\ Cardinality(scannedPorts[src]) \in Nat
        /\ Cardinality(ports) >= Cardinality(scannedPorts[src]) /\ ScanLimit \in Nat
    <3>1. IsFiniteSet(scannedPorts[src])
      BY <1>1, <2>1 DEF Scanned
    <3>2. Cardinality(scannedPorts[src]) \in Nat
      BY <3>1, FS_CardinalityType
    <3>3. /\ IsFiniteSet(ports)
          /\ Cardinality(ports) = IF pkt.dport \in scannedPorts[src] THEN Cardinality(scannedPorts[src])
                                  ELSE Cardinality(scannedPorts[src]) + 1
      BY <2>1, <3>1, FS_AddElement
    <3> QED
      BY <3>2, <3>3, Bounds
  <2>4. \A ip \in IP : PortsMet(ip)' = IF ip = src THEN PortsMet(ip) \cup {pkt.dport} ELSE PortsMet(ip)
    BY <1>2, <1>4, <2>1 DEF PortsMet
  <2>5. \A ip \in IP : scannedPorts'[ip] = PortsMet(ip)' /\ IsFiniteSet(scannedPorts'[ip])
    BY <1>1, <2>1, <2>2, <2>3, <2>4 DEF Scanned
  <2>6. Scans(ports) <=> Cardinality(ports) >= ScanLimit /\ src \notin alertedScanners
    BY <2>1 DEF Scans
  <2>7. \A ip \in IP : ip \in alertedScanners <=> Cardinality(scannedPorts[ip]) >= ScanLimit
    BY DEF Scanned
  <2>8. \A ip \in IP : ip \in alertedScanners' <=> Cardinality(scannedPorts'[ip]) >= ScanLimit
    <3>1. src \in alertedScanners' <=> Cardinality(ports) >= ScanLimit
      <4>1. src \in alertedScanners' <=> src \in alertedScanners \/ Scans(ports)
        BY <2>2
      <4>2. src \in alertedScanners => Cardinality(ports) >= ScanLimit
        <5>1. src \in alertedScanners => Cardinality(scannedPorts[src]) >= ScanLimit
          BY <1>1, <2>1, <2>7
        <5> QED
          BY <2>3, <5>1
      <4> QED
        BY <2>6, <4>1, <4>2
    <3>2. \A ip \in IP : ip # src => /\ ip \in alertedScanners' <=> ip \in alertedScanners
                                     /\ scannedPorts'[ip] = scannedPorts[ip]
      BY <1>1, <2>2
    <3>3. scannedPorts'[src] = ports
      BY <1>1, <2>1, <2>2
    <3> QED
      BY <2>7, <3>1, <3>2, <3>3
  <2>9. /\ alerts \in Seq(AnyAlert) /\ RuleAlerts \in Seq(AnyAlert)
        /\ \A i \in DOMAIN RuleAlerts : RuleAlerts[i].type \notin ScanType
    BY RuleAlertsType DEF TypeOK, CaptureTypeOK, ScanType
  <2>10. PICK q : q = alerts \o RuleAlerts
    OBVIOUS
  <2>11. /\ q \in Seq(AnyAlert) /\ ScansIn(q) = ScansIn(alerts)
         /\ \A i \in ScansIn(alerts) : q[i] = alerts[i]
    <3>1. q \in Seq(AnyAlert)
      BY <2>9, <2>10, Joined
    <3>2. /\ Of(q, ScanType) = Of(alerts, ScanType)
          /\ \A i \in Of(alerts, ScanType) : q[i] = alerts[i]
      BY <2>9, <2>10, QuietJoin
    <3> QED
      BY <3>1, <3>2 DEF ScansIn
  <2>12. Scanners(q) = alertedScanners /\ ScansDiffer(q)
    BY <2>11, SameScans DEF Scanned
  <2>13. Scanners(alerts') = alertedScanners' /\ ScansDiffer(alerts')
    <3>1. CASE Scans(ports)
      <4>1. a \in AnyAlert /\ a.type \in ScanType /\ Scanner(a) = src
        BY <1>1, <2>1 DEF Alert, AnyAlert, AlertType, Scanner, ScanType
      <4>2. q \o <<a>> = Append(q, a)
        BY <2>11, <4>1, OneMore
      <4>3. alerts' = Append(q, a) /\ alertedScanners' = alertedScanners \cup {Scanner(a)}
        BY <2>2, <2>10, <3>1, <4>1, <4>2
      <4>4. Scanner(a) \notin Scanners(q)
        BY <2>6, <2>12, <3>1, <4>1
      <4> QED
        BY <2>11, <2>12, <4>1, <4>3, <4>4, OneMoreScan
    <3>2. CASE ~Scans(ports)
      <4>1. q \o <<>> = q
        BY <2>11
      <4>2. alerts' = q /\ alertedScanners' = alertedScanners
        BY <2>2, <2>10, <3>2, <4>1
      <4> QED
        BY <2>12, <4>2
    <3> QED
      BY <3>1, <3>2
  <2> QED
    BY <2>5, <2>8, <2>13 DEF Scanned
<1> QED
  BY <1>3, <1>4

LEMMA ScannedAdded ==
    ASSUME TypeOK, InHand, Scanned, NEW t \in pending, Added(t)
    PROVE  Scanned'
<1>1. /\ t \in Transaction /\ pc \in {"src", "dst", "domain"}
      /\ UNCHANGED <<pkt, scannedPorts, alertedScanners>> /\ Proceed /\ alerts \in Seq(AnyAlert)
  BY Adding DEF Added, TypeOK, CaptureTypeOK
<1>2. PICK a : a = Alert(t.reason, t.source, IF pc = "domain" THEN t.target ELSE "")
  OBVIOUS
<1>3. a \in AnyAlert /\ a.type \notin ScanType
  BY <1>1, <1>2 DEF Transaction, Alert, AnyAlert, AlertType, Case, ScanType
<1>4. alerts' = Append(alerts, a)
  BY <1>2 DEF Added
<1>5. /\ Of(alerts', ScanType) = Of(alerts, ScanType)
      /\ \A i \in Of(alerts, ScanType) : alerts'[i] = alerts[i]
  BY <1>1, <1>3, <1>4, QuietAppend
<1>6. Analysed' = Analysed
  BY <1>1, Proceeding DEF Analysed
<1> QED
  BY <1>1, <1>5, <1>6, ScannedSame

LEMMA ScannedAnalyzeDomain ==
    ASSUME TypeOK, Scanned, AnalyzeDomain
    PROVE  Scanned'
<1> PICK class : class = IF pkt.domain = "" THEN "clean" ELSE DomainClass[pkt.domain]
  OBVIOUS
<1>1. /\ pc = "domain" /\ alerts \in Seq(AnyAlert) /\ pkt.src \in IP
      /\ class # "clean" => pkt.domain \in Domain
      /\ UNCHANGED <<pkt, scannedPorts, alertedScanners>>
      /\ (UNCHANGED <<pc, handled>> \/ Proceed)
  BY Addresses DEF AnalyzeDomain, TypeOK, CaptureTypeOK
<1>2. Analysed' = Analysed
  BY <1>1, Proceeding DEF Analysed
<1>3. \/ alerts' = alerts
      \/ class # "clean" /\ alerts' = Append(alerts, Alert("Malicious Domain", pkt.src, pkt.domain))
      \/ class # "clean" /\ alerts' = Append(alerts, Alert("Suspicious Domain", pkt.src, pkt.domain))
  BY DEF AnalyzeDomain
<1>4. CASE alerts' = alerts
  BY <1>1, <1>2, <1>4, ScannedSame
<1>5. ASSUME NEW type \in {"Malicious Domain", "Suspicious Domain"}, class # "clean",
             alerts' = Append(alerts, Alert(type, pkt.src, pkt.domain))
      PROVE  Scanned'
  <2>1. PICK a : a = Alert(type, pkt.src, pkt.domain)
    OBVIOUS
  <2>2. a \in AnyAlert /\ a.type \notin ScanType
    BY <1>1, <1>5, <2>1 DEF Alert, AnyAlert, AlertType, Target, ScanType
  <2>3. /\ Of(alerts', ScanType) = Of(alerts, ScanType)
        /\ \A i \in Of(alerts, ScanType) : alerts'[i] = alerts[i]
    BY <1>1, <1>5, <2>1, <2>2, QuietAppend
  <2> QED
    BY <1>1, <1>2, <2>3, ScannedSame
<1> QED
  BY <1>3, <1>4, <1>5

LEMMA ScannedStep == TypeOK /\ InHand /\ Scanned /\ [Next]_vars => Scanned'
<1> SUFFICES ASSUME TypeOK, InHand, Scanned, [Next]_vars PROVE Scanned'
  OBVIOUS
<1>1. ASSUME UNCHANGED capture PROVE Scanned'
  BY <1>1, ScannedSame DEF capture, Analysed
<1>2. ASSUME NEW p \in Packet, NextPacket(p) PROVE Scanned'
  BY <1>2, ScannedSame DEF NextPacket, Analysed
<1>3. CASE AnalyzeIP
  <2>1. /\ pc \in {"src", "dst"} /\ UNCHANGED <<pkt, scannedPorts, alertedScanners, alerts>>
        /\ (UNCHANGED <<pc, handled>> \/ Proceed)
    BY <1>3 DEF AnalyzeIP
  <2>2. Analysed' = Analysed
    BY <2>1, Proceeding DEF Analysed
  <2> QED
    BY <2>1, <2>2, ScannedSame
<1>4. CASE PushBack \/ Switch
  BY <1>4, ScannedAdded DEF PushBack, Switch
<1>5. CASE Grow
  BY <1>1, <1>5 DEF Grow
<1>6. CASE List \/ Visit \/ Write \/ Dangle \/ Answer \/ Tick
  BY <1>1, <1>6 DEF List, Iterate, Visit, Write, Dangle, Answer, Tick
<1>7. ASSUME NEW i \in DOMAIN screen, NEW status \in {"ALLOWED", "BLOCKED"}, Decide(i, status) PROVE Scanned'
  BY <1>1, <1>7 DEF Decide, Iterate
<1>8. CASE UNCHANGED vars
  BY <1>1, <1>8 DEF vars
<1> QED
  BY <1>2, <1>3, <1>4, <1>5, <1>6, <1>7, <1>8, ScannedAnalyzePacket, ScannedAnalyzeDomain
     DEF Next, Capture, API

LEMMA InitScanned == Init => Scanned
<1> SUFFICES ASSUME Init PROVE Scanned
  OBVIOUS
<1>1. /\ pc = "idle" /\ alertedScanners = {} /\ alerts = <<>> /\ handled = {}
      /\ scannedPorts = [ip \in IP |-> {}]
  BY DEF Init
<1>2. \A ip \in IP : scannedPorts[ip] = {} /\ PortsMet(ip) = {}
  BY <1>1 DEF PortsMet, Analysed
<1>3. IsFiniteSet({}) /\ Cardinality({}) = 0
  BY FS_EmptySet
<1>4. ScansIn(alerts) = {}
  BY <1>1 DEF ScansIn, Of
<1>5. \A ip \in IP : ip \in alertedScanners <=> Cardinality(scannedPorts[ip]) >= ScanLimit
  BY <1>1, <1>2, <1>3, Bounds
<1>6. Scanners(alerts) = alertedScanners /\ ScansDiffer(alerts)
  BY <1>1, <1>4 DEF Scanners, ScansDiffer
<1> QED
  BY <1>2, <1>3, <1>5, <1>6 DEF Scanned

LEMMA ScannedSuffices == TypeOK /\ Scanned => ScanReportedOnce
<1> SUFFICES ASSUME TypeOK, Scanned PROVE ScanReportedOnce
  OBVIOUS
<1>1. PICK scans : scans = {i \in DOMAIN alerts : alerts[i].type = "Port Scan"}
  OBVIOUS
<1>2. scans = ScansIn(alerts)
  BY <1>1 DEF ScansIn, ScanType, Of
<1>3. \A i, j \in scans : alerts[i].source = alerts[j].source => i = j
  BY <1>2 DEF Scanned, ScansDiffer, Scanner
<1>4. ASSUME pc = "idle"
      PROVE  {alerts[i].source : i \in scans} = {ip \in IP : Cardinality(PortsOf(ip)) >= ScanLimit}
  <2>1. \A ip \in IP : scannedPorts[ip] = PortsOf(ip)
    BY <1>4 DEF Scanned, PortsMet, Analysed, PortsOf
  <2>2. alertedScanners \subseteq IP
    BY DEF TypeOK, CaptureTypeOK
  <2>3. alertedScanners = {ip \in IP : Cardinality(PortsOf(ip)) >= ScanLimit}
    BY <2>1, <2>2 DEF Scanned
  <2> QED
    BY <1>2, <2>3 DEF Scanned, Scanners, Scanner
<1> QED
  BY <1>1, <1>3, <1>4 DEF ScanReportedOnce

(* Every source that tried ScanLimit ports or more is reported, nobody else  *)
(* is, and nobody twice, whatever the limit and the rules.                   *)
THEOREM ScanReportedOnceCorrect == Spec => []ScanReportedOnce
<1>1. TypeOK /\ InHand /\ Scanned /\ [Next]_vars => TypeOK' /\ InHand' /\ Scanned'
  BY TypeStep, ScannedStep
<1> QED
  BY InitType, InitScanned, <1>1, ScannedSuffices, PTL DEF Spec

-----------------------------------------------------------------------------
(* Decisions                                                                 *)

Names(x, y) == x.id = y.id /\ x.target = y.target

(* A request has passed over other ids only, unless the vector grew under    *)
(* it; it goes to write where its id is; and what is decided, like what is   *)
(* on the screen, is in the vector.                                          *)
Sought ==
    /\ apiPc = "write" => transactions[apiAt].id = decision.id
    /\ apiPc \in {"find", "write"} /\ Stable
          => \A j \in 1..(apiAt - 1) : transactions[j].id # decision.id
    /\ apiPc \in {"find", "write"} => \E k \in 1..apiEnd : Names(transactions[k], decision)
    /\ \A i \in 1..Len(screen) : \E k \in 1..Len(transactions) : Names(transactions[k], screen[i])

(* The vector only grows; names stay, and only Write changes a status.       *)
VectorKept ==
    /\ Len(transactions) \in Nat /\ Len(transactions') \in Nat /\ Len(transactions) <= Len(transactions')
    /\ \A i \in 1..Len(transactions) :
          /\ Names(transactions'[i], transactions[i])
          /\ transactions'[i].status # transactions[i].status => (Write /\ i = apiAt)

LEMMA Writing ==
    ASSUME TypeOK, Write
    PROVE  /\ apiPc = "write" /\ Valid /\ Done /\ apiAt \in 1..Len(transactions)
           /\ Len(transactions') = Len(transactions)
           /\ Names(transactions'[apiAt], transactions[apiAt])
           /\ transactions'[apiAt].status = decision.status
           /\ \A i \in 1..Len(transactions) \ {apiAt} : transactions'[i] = transactions[i]
<1>1. /\ transactions' = [transactions EXCEPT ![apiAt].status = decision.status]
      /\ apiPc = "write" /\ Valid /\ Done
  BY DEF Write
<1>2. /\ apiAt \in 1..Len(transactions) /\ Len(transactions) \in Nat
      /\ transactions \in Seq(Transaction)
  BY <1>1 DEF TypeOK, ApiTypeOK, VectorTypeOK
<1>3. transactions[apiAt] \in Transaction
  BY <1>2
<1>4. PICK t : t = [transactions[apiAt] EXCEPT !.status = decision.status]
  OBVIOUS
<1>5. t.id = transactions[apiAt].id /\ t.target = transactions[apiAt].target /\ t.status = decision.status
  BY <1>3, <1>4 DEF Transaction
<1>6. transactions' = [transactions EXCEPT ![apiAt] = t]
  BY <1>1, <1>4
<1>7. /\ Len(transactions') = Len(transactions) /\ transactions'[apiAt] = t
      /\ \A i \in 1..Len(transactions) \ {apiAt} : transactions'[i] = transactions[i]
  BY <1>2, <1>6
<1> QED
  BY <1>1, <1>2, <1>5, <1>7 DEF Names

LEMMA VectorStep == TypeOK /\ InHand /\ [Next]_vars => VectorKept
<1> SUFFICES ASSUME TypeOK, InHand, [Next]_vars PROVE VectorKept
  OBVIOUS
<1>0. transactions \in Seq(Transaction) /\ Len(transactions) \in Nat
  BY DEF TypeOK, VectorTypeOK
<1>1. CASE UNCHANGED transactions
  BY <1>0, <1>1 DEF VectorKept, Names
<1>2. ASSUME NEW t \in pending, Added(t) PROVE VectorKept
  <2>1. t \in Transaction /\ transactions' = Append(transactions, t)
    BY <1>2, Adding DEF Added
  <2>2. /\ Len(transactions') = Len(transactions) + 1
        /\ \A i \in 1..Len(transactions) : transactions'[i] = transactions[i]
    BY <1>0, <2>1, PutOne
  <2> QED
    BY <1>0, <2>2 DEF VectorKept, Names
<1>3. CASE Write
  <2>1. /\ Len(transactions') = Len(transactions)
        /\ Names(transactions'[apiAt], transactions[apiAt])
        /\ \A i \in 1..Len(transactions) \ {apiAt} : transactions'[i] = transactions[i]
    BY <1>3, Writing
  <2> QED
    BY <1>0, <1>3, <2>1 DEF VectorKept, Names
<1>4. CASE PushBack \/ Switch
  BY <1>2, <1>4 DEF PushBack, Switch
<1>5. ASSUME UNCHANGED vector PROVE VectorKept
  BY <1>1, <1>5 DEF vector
<1>6. ASSUME NEW p \in Packet, NextPacket(p) PROVE VectorKept
  BY <1>5, <1>6 DEF NextPacket
<1>7. CASE AnalyzePacket \/ AnalyzeIP \/ AnalyzeDomain
  BY <1>5, <1>7 DEF AnalyzePacket, AnalyzeIP, AnalyzeDomain
<1>8. CASE Grow
  BY <1>1, <1>8 DEF Grow
<1>9. CASE List \/ Visit \/ Dangle \/ Answer \/ Tick
  BY <1>5, <1>9 DEF List, Iterate, Visit, Dangle, Answer, Tick
<1>10. ASSUME NEW i \in DOMAIN screen, NEW status \in {"ALLOWED", "BLOCKED"}, Decide(i, status) PROVE VectorKept
  BY <1>5, <1>10 DEF Decide, Iterate
<1>11. CASE UNCHANGED vars
  BY <1>5, <1>11 DEF vars
<1> QED
  BY <1>3, <1>4, <1>6, <1>7, <1>8, <1>9, <1>10, <1>11 DEF Next, Capture, API

LEMMA SoughtCarried ==
    ASSUME TypeOK, Sought, VectorKept, UNCHANGED api, Stable' => Stable
    PROVE  Sought'
<1>1. /\ apiEnd \in 0..Len(transactions) /\ apiAt \in 1..(apiEnd + 1)
      /\ apiPc = "write" => apiAt <= apiEnd
      /\ Len(transactions) \in Nat /\ Len(transactions') \in Nat /\ Len(transactions) <= Len(transactions')
  BY DEF TypeOK, ApiTypeOK, VectorKept
<1>2. UNCHANGED <<apiPc, apiAt, apiEnd, decision, screen>>
  BY DEF api
<1>3. \A i \in 1..Len(transactions) :
         transactions'[i].id = transactions[i].id /\ transactions'[i].target = transactions[i].target
  BY DEF VectorKept, Names
<1>4. apiPc' = "write" => transactions'[apiAt'].id = decision'.id
  BY <1>1, <1>2, <1>3 DEF Sought
<1>5. apiPc' \in {"find", "write"} /\ Stable'
         => \A j \in 1..(apiAt' - 1) : transactions'[j].id # decision'.id
  <2> SUFFICES ASSUME apiPc \in {"find", "write"}, Stable, NEW j \in 1..(apiAt - 1)
               PROVE  transactions'[j].id # decision.id
    BY <1>2
  <2>1. transactions[j].id # decision.id
    BY DEF Sought
  <2>2. j \in 1..Len(transactions)
    BY <1>1
  <2> QED
    BY <1>3, <2>1, <2>2
<1>6. apiPc' \in {"find", "write"} => \E k \in 1..apiEnd' : Names(transactions'[k], decision')
  <2> SUFFICES ASSUME apiPc \in {"find", "write"} PROVE \E k \in 1..apiEnd : Names(transactions'[k], decision)
    BY <1>2
  <2>1. PICK k \in 1..apiEnd : Names(transactions[k], decision)
    BY DEF Sought
  <2>2. k \in 1..Len(transactions)
    BY <1>1
  <2> QED
    BY <1>3, <2>1, <2>2 DEF Names
<1>7. \A i \in 1..Len(screen') : \E k \in 1..Len(transactions') : Names(transactions'[k], screen'[i])
  <2> SUFFICES ASSUME NEW i \in 1..Len(screen)
               PROVE  \E k \in 1..Len(transactions') : Names(transactions'[k], screen[i])
    BY <1>2
  <2>1. PICK k \in 1..Len(transactions) : Names(transactions[k], screen[i])
    BY DEF Sought
  <2>2. k \in 1..Len(transactions')
    BY <1>1
  <2> QED
    BY <1>3, <2>1, <2>2 DEF Names
<1> QED
  BY <1>4, <1>5, <1>6, <1>7 DEF Sought

LEMMA SoughtAnswered ==
    ASSUME TypeOK, Sought, VectorKept, Done
    PROVE  Sought'
<1>1. apiPc' = "idle" /\ screen' = screen
  BY DEF Done
<1>2. Len(transactions) \in Nat /\ Len(transactions') \in Nat /\ Len(transactions) <= Len(transactions')
  BY DEF VectorKept
<1>3. ASSUME NEW i \in 1..Len(screen)
      PROVE  \E k \in 1..Len(transactions') : Names(transactions'[k], screen[i])
  <2>1. PICK k \in 1..Len(transactions) : Names(transactions[k], screen[i])
    BY DEF Sought
  <2>2. k \in 1..Len(transactions') /\ Names(transactions'[k], transactions[k])
    BY <1>2 DEF VectorKept
  <2> QED
    BY <2>1, <2>2 DEF Names
<1> QED
  BY <1>1, <1>3 DEF Sought

LEMMA SoughtDecide ==
    ASSUME TypeOK, Sought, NEW i \in DOMAIN screen, NEW status \in {"ALLOWED", "BLOCKED"}, Decide(i, status)
    PROVE  Sought'
<1>1. /\ apiPc' = "find" /\ apiAt' = 1 /\ apiEnd' = Len(transactions) /\ UNCHANGED <<vector, screen>>
      /\ decision'.id = screen[i].id /\ decision'.target = screen[i].target
  BY DEF Decide, Iterate
<1>2. UNCHANGED transactions
  BY <1>1 DEF vector
<1>3. i \in 1..Len(screen)
  BY Elements DEF TypeOK, ApiTypeOK
<1>4. PICK k \in 1..Len(transactions) : Names(transactions[k], screen[i])
  BY <1>3 DEF Sought
<1>5. Names(transactions'[k], decision')
  BY <1>1, <1>2, <1>4 DEF Names
<1>6. \A j \in 1..(apiAt' - 1) : transactions'[j].id # decision'.id
  BY <1>1
<1>7. \A j \in 1..Len(screen') : \E n \in 1..Len(transactions') : Names(transactions'[n], screen'[j])
  BY <1>1, <1>2 DEF Sought
<1> QED
  BY <1>1, <1>4, <1>5, <1>6, <1>7 DEF Sought

LEMMA SoughtList ==
    ASSUME Sought, List
    PROVE  Sought'
<1>1. apiPc' = "list" /\ screen' = <<>>
  BY DEF List, Iterate
<1>2. Len(screen') = 0
  BY <1>1
<1> QED
  BY <1>1, <1>2 DEF Sought

LEMMA SoughtVisit ==
    ASSUME TypeOK, Sought, Visit
    PROVE  Sought'
<1>1. /\ apiPc \in {"list", "find"} /\ apiAt <= apiEnd
      /\ UNCHANGED <<vector, apiEnd, apiStorage, decision>>
      /\ screen' = IF apiPc = "list" THEN Append(screen, Current) ELSE screen
      /\ IF apiPc = "find" /\ Current.id = decision.id
         THEN apiPc' = "write" /\ UNCHANGED apiAt
         ELSE apiAt' = apiAt + 1 /\ UNCHANGED apiPc
  BY DEF Visit
<1>2. UNCHANGED <<transactions, growing, storage>> /\ Stable' = Stable
  BY <1>1 DEF vector, Stable, Valid
<1>3. apiAt \in 1..apiEnd /\ apiEnd \in 0..Len(transactions) /\ Len(transactions) \in Nat
      /\ transactions \in Seq(Transaction) /\ screen \in Seq(Transaction)
  BY <1>1 DEF TypeOK, ApiTypeOK, VectorTypeOK
<1>4. CASE apiPc = "list"
  <2>1. PICK t : t = Current
    OBVIOUS
  <2>2. t = transactions[apiAt] /\ apiAt \in 1..Len(transactions) /\ t \in Transaction
    BY <1>3, <2>1 DEF Current
  <2>3. screen' = Append(screen, t) /\ apiPc' = "list"
    BY <1>1, <1>4, <2>1
  <2>4. /\ Len(screen') = Len(screen) + 1 /\ Len(screen) \in Nat
        /\ \A i \in 1..Len(screen) : screen'[i] = screen[i]
        /\ screen'[Len(screen) + 1] = t
    BY <1>3, <2>2, <2>3, PutOne
  <2>5. \A i \in 1..Len(screen') : i \in 1..Len(screen) \/ i = Len(screen) + 1
    BY <2>4
  <2>6. ASSUME NEW i \in 1..Len(screen') PROVE \E k \in 1..Len(transactions) : Names(transactions[k], screen'[i])
    <3>1. CASE i \in 1..Len(screen)
      BY <2>4, <3>1 DEF Sought
    <3>2. CASE i = Len(screen) + 1
      BY <2>2, <2>4, <3>2 DEF Names
    <3> QED
      BY <2>5, <3>1, <3>2
  <2> QED
    BY <1>2, <2>3, <2>6 DEF Sought
<1>5. CASE apiPc = "find"
  <2>1. screen' = screen /\ \A i \in 1..Len(screen') : \E k \in 1..Len(transactions') : Names(transactions'[k], screen'[i])
    BY <1>1, <1>2, <1>5 DEF Sought
  <2>2. \E k \in 1..apiEnd' : Names(transactions'[k], decision')
    BY <1>1, <1>2, <1>5 DEF Sought
  <2>3. CASE Current.id = decision.id
    <3>1. apiPc' = "write" /\ apiAt' = apiAt
      BY <1>1, <1>5, <2>3
    <3>2. transactions'[apiAt'].id = decision'.id
      BY <1>1, <1>2, <2>3, <3>1 DEF Current
    <3>3. Stable' => \A j \in 1..(apiAt' - 1) : transactions'[j].id # decision'.id
      BY <1>1, <1>2, <1>5, <3>1 DEF Sought
    <3> QED
      BY <2>1, <2>2, <3>2, <3>3 DEF Sought
  <2>4. CASE Current.id # decision.id
    <3>1. apiPc' = "find" /\ apiAt' = apiAt + 1
      BY <1>1, <1>5, <2>4
    <3>2. \A j \in 1..(apiAt' - 1) : j \in 1..(apiAt - 1) \/ j = apiAt
      BY <1>3, <3>1
    <3>3. Stable' => \A j \in 1..(apiAt' - 1) : transactions'[j].id # decision'.id
      BY <1>1, <1>2, <1>5, <2>4, <3>2 DEF Sought, Current
    <3> QED
      BY <2>1, <2>2, <3>1, <3>3 DEF Sought
  <2> QED
    BY <2>3, <2>4
<1> QED
  BY <1>1, <1>4, <1>5

LEMMA SoughtDangle ==
    ASSUME TypeOK, Sought, VectorKept, Dangle
    PROVE  Sought'
<1>1. ~Stable /\ UNCHANGED vector
  BY DEF Dangle
<1>2. CASE UNCHANGED api
  <2>1. Stable' = Stable
    BY <1>1, <1>2 DEF api, vector, Stable, Valid
  <2> QED
    BY <1>2, <2>1, SoughtCarried
<1>3. CASE Done
  BY <1>3, SoughtAnswered
<1>4. CASE apiPc # "write" /\ UNCHANGED <<apiPc, apiEnd, apiStorage, decision, screen>>
  <2>1. ~Stable' /\ UNCHANGED transactions
    BY <1>1, <1>4 DEF vector, Stable, Valid
  <2> QED
    BY <1>4, <2>1 DEF Sought
<1> QED
  BY <1>2, <1>3, <1>4 DEF Dangle

LEMMA SoughtStep == TypeOK /\ InHand /\ Sought /\ [Next]_vars => Sought'
<1> SUFFICES ASSUME TypeOK, InHand, Sought, [Next]_vars PROVE Sought'
  OBVIOUS
<1>0. VectorKept
  BY VectorStep
<1>1. ASSUME UNCHANGED <<api, vector>> PROVE Sought'
  <2>1. Stable' = Stable
    BY <1>1 DEF api, vector, Stable, Valid
  <2> QED
    BY <1>0, <1>1, <2>1, SoughtCarried
<1>2. ASSUME NEW p \in Packet, NextPacket(p) PROVE Sought'
  BY <1>1, <1>2 DEF NextPacket
<1>3. CASE AnalyzePacket \/ AnalyzeIP \/ AnalyzeDomain
  BY <1>1, <1>3 DEF AnalyzePacket, AnalyzeIP, AnalyzeDomain
<1>4. CASE PushBack
  <2>1. UNCHANGED api /\ UNCHANGED <<growing, storage>>
    BY <1>4 DEF PushBack, Added
  <2>2. Stable' = Stable
    BY <2>1 DEF api, Stable, Valid
  <2> QED
    BY <1>0, <2>1, <2>2, SoughtCarried
<1>5. CASE Grow
  <2>1. UNCHANGED api /\ growing' = TRUE
    BY <1>5 DEF Grow
  <2>2. ~Stable'
    BY <2>1 DEF Stable
  <2> QED
    BY <1>0, <2>1, <2>2, SoughtCarried
<1>6. CASE Switch
  <2>1. UNCHANGED api /\ storage' = storage + 1
    BY <1>6 DEF Switch, Added
  <2>2. storage \in Nat /\ apiStorage \in 0..storage /\ apiStorage' = apiStorage
    BY <2>1 DEF TypeOK, VectorTypeOK, ApiTypeOK, api
  <2>3. ~Stable'
    BY <2>1, <2>2 DEF Stable, Valid
  <2> QED
    BY <1>0, <2>1, <2>3, SoughtCarried
<1>7. ASSUME NEW i \in DOMAIN screen, NEW status \in {"ALLOWED", "BLOCKED"}, Decide(i, status) PROVE Sought'
  BY <1>7, SoughtDecide
<1>8. CASE Write \/ Answer
  BY <1>0, <1>8, SoughtAnswered DEF Write, Answer
<1>9. CASE List \/ Visit \/ Dangle
  BY <1>0, <1>9, SoughtList, SoughtVisit, SoughtDangle
<1>10. CASE Tick
  BY <1>1, <1>10 DEF Tick
<1>11. CASE UNCHANGED vars
  BY <1>1, <1>11 DEF vars
<1> QED
  BY <1>2, <1>3, <1>4, <1>5, <1>6, <1>7, <1>8, <1>9, <1>10, <1>11 DEF Next, Capture, API

LEMMA InitSought == Init => Sought
<1> SUFFICES ASSUME Init PROVE Sought
  OBVIOUS
<1>1. apiPc = "idle" /\ Len(screen) = 0
  BY DEF Init
<1> QED
  BY <1>1 DEF Sought

LEMMA LandsStep == TypeOK /\ InHand /\ Sought /\ [Next]_vars => Lands
<1> SUFFICES ASSUME TypeOK, InHand, Sought, [Next]_vars, apiPc \in {"find", "write"}, apiPc' = "idle", Stable
             PROVE  \E i \in DOMAIN transactions' :
                       transactions'[i].id = decision.id /\ transactions'[i].status = decision.status
  BY DEF Lands
<1>1. CASE Write
  <2>1. /\ apiPc = "write" /\ apiAt \in 1..Len(transactions) /\ Len(transactions') = Len(transactions)
        /\ transactions'[apiAt].id = transactions[apiAt].id /\ transactions'[apiAt].status = decision.status
    BY <1>1, Writing DEF Names
  <2>2. transactions[apiAt].id = decision.id
    BY <2>1 DEF Sought
  <2>3. apiAt \in DOMAIN transactions'
    BY <2>1, TypeStep, Elements DEF TypeOK, VectorTypeOK
  <2> QED
    BY <2>1, <2>2, <2>3
<1>2. CASE Answer
  <2>1. apiAt > apiEnd /\ apiPc = "find" /\ apiAt \in 1..(apiEnd + 1) /\ apiEnd \in Nat
    BY <1>2 DEF Answer, TypeOK, ApiTypeOK, VectorTypeOK
  <2>2. PICK k \in 1..apiEnd : transactions[k].id = decision.id
    BY DEF Sought, Names
  <2>3. k \in 1..(apiAt - 1)
    BY <2>1
  <2> QED
    BY <2>2, <2>3 DEF Sought
<1>3. CASE UNCHANGED api
  BY <1>3 DEF api
<1>4. ASSUME NEW p \in Packet, NextPacket(p) PROVE UNCHANGED api
  BY <1>4 DEF NextPacket
<1>5. CASE AnalyzePacket \/ AnalyzeIP \/ AnalyzeDomain \/ PushBack \/ Grow \/ Switch \/ Tick
  BY <1>3, <1>5 DEF AnalyzePacket, AnalyzeIP, AnalyzeDomain, PushBack, Grow, Switch, Added, Tick
<1>6. CASE List \/ Visit \/ Dangle
  BY <1>6 DEF List, Iterate, Visit, Dangle
<1>7. ASSUME NEW i \in DOMAIN screen, NEW status \in {"ALLOWED", "BLOCKED"}, Decide(i, status) PROVE FALSE
  BY <1>7 DEF Decide, Iterate
<1>8. CASE UNCHANGED vars
  BY <1>3, <1>8 DEF vars
<1> QED
  BY <1>1, <1>2, <1>3, <1>4, <1>5, <1>6, <1>7, <1>8 DEF Next, Capture, API

LEMMA HitsStep == TypeOK /\ InHand /\ Sought /\ [Next]_vars => HitsFirstOfSecond
<1> SUFFICES ASSUME TypeOK, InHand, Sought, [Next]_vars,
                    NEW i \in DOMAIN transactions, transactions'[i].status # transactions[i].status
             PROVE  /\ apiPc = "write" /\ transactions[i].id = decision.id
                    /\ \E k \in DOMAIN transactions :
                          /\ transactions[k].id = decision.id /\ transactions[k].target = decision.target
                          /\ Stable => k >= i
                    /\ Stable => \A j \in 1..i - 1 : transactions[j].id # decision.id
  BY DEF HitsFirstOfSecond
<1>1. DOMAIN transactions = 1..Len(transactions) /\ Len(transactions) \in Nat
  BY Elements DEF TypeOK, VectorTypeOK
<1>2. Write /\ i = apiAt
  BY <1>1, VectorStep DEF VectorKept
<1>3. apiPc = "write" /\ apiEnd \in 0..Len(transactions) /\ apiAt \in 1..Len(transactions)
  BY <1>2, Writing DEF TypeOK, ApiTypeOK
<1>4. transactions[i].id = decision.id
  BY <1>2, <1>3 DEF Sought
<1>5. PICK k \in 1..apiEnd : transactions[k].id = decision.id /\ transactions[k].target = decision.target
  BY <1>3 DEF Sought, Names
<1>6. Stable => \A j \in 1..(i - 1) : transactions[j].id # decision.id
  BY <1>2, <1>3 DEF Sought
<1>7. Stable => k >= i
  <2>1. k < i => k \in 1..(i - 1)
    BY <1>1, <1>2, <1>3
  <2> QED
    BY <1>2, <1>3, <1>5, <1>6, <2>1
<1>8. k \in DOMAIN transactions
  BY <1>1, <1>3, <1>5
<1> QED
  BY <1>3, <1>4, <1>5, <1>6, <1>7, <1>8

(* Where no growth of the vector overlaps it, a decision finds a transaction *)
(* with its id and gives it its status (transaction_manager.cpp:15-45).      *)
THEOREM DecisionLandsCorrect == Spec => DecisionLands
<1>1. TypeOK /\ InHand /\ Sought /\ [Next]_vars => [Lands]_vars
  BY LandsStep
<1> QED
  BY <1>1, InitType, InitSought, TypeStep, SoughtStep, PTL DEF Spec, DecisionLands

(* Only a decision changes a status, of a transaction with its id, and where *)
(* the vector does not grow meanwhile of the first such, which is never      *)
(* after the chosen one (transaction_manager.cpp:15-45).                     *)
THEOREM DecisionHitsFirstCorrect == Spec => DecisionHitsFirst
<1>1. TypeOK /\ InHand /\ Sought /\ [Next]_vars => [HitsFirstOfSecond]_vars
  BY HitsStep
<1> QED
  BY <1>1, InitType, InitSought, TypeStep, SoughtStep, PTL DEF Spec, DecisionHitsFirst
=============================================================================
