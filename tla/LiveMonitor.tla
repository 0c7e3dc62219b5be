------------------------------ MODULE LiveMonitor ------------------------------
(* The live monitor: the capture loop of src/live_capture.cpp with the       *)
(* ThreatDetector it calls for each packet, the TransactionManager, and the  *)
(* thread of the API server, which lists the transactions and decides them   *)
(* for an operator.  The two threads share transactions_, a std::vector,     *)
(* without a lock: to grow, push_back moves the elements to new storage and  *)
(* frees the old.  While it moves them, what the other thread does there may *)
(* meet an element or its empty remains; afterwards its reads find nothing   *)
(* and its writes are lost, or the process dies.                             *)
EXTENDS Naturals, Sequences, FiniteSets

CONSTANTS
    Packet,      (* TCP and UDP packets: src, dst, dport, and domain or ""     *)
    PortRules,   (* names of the rules of rules_ for each port, in order       *)
    BadIP,       (* addresses of ipRules_                                      *)
    DomainClass, (* what analyzeDomain takes a domain for                      *)
    Ignored,     (* packets from a DNS server or to a multicast address        *)
    ScanLimit,   (* distinct ports that make a port scan                       *)
    MaxPackets,  (* bound: packets                                             *)
    MaxTime,     (* bound: seconds                                             *)
    MaxRequests  (* bound: requests to the API                                 *)

IP == {p.src : p \in Packet} \cup {p.dst : p \in Packet}
Port == {p.dport : p \in Packet}
Domain == {p.domain : p \in Packet} \ {""}

(* Rules of rules_ have names of their own. *)
RuleName == UNION {{PortRules[port][i] : i \in DOMAIN PortRules[port]} : port \in Port}

(* Reasons of a transaction, and the types of the alerts raised with it.     *)
Case == {"Malicious IP", "Blocked Domain"}

ASSUME LiveAssumption ==
    /\ Packet # {} /\ ScanLimit \in Nat \ {0}
    /\ MaxPackets \in Nat /\ MaxTime \in Nat /\ MaxRequests \in Nat
    /\ BadIP \subseteq IP /\ Ignored \subseteq Packet
    /\ DomainClass \in [Domain -> {"blocked", "malicious", "suspicious", "clean"}]
    /\ \A port \in Port : PortRules[port] \in Seq(RuleName)
    /\ RuleName \cap ({"Port Scan"} \cup Case) = {}

VARIABLES
    pc, pkt,         (* where the capture loop is with its packet               *)
    scannedPorts, alertedScanners, alertedIPs, alertedDomains, alerts,
    transactions,    (* transactions_                                           *)
    capacity,        (* of its storage                                          *)
    storage,         (* number of that storage: it changes when the vector grows *)
    growing,         (* push_back is moving the elements                        *)
    pending,         (* the transaction being added, if any                     *)
    apiPc, apiAt, apiEnd, apiStorage,  (* the API thread and its iterators      *)
    decision,        (* what the operator asks for                              *)
    screen,          (* the transactions the operator sees                      *)
    now, packets, requests,
    dead,            (* the process died                                        *)
    handled          (* history: packets analysed                               *)

capture == <<pc, pkt, scannedPorts, alertedScanners, alertedIPs, alertedDomains,
             alerts, pending, packets, handled>>
vector == <<transactions, capacity, storage, growing>>
api == <<apiPc, apiAt, apiEnd, apiStorage, decision, screen, requests>>
vars == <<capture, vector, api, now, dead>>

Target == IP \cup Domain
Status == {"PENDING", "ALLOWED", "BLOCKED"}
Transaction == [id : 0..MaxTime, reason : Case, target : Target, source : IP, status : Status]
Alert(type, source, details) == [type |-> type, source |-> source, details |-> details]
AlertType == {"Port Scan", "Malicious Domain", "Suspicious Domain"} \cup Case \cup RuleName
AnyAlert == [type : AlertType, source : IP, details : Port \cup Target \cup {""}]

CaptureTypeOK ==
    /\ pc \in {"idle", "packet", "src", "dst", "domain"} /\ pkt \in Packet
    /\ scannedPorts \in [IP -> SUBSET Port]
    /\ alertedScanners \subseteq IP /\ alertedIPs \subseteq BadIP
    /\ alertedDomains \subseteq Domain /\ alerts \in Seq(AnyAlert)
    /\ pending \subseteq Transaction /\ Cardinality(pending) <= 1
    /\ packets \in 0..MaxPackets /\ handled \subseteq Packet

VectorTypeOK ==
    /\ transactions \in Seq(Transaction)
    /\ capacity \in Nat /\ Len(transactions) <= capacity
    /\ storage \in Nat /\ growing \in BOOLEAN
    /\ growing => pending # {}

ApiTypeOK ==
    /\ apiPc \in {"idle", "list", "find", "write"}
    /\ apiEnd \in 0..Len(transactions) /\ apiAt \in 1..(apiEnd + 1) /\ apiStorage \in 0..storage
    /\ apiPc = "write" => apiAt <= apiEnd
    /\ screen \in Seq(Transaction)
    /\ decision \in {[id |-> t.id, target |-> t.target, status |-> s] :
                         t \in Transaction, s \in Status}
    /\ requests \in 0..MaxRequests

TypeOK == CaptureTypeOK /\ VectorTypeOK /\ ApiTypeOK /\ now \in 0..MaxTime /\ dead \in BOOLEAN

Init ==
    /\ pc = "idle" /\ pkt = CHOOSE p \in Packet : TRUE
    /\ scannedPorts = [ip \in IP |-> {}]
    /\ alertedScanners = {} /\ alertedIPs = {} /\ alertedDomains = {}
    /\ alerts = <<>>
    /\ transactions = <<>> /\ capacity = 0 /\ storage = 0 /\ growing = FALSE
    /\ pending = {}
    /\ apiPc = "idle" /\ apiAt = 1 /\ apiEnd = 0 /\ apiStorage = 0
    /\ decision = [id |-> 0, target |-> pkt.src, status |-> "PENDING"]
    /\ screen = <<>>
    /\ now = 0 /\ packets = 0 /\ requests = 0
    /\ dead = FALSE /\ handled = {}

-----------------------------------------------------------------------------
(* The capture loop: analyzePacket, analyzeIP of the source, analyzeIP of    *)
(* the destination and, when a name was found, analyzeDomain.                *)
After == [packet |-> "src", src |-> "dst", dst |-> "domain", domain |-> "idle"]

Proceed ==
    /\ pc' = After[pc]
    /\ handled' = IF pc = "domain" THEN handled \cup {pkt} ELSE handled

NextPacket(p) ==
    /\ pc = "idle" /\ packets < MaxPackets
    /\ pkt' = p /\ pc' = "packet" /\ packets' = packets + 1
    /\ UNCHANGED <<scannedPorts, alertedScanners, alertedIPs, alertedDomains, alerts,
                   pending, handled>>
    /\ UNCHANGED <<vector, api, now, dead>>

(* Mutant of Scans: a scanner is reported for every packet. *)
ScansAgain(ports) == Cardinality(ports) >= ScanLimit

Scans(ports) == Cardinality(ports) >= ScanLimit /\ pkt.src \notin alertedScanners

RuleAlerts == [i \in DOMAIN PortRules[pkt.dport] |->
                   Alert(PortRules[pkt.dport][i], pkt.src, pkt.dport)]

AnalyzePacket ==
    /\ pc = "packet"
    /\ LET ports == scannedPorts[pkt.src] \cup {pkt.dport}
           scan == IF Scans(ports) THEN <<Alert("Port Scan", pkt.src, "")>> ELSE <<>>
       IN IF pkt \in Ignored
          THEN UNCHANGED <<scannedPorts, alertedScanners, alerts>>
          ELSE /\ scannedPorts' = [scannedPorts EXCEPT ![pkt.src] = ports]
               /\ alerts' = alerts \o RuleAlerts \o scan
               /\ alertedScanners' = IF Scans(ports) THEN alertedScanners \cup {pkt.src}
                                                     ELSE alertedScanners
    /\ Proceed
    /\ UNCHANGED <<pkt, alertedIPs, alertedDomains, pending, packets>>
    /\ UNCHANGED <<vector, api, now, dead>>

Pending(reason, target, source) ==
    [id |-> now, reason |-> reason, target |-> target, source |-> source, status |-> "PENDING"]

(* Mutant of AnalyzeIP: alertedIPs_ never learns. *)
AnalyzeIPForgets ==
    /\ pc \in {"src", "dst"} /\ pending = {}
    /\ IF pkt[pc] \in BadIP \ alertedIPs
       THEN pending' = {Pending("Malicious IP", pkt[pc], pkt[pc])} /\ UNCHANGED <<pc, handled>>
       ELSE Proceed /\ UNCHANGED pending
    /\ UNCHANGED <<pkt, scannedPorts, alertedScanners, alertedIPs, alertedDomains, alerts, packets>>
    /\ UNCHANGED <<vector, api, now, dead>>

(* analyzeIP up to addTransaction *)
AnalyzeIP ==
    /\ pc \in {"src", "dst"} /\ pending = {}
    /\ LET ip == pkt[pc] IN
       IF ip \in BadIP \ alertedIPs
       THEN /\ alertedIPs' = alertedIPs \cup {ip}
            /\ pending' = {Pending("Malicious IP", ip, ip)}
            /\ UNCHANGED <<pc, handled>>
       ELSE Proceed /\ UNCHANGED <<alertedIPs, pending>>
    /\ UNCHANGED <<pkt, scannedPorts, alertedScanners, alertedDomains, alerts, packets>>
    /\ UNCHANGED <<vector, api, now, dead>>

(* analyzeDomain up to addTransaction, when the packet has a name *)
AnalyzeDomain ==
    /\ pc = "domain" /\ pending = {}
    /\ LET class == IF pkt.domain = "" THEN "clean" ELSE DomainClass[pkt.domain]
           fresh == pkt.domain \notin alertedDomains
       IN /\ alertedDomains' = IF fresh /\ class \in {"blocked", "suspicious"}
                               THEN alertedDomains \cup {pkt.domain} ELSE alertedDomains
          /\ alerts' = CASE class = "malicious" ->
                              Append(alerts, Alert("Malicious Domain", pkt.src, pkt.domain))
                         [] class = "suspicious" /\ fresh ->
                              Append(alerts, Alert("Suspicious Domain", pkt.src, pkt.domain))
                         [] OTHER -> alerts
          /\ IF class = "blocked" /\ fresh
             THEN pending' = {Pending("Blocked Domain", pkt.domain, pkt.src)} /\ UNCHANGED <<pc, handled>>
             ELSE Proceed /\ UNCHANGED pending
    /\ UNCHANGED <<pkt, scannedPorts, alertedScanners, alertedIPs, packets>>
    /\ UNCHANGED <<vector, api, now, dead>>

-----------------------------------------------------------------------------
(* addTransaction, and the alert that follows it. *)
Added(t) ==
    /\ transactions' = Append(transactions, t)
    /\ alerts' = Append(alerts, Alert(t.reason, t.source,
                                      IF pc = "domain" THEN t.target ELSE ""))
    /\ pending' = {}
    /\ Proceed
    /\ UNCHANGED <<pkt, scannedPorts, alertedScanners, alertedIPs, alertedDomains, packets>>
    /\ UNCHANGED <<api, now, dead>>

(* Mutant of PushBack: the room is not tested. *)
PushBackAnyway ==
    /\ \E t \in pending : Added(t)
    /\ UNCHANGED <<capacity, storage, growing>>

PushBack ==
    /\ Len(transactions) < capacity
    /\ \E t \in pending : Added(t)
    /\ UNCHANGED <<capacity, storage, growing>>

(* No room: the elements are moved ... *)
Grow ==
    /\ pending # {} /\ Len(transactions) = capacity /\ ~growing
    /\ growing' = TRUE
    /\ UNCHANGED <<capture, transactions, capacity, storage, api, now, dead>>

(* ... and the old storage is freed. *)
Switch ==
    /\ growing
    /\ \E t \in pending : Added(t)
    /\ capacity' = IF capacity = 0 THEN 1 ELSE 2 * capacity
    /\ storage' = storage + 1
    /\ growing' = FALSE

-----------------------------------------------------------------------------
(* The API thread.  A request iterates over the storage it finds.            *)
Iterate(kind) ==
    /\ apiPc = "idle" /\ requests < MaxRequests
    /\ apiPc' = kind /\ apiAt' = 1 /\ apiEnd' = Len(transactions) /\ apiStorage' = storage
    /\ requests' = requests + 1
    /\ UNCHANGED <<capture, vector, now, dead>>

(* GET /transactions *)
List == Iterate("list") /\ screen' = <<>> /\ UNCHANGED decision

(* GET /transaction/allow and /transaction/block: the operator decides one   *)
(* of the transactions on the screen, the request names its id.              *)
Decide(i, status) ==
    /\ Iterate("find")
    /\ decision' = [id |-> screen[i].id, target |-> screen[i].target, status |-> status]
    /\ UNCHANGED screen

Valid == apiStorage = storage
Stable == Valid /\ ~growing
Current == transactions[apiAt]

(* Mutant of Visit: a transaction that matches is passed over. *)
VisitPast ==
    /\ apiPc \in {"list", "find"} /\ apiAt <= apiEnd /\ Valid
    /\ apiAt' = apiAt + 1
    /\ screen' = IF apiPc = "list" THEN Append(screen, Current) ELSE screen
    /\ UNCHANGED <<apiPc, apiEnd, apiStorage, decision, requests, capture, vector, now, dead>>

(* Mutant of Visit: the first undecided transaction is taken, whatever its id. *)
VisitPending ==
    /\ apiPc \in {"list", "find"} /\ apiAt <= apiEnd /\ Valid
    /\ IF apiPc = "find" /\ Current.status = "PENDING"
       THEN apiPc' = "write" /\ UNCHANGED apiAt
       ELSE apiAt' = apiAt + 1 /\ UNCHANGED apiPc
    /\ screen' = IF apiPc = "list" THEN Append(screen, Current) ELSE screen
    /\ UNCHANGED <<apiEnd, apiStorage, decision, requests, capture, vector, now, dead>>

(* One element is read: appended to the reply, or compared with the id.      *)
Visit ==
    /\ apiPc \in {"list", "find"} /\ apiAt <= apiEnd /\ Valid
    /\ IF apiPc = "find" /\ Current.id = decision.id
       THEN apiPc' = "write" /\ UNCHANGED apiAt
       ELSE apiAt' = apiAt + 1 /\ UNCHANGED apiPc
    /\ screen' = IF apiPc = "list" THEN Append(screen, Current) ELSE screen
    /\ UNCHANGED <<apiEnd, apiStorage, decision, requests, capture, vector, now, dead>>

(* The request is answered; its iterators end with it. *)
Done ==
    /\ apiPc' = "idle" /\ apiAt' = 1 /\ apiEnd' = 0 /\ apiStorage' = 0
    /\ UNCHANGED <<decision, screen, requests>>

Write ==
    /\ apiPc = "write" /\ Valid
    /\ transactions' = [transactions EXCEPT ![apiAt].status = decision.status]
    /\ Done
    /\ UNCHANGED <<capture, capacity, storage, growing, now, dead>>

(* The element was moved away, or its storage freed.                         *)
Dangle ==
    /\ ~Stable
    /\ \/ apiPc \in {"list", "find"} /\ apiAt <= apiEnd
       \/ apiPc = "write"
    /\ \/ ~Valid /\ dead' = TRUE /\ UNCHANGED api
       \/ apiPc = "write" /\ Done /\ UNCHANGED dead
       \/ /\ apiPc # "write" /\ apiAt' = apiAt + 1
          /\ UNCHANGED <<apiPc, apiEnd, apiStorage, decision, screen, requests, dead>>
    /\ UNCHANGED <<capture, vector, now>>

(* The end of the vector: the request is answered, with success for a        *)
(* decision whether or not its id was found.                                 *)
Answer ==
    /\ apiPc \in {"list", "find"} /\ apiAt > apiEnd
    /\ Done
    /\ UNCHANGED <<capture, vector, now, dead>>

Tick ==
    /\ now < MaxTime /\ now' = now + 1
    /\ UNCHANGED <<capture, vector, api, dead>>

Capture ==
    \/ \E p \in Packet : NextPacket(p)
    \/ AnalyzePacket \/ AnalyzeIP \/ AnalyzeDomain
    \/ PushBack \/ Grow \/ Switch

API ==
    \/ List
    \/ \E i \in DOMAIN screen, status \in {"ALLOWED", "BLOCKED"} : Decide(i, status)
    \/ Visit \/ Write \/ Dangle \/ Answer

Next == ~dead /\ (Capture \/ API \/ Tick)

Spec == Init /\ [][Next]_vars

-----------------------------------------------------------------------------
(* Bad addresses and blocked domains met so far, in either direction.        *)
Offenders ==
    {<<"Malicious IP", ip>> : ip \in BadIP \cap UNION {{p.src, p.dst} : p \in handled}}
        \cup {<<"Blocked Domain", d>> :
                 d \in {d \in {p.domain : p \in handled} \ {""} : DomainClass[d] = "blocked"}}

CaseOf(x) == <<x.reason, x.target>>
AlertCase(a) == <<a.type, IF a.type = "Malicious IP" THEN a.source ELSE a.details>>
CaseAlerts == {i \in DOMAIN alerts : alerts[i].type \in Case}

(* Between packets, each offender met so far, and nobody else, has a         *)
(* transaction to decide and an alert, and no more than one, however often   *)
(* it was met and whatever the API does meanwhile                            *)
(* (threat_detector.cpp:242-425).                                            *)
OneCasePerOffender ==
    /\ pc = "idle" => /\ {CaseOf(transactions[i]) : i \in DOMAIN transactions} = Offenders
                      /\ {AlertCase(alerts[i]) : i \in CaseAlerts} = Offenders
    /\ \A i, j \in DOMAIN transactions :
          CaseOf(transactions[i]) = CaseOf(transactions[j]) => i = j
    /\ \A i, j \in CaseAlerts : AlertCase(alerts[i]) = AlertCase(alerts[j]) => i = j

PortsOf(ip) == {p.dport : p \in {q \in handled \ Ignored : q.src = ip}}

(* Between packets, a source has a port scan alert if its packets, ignored   *)
(* ones left out, went to ScanLimit ports or more, and never has two         *)
(* (threat_detector.cpp:35-103).                                             *)
ScanReportedOnce ==
    LET scans == {i \in DOMAIN alerts : alerts[i].type = "Port Scan"} IN
    /\ pc = "idle" => {alerts[i].source : i \in scans}
                          = {ip \in IP : Cardinality(PortsOf(ip)) >= ScanLimit}
    /\ \A i, j \in scans : alerts[i].source = alerts[j].source => i = j

(* A decision that no growth of the vector overlaps is found: when it is     *)
(* answered, a transaction with its id has its status                        *)
(* (transaction_manager.cpp:15-45).                                          *)
Lands ==
    apiPc \in {"find", "write"} /\ apiPc' = "idle" /\ Stable
        => \E i \in DOMAIN transactions' :
               /\ transactions'[i].id = decision.id
               /\ transactions'[i].status = decision.status

DecisionLands == [][Lands]_vars

(* A decision changes one transaction, the first of those whose id it names, *)
(* which is the one the operator chose or an earlier one of the same second  *)
(* (threat_detector.cpp:273); if the vector grows meanwhile it may be        *)
(* another of that second, for the first may have been moved away.  Nothing  *)
(* else changes a status (transaction_manager.cpp:15-45).                    *)
HitsFirstOfSecond ==
    \A i \in DOMAIN transactions :
        transactions'[i].status # transactions[i].status
            => /\ apiPc = "write" /\ transactions[i].id = decision.id
               /\ \E k \in DOMAIN transactions :
                     /\ transactions[k].id = decision.id
                     /\ transactions[k].target = decision.target
                     /\ Stable => k >= i
               /\ Stable => \A j \in 1..i - 1 : transactions[j].id # decision.id

DecisionHitsFirst == [][HitsFirstOfSecond]_vars
=============================================================================
