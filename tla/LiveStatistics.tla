----------------------------- MODULE LiveStatistics -----------------------------
(* The statistics of the live monitor: what the capture loop of              *)
(* src/live_capture.cpp counts for each frame in ProtocolStats, TopTalker,   *)
(* FlowTracker and AppTracker, the export of the flows every so many frames, *)
(* and the API thread listing the flows meanwhile.  The flows are a          *)
(* std::unordered_map shared without a lock: a linked list of nodes, where a *)
(* new one goes before some other, and whose order changes altogether when   *)
(* the table of buckets grows.                                               *)
EXTENDS Naturals, Sequences, FiniteSets, Functions

CONSTANTS
    Frame,       (* what the parser accepts: proto, src, sport, dst, dport, bytes  *)
                 (* of payload, and the domain found in it or ""                   *)
    AppOf,       (* classifyDomain                                                 *)
    ExportEvery, (* frames between two exports                                     *)
    RehashAt,    (* sizes the flow table reaches by growing its buckets            *)
    MaxFrames,   (* bound: frames                                                  *)
    MaxListings  (* bound: listings of the flows                                   *)

Domain == {f.domain : f \in Frame} \ {""}
Address == {f.src : f \in Frame} \cup {f.dst : f \in Frame}
FlowOf(f) == <<f.src, f.sport, f.dst, f.dport>>
Flow == {FlowOf(f) : f \in Frame}

(* A capture has frames of bounded length. Names come from TLS on port 443   *)
(* and from queries to port 53.                                              *)
ASSUME StatisticsAssumption ==
    /\ Frame # {} /\ IsFiniteSet(Frame) /\ ExportEvery \in Nat \ {0} /\ RehashAt \subseteq Nat
    /\ MaxFrames \in Nat /\ MaxListings \in Nat
    /\ \A f \in Frame :
          /\ f.proto \in {"tcp", "udp", "icmp", "other", "not ip"} /\ f.bytes \in Nat
          /\ f.domain # "" => /\ <<f.proto, f.dport>> \in {<<"tcp", "443">>, <<"udp", "53">>}
                              /\ f.bytes > 0

VARIABLES
    at, frame,    (* where the capture loop is with its frame                    *)
    protocols,    (* ProtocolStats                                               *)
    talkers,      (* TopTalker: bytes of each address                            *)
    flows,        (* FlowTracker: packets and bytes of each flow                 *)
    nodes,        (* the flows in the table, in the order of its list            *)
    apps,         (* AppTracker: packets and bytes of each application           *)
    counter,      (* packetCounter                                               *)
    csv, json,    (* the exported files: packets of each flow                    *)
    reader, node, (* the API thread and its iterator                             *)
    listed,       (* the reply: flows and their packets                          *)
    listings,
    stale,        (* history: files whose last export failed                     *)
    opened,       (* history: packetCounter at the last export to open each file *)
    taken,        (* history: IP packets among them                              *)
    began,        (* history: the table when the listing began                   *)
    rehashed      (* history: the buckets grew since then                        *)

tables == <<protocols, talkers, flows, nodes, apps, counter, taken>>
files == <<csv, json, stale, opened>>
listing == <<reader, node, listed, listings, began>>
vars == <<at, frame, tables, files, listing, rehashed>>

End == <<>>
Zero == [packets |-> 0, bytes |-> 0]
Counts == [packets : Nat, bytes : Nat]
App == {AppOf[d] : d \in Domain}
Nodes == {nodes[i] : i \in DOMAIN nodes}
PacketsOf == [k \in Flow |-> flows[k].packets]

TypeOK ==
    /\ at \in {"idle", "talkers", "flow", "app", "named", "end", "csv", "json"}
    /\ frame \in Frame
    /\ protocols \in [{"tcp", "udp", "icmp"} -> 0..MaxFrames]
    /\ talkers \in [Address -> Nat]
    /\ flows \in [Flow -> Counts] /\ apps \in [App -> Counts]
    /\ nodes \in Seq(Flow) /\ Len(nodes) = Cardinality(Nodes)
    /\ \A k \in Flow \ Nodes : flows[k] = Zero
    /\ counter \in 0..MaxFrames /\ taken \in 0..counter
    /\ csv \in [Flow -> Nat] /\ json \in [Flow -> Nat]
    /\ stale \subseteq {"csv", "json"} /\ opened \in [{"csv", "json"} -> 0..counter]
    /\ reader \in {"idle", "read", "advance"} /\ node \in Nodes \cup {End}
    /\ \A i \in DOMAIN listed : listed[i].flow \in Nodes
    /\ listings \in 0..MaxListings
    /\ DOMAIN began \subseteq Nodes /\ rehashed \in BOOLEAN

Init ==
    /\ at = "idle" /\ frame = CHOOSE f \in Frame : TRUE
    /\ protocols = [p \in {"tcp", "udp", "icmp"} |-> 0]
    /\ talkers = [ip \in Address |-> 0]
    /\ flows = [k \in Flow |-> Zero] /\ nodes = <<>>
    /\ apps = [a \in App |-> Zero]
    /\ counter = 0 /\ taken = 0
    /\ csv = [k \in Flow |-> 0] /\ json = [k \in Flow |-> 0]
    /\ stale = {} /\ opened = [name \in {"csv", "json"} |-> 0]
    /\ reader = "idle" /\ node = End /\ listed = <<>> /\ listings = 0
    /\ began = <<>> /\ rehashed = FALSE

-----------------------------------------------------------------------------
(* The capture loop, one table after the other. *)
ProtocolCounts(f) == [p \in DOMAIN protocols |-> protocols[p] + IF f.proto = p THEN 1 ELSE 0]

CountProtocol(f) ==
    /\ at = "idle" /\ counter < MaxFrames
    /\ frame' = f
    /\ protocols' = ProtocolCounts(f)
    /\ IF f.proto = "not ip" THEN at' = "end" /\ counter' = counter + 1
                             ELSE at' = "talkers" /\ UNCHANGED counter
    /\ UNCHANGED <<talkers, flows, nodes, apps, taken, files, listing, rehashed>>

AddTraffic(table, ip) == [table EXCEPT ![ip] = @ + frame.bytes]

(* The payload counts for both addresses. *)
CountTalkers ==
    /\ at = "talkers"
    /\ talkers' = AddTraffic(AddTraffic(talkers, frame.src), frame.dst)
    /\ at' = "flow"
    /\ UNCHANGED <<frame, protocols, flows, nodes, apps, counter, taken, files, listing, rehashed>>

(* The list with k in it: before some other node, or in any order when the   *)
(* buckets grow.                                                             *)
Insertions(k) ==
    IF Len(nodes) + 1 \in RehashAt
    THEN {s \in [1..Len(nodes) + 1 -> Nodes \cup {k}] : \A i, j \in DOMAIN s : s[i] = s[j] => i = j}
    ELSE {SubSeq(nodes, 1, i) \o <<k>> \o SubSeq(nodes, i + 1, Len(nodes)) :
             i \in 0..(IF nodes = <<>> THEN 0 ELSE Len(nodes) - 1)}

(* Mutant of InsertFlow: it is not looked for first. *)
InsertFlowAgain ==
    /\ at \in {"flow", "named"}
    /\ nodes' \in Insertions(FlowOf(frame))
    /\ rehashed' = (rehashed \/ Len(nodes') \in RehashAt)
    /\ UNCHANGED <<at, frame, protocols, talkers, flows, apps, counter, taken, files, listing>>

(* flows_[key] of a new key *)
InsertFlow ==
    /\ at \in {"flow", "named"} /\ FlowOf(frame) \notin Nodes
    /\ nodes' \in Insertions(FlowOf(frame))
    /\ rehashed' = (rehashed \/ Len(nodes') \in RehashAt)
    /\ UNCHANGED <<at, frame, protocols, talkers, flows, apps, counter, taken, files, listing>>

Add(count) == [packets |-> count.packets + 1, bytes |-> count.bytes + frame.bytes]

(* The packet itself is counted as one once it is in its flow. *)
Counted ==
    /\ counter' = counter + IF at = "flow" THEN 1 ELSE 0
    /\ taken' = taken + IF at = "flow" THEN 1 ELSE 0

(* Mutant of CountFlow: the flow moves to the front of the list. *)
CountFlowRecent ==
    /\ at \in {"flow", "named"} /\ FlowOf(frame) \in Nodes
    /\ flows' = [flows EXCEPT ![FlowOf(frame)] = Add(@)]
    /\ nodes' = <<FlowOf(frame)>> \o SelectSeq(nodes, LAMBDA k : k # FlowOf(frame))
    /\ at' = IF at = "flow" /\ frame.domain # "" THEN "app" ELSE "end"
    /\ Counted
    /\ UNCHANGED <<frame, protocols, talkers, apps, files, listing, rehashed>>

(* FlowTracker::addPacket, once for the packet and once more for its name.   *)
CountFlow ==
    /\ at \in {"flow", "named"} /\ FlowOf(frame) \in Nodes
    /\ flows' = [flows EXCEPT ![FlowOf(frame)] = Add(@)]
    /\ at' = IF at = "flow" /\ frame.domain # "" THEN "app" ELSE "end"
    /\ Counted
    /\ UNCHANGED <<frame, protocols, talkers, nodes, apps, files, listing, rehashed>>

(* Mutant of CountApp: the name is not added to the flow. *)
CountAppOnly ==
    /\ at = "app"
    /\ apps' = [apps EXCEPT ![AppOf[frame.domain]] = Add(@)]
    /\ at' = "end"
    /\ UNCHANGED <<frame, protocols, talkers, flows, nodes, counter, taken, files, listing, rehashed>>

CountApp ==
    /\ at = "app"
    /\ apps' = [apps EXCEPT ![AppOf[frame.domain]] = Add(@)]
    /\ at' = "named"
    /\ UNCHANGED <<frame, protocols, talkers, flows, nodes, counter, taken, files, listing, rehashed>>

(* Mutant of EndFrame: the first frame after the last export is left out. *)
EndFrameLate ==
    /\ at = "end"
    /\ at' = IF counter % ExportEvery = 1 THEN "csv" ELSE "idle"
    /\ UNCHANGED <<frame, tables, files, listing, rehashed>>

EndFrame ==
    /\ at = "end"
    /\ at' = IF counter % ExportEvery = 0 THEN "csv" ELSE "idle"
    /\ UNCHANGED <<frame, tables, files, listing, rehashed>>

Succeeds(name) == stale' = stale \ {name} /\ opened' = [opened EXCEPT ![name] = counter]
Fails(name) == stale' = stale \cup {name} /\ UNCHANGED opened

(* Mutant of ExportCSV: the old file is removed before it is opened. *)
ExportCSVRemoves ==
    /\ at = "csv" /\ at' = "json"
    /\ \/ csv' = PacketsOf /\ Succeeds("csv")
       \/ csv' = [k \in Flow |-> 0] /\ Fails("csv")
    /\ UNCHANGED <<frame, tables, json, listing, rehashed>>

(* A file that cannot be opened keeps what it had. *)
ExportCSV ==
    /\ at = "csv" /\ at' = "json"
    /\ \/ csv' = PacketsOf /\ Succeeds("csv")
       \/ UNCHANGED csv /\ Fails("csv")
    /\ UNCHANGED <<frame, tables, json, listing, rehashed>>

ExportJSON ==
    /\ at = "json" /\ at' = "idle"
    /\ \/ json' = PacketsOf /\ Succeeds("json")
       \/ UNCHANGED json /\ Fails("json")
    /\ UNCHANGED <<frame, tables, csv, listing, rehashed>>

Capture ==
    \/ \E f \in Frame : CountProtocol(f)
    \/ CountTalkers \/ InsertFlow \/ CountFlow \/ CountApp
    \/ EndFrame \/ ExportCSV \/ ExportJSON

-----------------------------------------------------------------------------
(* The API thread walks the list for GET /flows. *)
Following(k) == LET i == CHOOSE i \in DOMAIN nodes : nodes[i] = k
                IN IF i = Len(nodes) THEN End ELSE nodes[i + 1]

BeginListing ==
    /\ reader = "idle" /\ listings < MaxListings
    /\ reader' = "read"
    /\ node' = IF nodes = <<>> THEN End ELSE Head(nodes)
    /\ listed' = <<>>
    /\ listings' = listings + 1
    /\ began' = [k \in Nodes |-> flows[k].packets]
    /\ rehashed' = FALSE
    /\ UNCHANGED <<at, frame, tables, files>>

ListFlow ==
    /\ reader = "read" /\ node # End
    /\ listed' = Append(listed, [flow |-> node, packets |-> flows[node].packets])
    /\ reader' = "advance"
    /\ UNCHANGED <<node, listings, began, rehashed, at, frame, tables, files>>

Advance ==
    /\ reader = "advance"
    /\ node' = Following(node) /\ reader' = "read"
    /\ UNCHANGED <<listed, listings, began, rehashed, at, frame, tables, files>>

AnswerListing ==
    /\ reader = "read" /\ node = End
    /\ reader' = "idle"
    /\ listed' = <<>> /\ began' = <<>> /\ rehashed' = FALSE
    /\ UNCHANGED <<node, listings, at, frame, tables, files>>

Listing == BeginListing \/ ListFlow \/ Advance \/ AnswerListing

Next == Capture \/ Listing

Spec == Init /\ [][Next]_vars

-----------------------------------------------------------------------------
Sum(f) == FoldFunction(LAMBDA a, b : a + b, 0, f)
Packets(table) == Sum([k \in DOMAIN table |-> table[k].packets])
Bytes(table) == Sum([k \in DOMAIN table |-> table[k].bytes])

(* Between frames the four tables agree: a packet whose name was found is in *)
(* its flow twice and in its application once, every payload counts for two  *)
(* addresses, and every packet for one protocol unless its protocol is none  *)
(* of the three (live_capture.cpp:179-345).                                  *)
TablesAgree ==
    at = "idle" => /\ Packets(flows) = taken + Packets(apps)
                   /\ Sum(talkers) + 2 * Bytes(apps) = 2 * Bytes(flows)
                   /\ Sum(protocols) <= taken
                   /\ (\A f \in Frame : f.proto # "other") => Sum(protocols) = taken

(* A file has of no flow more than the table has, lacks at most the packets  *)
(* of the frames since it was last opened, each counted twice at most, and   *)
(* unless the last export failed it was opened when that was due.            *)
FileCurrent(counts, name) ==
    /\ \A k \in Flow : counts[k] <= flows[k].packets
    /\ Packets(flows) - Sum(counts) <= 2 * (counter - opened[name])
    /\ name \notin stale => counter - opened[name] = counter % ExportEvery

(* Between frames both exported files are current, whichever exports failed, *)
(* and equal if they were last opened together (live_capture.cpp:391-415).   *)
ExportsCurrent ==
    at = "idle" => /\ FileCurrent(csv, "csv") /\ FileCurrent(json, "json")
                   /\ opened["csv"] = opened["json"] => csv = json

(* A listing during which the buckets do not grow has every flow that was in *)
(* the table when it began, and no flow twice, with no fewer packets than it *)
(* had then, whatever the capture loop inserts and counts meanwhile          *)
(* (api_server.cpp:171-215, flow_tracker.cpp:23).                            *)
Complete ==
    reader = "read" /\ reader' = "idle" /\ ~rehashed
        => /\ \A k \in DOMAIN began : \E i \in DOMAIN listed :
                 listed[i].flow = k /\ listed[i].packets >= began[k]
           /\ \A i, j \in DOMAIN listed : listed[i].flow = listed[j].flow => i = j

ListingComplete == [][Complete]_vars
=============================================================================
