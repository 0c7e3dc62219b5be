----------------------------- MODULE PacketFilter -----------------------------
(* The decision about one packet as the two earlier programs take it:        *)
(* old_mains/main_working.cpp, which has one thread, and                     *)
(* old_mains/dpi_mt.cpp, the program WINDOWS_SETUP.md builds.  Each was      *)
(* written out by itself; both keep an entry per flow and ask the same       *)
(* rules, which stand before the first packet.                               *)
EXTENDS Naturals

CONSTANTS
    Flow,          (* five-tuples: [src_ip, src_port, dst_port, protocol]      *)
    Name,          (* server names and hosts that are not empty                *)
    NoName,        (* the empty string                                         *)
    AppOf,         (* sniToAppType of a name that is not empty                 *)
    BlockedIPs, BlockedApps,
    BlockedNames   (* names that contain a blocked domain                      *)

ASSUME FilterAssumption ==
    /\ NoName \notin Name
    /\ \A n \in Name : AppOf[n] # "UNKNOWN"
    /\ \A fl \in Flow : fl.protocol \in {"TCP", "UDP"}

(* A TCP or UDP packet: its flow, which extractor would find a name in its   *)
(* payload, and that name, which may be empty ("Host: :80").                 *)
Packet == [flow : Flow, found : {"nothing", "tls", "http"}, name : Name \cup {NoName}]

App == {"UNKNOWN", "HTTP", "HTTPS", "DNS"} \cup {AppOf[n] : n \in Name}

AppOfName(name) == IF name = NoName THEN "UNKNOWN" ELSE AppOf[name]

IsBlocked(p, app, sni) ==
    p.flow.src_ip \in BlockedIPs \/ app \in BlockedApps \/ sni \in BlockedNames

ToDNS(p) == 53 \in {p.flow.src_port, p.flow.dst_port}

ByPort(p) ==
    CASE p.flow.dst_port = 443 -> "HTTPS"
      [] p.flow.dst_port = 80  -> "HTTP"
      [] OTHER                 -> "UNKNOWN"

-----------------------------------------------------------------------------
(* main_working.cpp: four ifs in a row, each on what the ones before left.   *)

SimpleEntry == [app : App, sni : Name \cup {NoName}, blocked : BOOLEAN]
NoSimpleEntry == [app |-> "UNKNOWN", sni |-> NoName, blocked |-> FALSE]

Extracted(e, p, port, generic, found) ==
    IF /\ e.app \in {"UNKNOWN", generic} /\ e.sni = NoName
       /\ p.flow.protocol = "TCP" /\ p.flow.dst_port = port /\ p.found = found
    THEN [e EXCEPT !.sni = p.name, !.app = AppOfName(p.name)]
    ELSE e

Guessed(e, p) ==
    IF e.app # "UNKNOWN" THEN e
    ELSE [e EXCEPT !.app = IF ToDNS(p) THEN "DNS" ELSE ByPort(p)]

SimpleStep(e, p) ==
    LET c == Guessed(Extracted(Extracted(e, p, 443, "HTTPS", "tls"), p, 80, "HTTP", "http"), p)
    IN [c EXCEPT !.blocked = @ \/ IsBlocked(p, c.app, c.sni)]

-----------------------------------------------------------------------------
(* dpi_mt.cpp: the first case that applies, until the flow is classified.    *)

FlowEntry == [app : App, sni : Name \cup {NoName}, blocked : BOOLEAN, classified : BOOLEAN]
NoFlowEntry == [app |-> "UNKNOWN", sni |-> NoName, blocked |-> FALSE, classified |-> FALSE]

ClassifyFlow(e, p) ==
    CASE \/ p.flow.dst_port = 443 /\ p.found = "tls"
         \/ p.flow.dst_port = 80 /\ p.found = "http"
           -> [e EXCEPT !.sni = p.name, !.app = AppOfName(p.name), !.classified = TRUE]
      [] OTHER
           -> CASE ToDNS(p)               -> [e EXCEPT !.app = "DNS", !.classified = TRUE]
                [] ByPort(p) # "UNKNOWN" /\ ~ToDNS(p) -> [e EXCEPT !.app = ByPort(p)]
                [] OTHER                  -> e

(* Mutant of MtStep: the rules are asked again for a blocked flow. *)
MtStepAsksAgain(e, p) ==
    LET c == IF e.classified THEN e ELSE ClassifyFlow(e, p)
    IN [c EXCEPT !.blocked = IsBlocked(p, c.app, c.sni)]

MtStep(e, p) ==
    LET c == IF e.classified THEN e ELSE ClassifyFlow(e, p)
    IN [c EXCEPT !.blocked = @ \/ IsBlocked(p, c.app, c.sni)]

-----------------------------------------------------------------------------
(* The programs part where dpi_mt.cpp takes an empty name for a              *)
(* classification, and looks for a name in a UDP packet.                     *)
Alike(p) == p.found # "nothing" => p.name # NoName /\ p.flow.protocol = "TCP"
=============================================================================
