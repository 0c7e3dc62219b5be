--------------------------- MODULE MCLiveStatistics ---------------------------
(* A TLS flow and a DNS flow with names of two applications, an echo         *)
(* request, and an ARP frame: three flows.                                   *)
EXTENDS LiveStatistics, AppTypes

LOCAL F(proto, src, dst, dport, domain, bytes) ==
    [proto |-> proto, src |-> src, sport |-> dport, dst |-> dst,
     dport |-> dport, domain |-> domain, bytes |-> bytes]

MCFrame == {F("tcp", "host", "web", "443", "api.github.com", 2),
            F("udp", "host", "dns", "53", "www.youtube.com", 1),
            F("icmp", "web", "host", "0", "", 3),
            F("not ip", "", "", "0", "", 0)}
MCAppOf == [d \in {f.domain : f \in MCFrame} \ {""} |-> ClassifyDomain(d)]
=============================================================================
