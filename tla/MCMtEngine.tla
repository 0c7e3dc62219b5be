----------------------------- MODULE MCMtEngine -----------------------------
(* One flow that is blocked when its name is seen, one that is not, and a    *)
(* QUIC-like flow in which only dpi_mt.cpp finds a name.                     *)
EXTENDS MtEngine, AppTypes

MCFlow == {[src_ip |-> "a", src_port |-> 1, dst_port |-> 443, protocol |-> "TCP"],
           [src_ip |-> "b", src_port |-> 1, dst_port |-> 80, protocol |-> "TCP"],
           [src_ip |-> "b", src_port |-> 1, dst_port |-> 443, protocol |-> "UDP"]}
MCName == {"www.youtube.com", "example.org"}
MCAppOf == [n \in MCName |-> SniToAppType(n)]

PacketOf(sip, dport, protocol, found, name) ==
    [flow |-> [src_ip |-> sip, src_port |-> 1, dst_port |-> dport, protocol |-> protocol],
     found |-> found, name |-> name]
MCCaptured == {PacketOf("a", 443, "TCP", "nothing", ""), PacketOf("a", 443, "TCP", "tls", "www.youtube.com"),
               PacketOf("b", 80, "TCP", "http", "example.org"),
               PacketOf("b", 443, "UDP", "tls", "www.youtube.com")}
MCHash == [fl \in MCFlow |-> IF fl.src_ip = "a" THEN 0 ELSE 3]
=============================================================================
