---------------------------- MODULE MCLiveMonitor ----------------------------
(* An inside host asks a bad address, on a port with a rule, for a           *)
(* suspicious domain and opens a TLS connection to a blocked one; the bad    *)
(* address opens one to another bad address for a built-in malicious domain; *)
(* a DNS server sends a packet to the host.                                  *)
EXTENDS LiveMonitor

MCPacket == {[src |-> "host", dst |-> "bad", dport |-> "53", domain |-> "x12345678.net"],
             [src |-> "host", dst |-> "web", dport |-> "443", domain |-> "blocked.com"],
             [src |-> "bad", dst |-> "bad2", dport |-> "443", domain |-> "evil.test"],
             [src |-> "dns", dst |-> "host", dport |-> "80", domain |-> ""]}
MCPortRules == [port \in {"53", "443", "80"} |-> IF port = "53" THEN <<"DNS">> ELSE <<>>]
MCDomainClass == [d \in {"blocked.com", "evil.test", "x12345678.net"} |->
                      CASE d = "blocked.com" -> "blocked"
                        [] d = "evil.test" -> "malicious"
                        [] OTHER -> "suspicious"]
MCIgnored == {p \in MCPacket : p.src = "dns"}
=============================================================================
