------------------------------ MODULE MCFastPath ------------------------------
(* An HTTPS flow, an HTTP flow and a DNS flow of one host through a table    *)
(* with two places; a rule on the name found in a payload and one of a table *)
(* read earlier.                                                             *)
EXTENDS FastPath, AppTypes

MCTuple == {[src |-> "a", sport |-> "1", dport |-> "443", proto |-> "tcp"],
            [src |-> "a", sport |-> "1", dport |-> "80", proto |-> "tcp"],
            [src |-> "a", sport |-> "1", dport |-> "53", proto |-> "udp"]}
MCPayload == {[kind |-> "tls", host |-> "www.youtube.com"], [kind |-> "other", host |-> ""]}
MCFlagSets == {{"SYN"}, {"RST"}, {"FIN", "ACK"}}
MCAppOf == [h \in Host |-> SniToAppType(h)]
MCRule == {<<"port", "80">>, <<"domain", "www.youtube.com">>}
=============================================================================
