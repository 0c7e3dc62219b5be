---------------------------- MODULE MCRuleManager ----------------------------
(* An address, a wildcard pattern, a domain and a port, with the port its    *)
(* line may read as when it is cut short (443 and 44); names of up to three  *)
(* labels of one or two letters, one of them in upper case.                  *)
EXTENDS DomainRules, TLC
CONSTANTS addr, pattern, domain, port, shortPort
MCRule == {addr, pattern, domain, port, shortPort}
MCTable == [r \in MCRule |-> CASE r = addr -> 1
                              [] r \in {pattern, domain} -> 3
                              [] OTHER -> 4]
MCTorn == [r \in MCRule |-> IF r = port THEN {shortPort} ELSE {}]
MCNameOf == [r \in {pattern, domain} |->
                IF r = pattern THEN <<<<"A">>, <<"a">>>> ELSE <<<<"A">>>>]
MCChar == {"a", "b", "A", ".", "*"}
MCLower == [c \in MCChar |-> IF c = "A" THEN "a" ELSE c]
MCLabel == {<<"a">>, <<"A">>, <<"b", "a">>}
Symmetry == Permutations(Caller)
=============================================================================
