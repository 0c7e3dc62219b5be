------------------------------ MODULE DomainRules ------------------------------
(* Which names a domain rule blocks: isDomainBlocked and                     *)
(* domainMatchesPattern of src/rule_manager.cpp, for names as sequences of   *)
(* characters, over the domain table of the RuleManager.                     *)
EXTENDS RuleManager, Sequences

CONSTANTS
    NameOf,    (* labels of each domain rule, after "*." for a pattern         *)
    Char,      (* characters of names and patterns                             *)
    Lower,     (* std::tolower                                                 *)
    Label,     (* bound: labels of the names that are compared                 *)
    MaxLabels  (* bound: labels of one name                                    *)

(* Labels are what stands between the dots. *)
Dotless == Seq(Char \ {"."})

ASSUME DomainAssumption ==
    /\ {".", "*"} \subseteq Char /\ Lower \in [Char -> Char]
    /\ Lower["*"] = "*" /\ \A c \in Char : Lower[c] = "." <=> c = "."
    /\ Label \subseteq Dotless /\ MaxLabels \in Nat \ {0}
    /\ \A r \in Rule : Table[r] = 3 => NameOf[r] \in Seq(Dotless) /\ Len(NameOf[r]) > 0

ToLower(text) == [i \in DOMAIN text |-> Lower[text[i]]]

EndsWith(text, suffix) ==
    /\ Len(text) >= Len(suffix)
    /\ SubSeq(text, Len(text) - Len(suffix) + 1, Len(text)) = suffix

(* Mutant of DomainMatchesPattern: the dot is left out of the suffix. *)
DomainMatchesUndotted(domain, pattern) ==
    /\ Len(pattern) >= 2 /\ pattern[1] = "*" /\ pattern[2] = "."
    /\ EndsWith(domain, SubSeq(pattern, 3, Len(pattern)))

DomainMatchesPattern(domain, pattern) ==
    /\ Len(pattern) >= 2 /\ pattern[1] = "*" /\ pattern[2] = "."
    /\ \/ EndsWith(domain, SubSeq(pattern, 2, Len(pattern)))
       \/ domain = SubSeq(pattern, 3, Len(pattern))

(* Names are compared as they are, patterns in lower case. *)
IsDomainBlocked(domain, blockedDomains, domainPatterns) ==
    \/ domain \in blockedDomains
    \/ \E pattern \in domainPatterns :
          DomainMatchesPattern(ToLower(domain), ToLower(pattern))

-----------------------------------------------------------------------------
Wildcard(name) == <<"*", ".">> \o name

(* The text of a name, given as its labels. *)
Text(name) ==
    LET text[i \in 1..Len(name)] ==
            IF i = 1 THEN name[1] ELSE text[i - 1] \o <<".">> \o name[i]
    IN text[Len(name)]

Name == {[labels |-> name, text |-> Text(name)] :
            name \in UNION {[1..n -> Label] : n \in 1..MaxLabels}}

BlockedDomains == {Text(NameOf[r]) : r \in {r \in InForce \ Pattern : Table[r] = 3}}
DomainPatterns == {Wildcard(Text(NameOf[r])) : r \in InForce \cap Pattern}

(* The last labels of name, in either case, are those of rule. *)
Below(name, rule) ==
    /\ Len(name) >= Len(rule)
    /\ \A i \in 1..Len(rule) :
          ToLower(name[Len(name) - Len(rule) + i]) = ToLower(rule[i])

(* "*.facebook.com blocks all facebook subdomains" (rule_manager.h:66): a    *)
(* wildcard in force blocks the name after the asterisk and the names below  *)
(* it, label by label and in either case, a plain rule its own name as it is *)
(* written, and no other name is blocked, though it ends with the same       *)
(* letters (rule_manager.cpp:132-176).                                       *)
RulesBlockSubdomains ==
    \A name \in Name :
        IsDomainBlocked(name.text, BlockedDomains, DomainPatterns)
            <=> \E r \in InForce :
                   /\ Table[r] = 3
                   /\ IF r \in Pattern THEN Below(name.labels, NameOf[r])
                                       ELSE name.labels = NameOf[r]
=============================================================================
