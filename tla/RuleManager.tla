------------------------------ MODULE RuleManager ------------------------------
(* The RuleManager (src/rule_manager.cpp), shared by all threads: its four   *)
(* tables, each under a lock of its own, the calls that take the locks one   *)
(* after the other (clearAll, saveRules, loadRules), the rule file, and      *)
(* crashes of the process between two of their steps.  A rule is an address, *)
(* an application, a domain, a wildcard pattern or a port; a table is how    *)
(* often it holds each rule.  The lookups only read: they are modelled in    *)
(* DomainRules and FastPath.                                                 *)
EXTENDS Naturals

CONSTANTS
    Caller,     (* threads that call clearAll, saveRules and loadRules         *)
    Rule,       (* rules of all kinds                                          *)
    Table,      (* Table[r]: 1 addresses, 2 applications, 3 domains, 4 ports   *)
    Pattern,    (* domain rules with a '*', kept in a vector, not in a set     *)
    Torn,       (* Torn[r]: rules that the line of r, cut short, may read as   *)
    MaxCopies,  (* bound: copies of a pattern                                  *)
    MaxChanges, (* bound: blocks and unblocks                                  *)
    MaxCalls    (* bound: calls of clearAll, saveRules and loadRules           *)

ASSUME RuleAssumption ==
    /\ Table \in [Rule -> 1..4]
    /\ Pattern \subseteq {r \in Rule : Table[r] = 3}
    /\ Torn \in [Rule -> SUBSET Rule]
    /\ \A r \in Rule : \A s \in Torn[r] : Table[s] = Table[r]
    /\ MaxCopies \in Nat \ {0} /\ MaxChanges \in Nat /\ MaxCalls \in Nat

VARIABLES
    copies,     (* how often each rule is in its table                         *)
    file,       (* how often each rule is in the rule file, once it is flushed *)
    call,       (* what each caller does                                       *)
    step,       (* the table its call takes next, 5 after the last             *)
    todo,       (* loadRules: the lines still to be read                       *)
    cut,        (* history: the last save did not reach the disk whole         *)
    start,      (* history: rules in force when each call began                *)
    added,      (* history: rules that came into force since then              *)
    removed,    (* history: rules that went out of force since then            *)
    reported,   (* history: what the last save that returned true had to hold  *)
    changes, calls

vars == <<copies, file, call, step, todo, cut, start, added, removed, reported,
          changes, calls>>

Count == [Rule -> 0..MaxCopies]
None == [r \in Rule |-> 0]
In(count) == {r \in Rule : count[r] > 0}
InForce == In(copies)

TypeOK ==
    /\ copies \in Count /\ file \in Count
    /\ \A r \in Rule \ Pattern : copies[r] <= 1 /\ file[r] <= 1
    /\ call \in [Caller -> {"none", "clear", "save", "load"}]
    /\ step \in [Caller -> 1..5]
    /\ todo \in [Caller -> Count]
    /\ cut \in BOOLEAN
    /\ start \in [Caller -> SUBSET Rule]
    /\ added \in [Caller -> SUBSET Rule] /\ removed \in [Caller -> SUBSET Rule]
    /\ reported \subseteq Rule
    /\ changes \in 0..MaxChanges /\ calls \in 0..MaxCalls

Init ==
    /\ copies = None /\ file = None
    /\ call = [c \in Caller |-> "none"] /\ step = [c \in Caller |-> 1]
    /\ todo = [c \in Caller |-> None]
    /\ cut = FALSE
    /\ start = [c \in Caller |-> {}]
    /\ added = [c \in Caller |-> {}] /\ removed = [c \in Caller |-> {}]
    /\ reported = {}
    /\ changes = 0 /\ calls = 0

(* History of the calls under way. *)
Track ==
    /\ added' = [c \in Caller |-> IF call[c] = "none" THEN {}
                                  ELSE added[c] \cup (InForce' \ InForce)]
    /\ removed' = [c \in Caller |-> IF call[c] = "none" THEN {}
                                    ELSE removed[c] \cup (InForce \ InForce')]

-----------------------------------------------------------------------------
(* Mutant of Blocked: every table is a vector. *)
BlockedAgain(r) == [copies EXCEPT ![r] = @ + 1]

(* blockIP, blockApp, blockDomain, blockPort; a pattern is appended again. *)
Blocked(r) == [copies EXCEPT ![r] = IF r \in Pattern THEN @ + 1 ELSE 1]

Block(r) ==
    /\ changes < MaxChanges /\ copies[r] < MaxCopies
    /\ copies' = Blocked(r)
    /\ changes' = changes + 1
    /\ Track
    /\ UNCHANGED <<file, call, step, todo, cut, start, reported, calls>>

(* unblockIP, unblockApp, unblockDomain, unblockPort: one copy goes. *)
Unblock(r) ==
    /\ changes < MaxChanges /\ copies[r] > 0
    /\ copies' = [copies EXCEPT ![r] = @ - 1]
    /\ changes' = changes + 1
    /\ Track
    /\ UNCHANGED <<file, call, step, todo, cut, start, reported, calls>>

-----------------------------------------------------------------------------
Begin(c, kind) ==
    /\ call[c] = "none" /\ calls < MaxCalls
    /\ call' = [call EXCEPT ![c] = kind]
    /\ step' = [step EXCEPT ![c] = 1]
    /\ start' = [start EXCEPT ![c] = InForce]
    /\ added' = [added EXCEPT ![c] = {}]
    /\ removed' = [removed EXCEPT ![c] = {}]
    /\ calls' = calls + 1
    /\ UNCHANGED <<copies, cut, changes>>

End(c, kind) ==
    /\ call[c] = kind
    /\ call' = [call EXCEPT ![c] = "none"]
    /\ step' = [step EXCEPT ![c] = 1]
    /\ start' = [start EXCEPT ![c] = {}]
    /\ added' = [added EXCEPT ![c] = {}]
    /\ removed' = [removed EXCEPT ![c] = {}]
    /\ UNCHANGED <<copies, todo, changes, calls>>

At(c, kind) == call[c] = kind /\ step[c] < 5

(* Mutant of Cleared: the patterns stay. *)
ClearedSets(t) == [r \in Rule |-> IF Table[r] = t /\ r \notin Pattern THEN 0 ELSE copies[r]]

Cleared(t) == [r \in Rule |-> IF Table[r] = t THEN 0 ELSE copies[r]]

(* clearAll: one table after the other. *)
BeginClear(c) == Begin(c, "clear") /\ UNCHANGED <<file, todo, reported>>

ClearTable(c) ==
    /\ At(c, "clear")
    /\ copies' = Cleared(step[c])
    /\ step' = [step EXCEPT ![c] = @ + 1]
    /\ Track
    /\ UNCHANGED <<file, call, todo, cut, start, reported, changes, calls>>

EndClear(c) ==
    /\ step[c] = 5 /\ End(c, "clear")
    /\ UNCHANGED <<file, cut, reported>>

-----------------------------------------------------------------------------
(* What may be left of the lines f when the disk fills up or the process     *)
(* dies: the tables before some table t, part of t, and perhaps a line of t  *)
(* cut short.  The lines of a table are in no order.                         *)
Prefixes(f, t) ==
    {[r \in Rule |-> IF Table[r] < t THEN f[r] ELSE IF Table[r] = t THEN part[r] ELSE 0] :
        part \in {g \in [{r \in Rule : Table[r] = t} -> 0..MaxCopies] :
                     \A r \in DOMAIN g : g[r] <= f[r]}}

CutLine(g, f, t) == UNION {Torn[r] : r \in {q \in Rule : Table[q] = t /\ g[q] < f[q]}}

CutFiles(f) ==
    UNION {LET whole == Prefixes(f, t) IN
           whole \cup UNION {{[g EXCEPT ![r] = 1] : r \in CutLine(g, f, t)} : g \in whole}
           : t \in 1..4}

(* saveRules opens the file, which empties it.  A caller that uses the file  *)
(* has it for itself.                                                        *)
BeginSave(c) ==
    /\ \A d \in Caller : call[d] \notin {"save", "load"}
    /\ Begin(c, "save")
    /\ file' = None
    /\ reported' = {}
    /\ UNCHANGED todo

(* Mutant of SaveTable: the patterns are not written. *)
SaveTableSets(c) ==
    /\ At(c, "save")
    /\ file' = [r \in Rule |-> IF Table[r] = step[c] /\ r \notin Pattern THEN copies[r] ELSE file[r]]
    /\ step' = [step EXCEPT ![c] = @ + 1]
    /\ UNCHANGED <<copies, call, todo, cut, start, added, removed, reported, changes, calls>>

(* One table is read under its lock and written to the stream. *)
SaveTable(c) ==
    /\ At(c, "save")
    /\ file' = [r \in Rule |-> IF Table[r] = step[c] THEN copies[r] ELSE file[r]]
    /\ step' = [step EXCEPT ![c] = @ + 1]
    /\ UNCHANGED <<copies, call, todo, cut, start, added, removed, reported, changes, calls>>

(* The file is closed and true is returned, whether the disk took all of it  *)
(* or not.                                                                   *)
EndSave(c) ==
    /\ step[c] = 5 /\ End(c, "save")
    /\ \/ file' = file /\ cut' = FALSE
       \/ file' \in CutFiles(file) /\ cut' = TRUE
    /\ reported' = start[c] \ removed[c]

-----------------------------------------------------------------------------
(* loadRules adds what the file holds to what is in force. *)
BeginLoad(c) ==
    /\ \A d \in Caller : call[d] # "save"
    /\ Begin(c, "load")
    /\ todo' = [todo EXCEPT ![c] = file]
    /\ UNCHANGED <<file, reported>>

(* Mutant of NextLines: lines after the domain section are not read. *)
NextLinesToDomains(c) ==
    {r \in In(todo[c]) : Table[r] < 4 /\ \A s \in In(todo[c]) : Table[r] <= Table[s]}

(* The lines of the first section that has any left. *)
NextLines(c) == {r \in In(todo[c]) : \A s \in In(todo[c]) : Table[r] <= Table[s]}

(* One line is read and its rule blocked. *)
LoadLine(c, r) ==
    /\ call[c] = "load" /\ r \in NextLines(c)
    /\ copies[r] < MaxCopies \/ r \notin Pattern
    /\ copies' = Blocked(r)
    /\ todo' = [todo EXCEPT ![c][r] = @ - 1]
    /\ Track
    /\ UNCHANGED <<file, call, step, cut, start, reported, changes, calls>>

EndLoad(c) ==
    /\ NextLines(c) = {} /\ End(c, "load")
    /\ UNCHANGED <<file, cut, reported>>

-----------------------------------------------------------------------------
(* The process dies and is started again with empty tables; the file keeps   *)
(* what was flushed of a save that was under way.                            *)
Crash ==
    /\ copies' = None
    /\ call' = [c \in Caller |-> "none"]
    /\ IF \E c \in Caller : call[c] = "save"
       THEN file' \in CutFiles(file) /\ cut' = TRUE
       ELSE UNCHANGED <<file, cut>>
    /\ step' = [c \in Caller |-> 1]
    /\ todo' = [c \in Caller |-> None]
    /\ start' = [c \in Caller |-> {}]
    /\ added' = [c \in Caller |-> {}] /\ removed' = [c \in Caller |-> {}]
    /\ UNCHANGED <<reported, changes, calls>>

Next ==
    \/ \E r \in Rule : Block(r) \/ Unblock(r)
    \/ \E c \in Caller : \/ BeginClear(c) \/ ClearTable(c) \/ EndClear(c)
                         \/ BeginSave(c) \/ SaveTable(c) \/ EndSave(c)
                         \/ BeginLoad(c) \/ EndLoad(c)
                         \/ \E r \in Rule : LoadLine(c, r)
    \/ Crash

Spec == Init /\ [][Next]_vars

-----------------------------------------------------------------------------
(* A save whose lines all reach the disk holds every rule in force from its  *)
(* first step to its last, and only rules in force at some time in between,  *)
(* whatever is blocked, unblocked or cleared between its four locks          *)
(* (rule_manager.cpp:246-282).                                               *)
SaveFaithful ==
    [][\A c \in Caller : EndSave(c) /\ ~cut' =>
          /\ start[c] \ removed[c] \subseteq In(file')
          /\ In(file') \subseteq start[c] \cup added[c]]_vars

(* After a clearAll, only rules that came into force during it are in force  *)
(* (rule_manager.cpp:326-345).                                               *)
ClearedStayGone == [][\A c \in Caller : EndClear(c) => InForce \subseteq added[c]]_vars

(* A load brings back every rule the last save reported, across crashes and  *)
(* clears before it, except those lifted during the load                     *)
(* (rule_manager.cpp:284-324).                                               *)
LoadRestores ==
    [][\A c \in Caller : EndLoad(c) /\ ~cut => reported \ removed[c] \subseteq InForce]_vars
=============================================================================
