--------------------------- MODULE RuleManagerProofs ---------------------------
(* Types of the rule manager, its properties of calls that take the locks    *)
(* one after the other, and what its domain rules block, for any rules,      *)
(* callers, bounds and names.                                                *)
EXTENDS DomainRules, SequenceTheorems, WellFoundedInduction, TLAPS

(* What is left of a file holds no more than the tables can.                 *)
LEMMA CutFilesType ==
    ASSUME NEW f \in Count, \A r \in Rule \ Pattern : f[r] <= 1, NEW g \in CutFiles(f)
    PROVE  g \in Count /\ \A r \in Rule \ Pattern : g[r] <= 1
<1> USE RuleAssumption
<1>1. ASSUME NEW t \in 1..4, NEW h \in Prefixes(f, t)
      PROVE  h \in Count /\ \A r \in Rule \ Pattern : h[r] <= 1
  <2>1. PICK part \in [{r \in Rule : Table[r] = t} -> 0..MaxCopies] :
           /\ \A r \in Rule : Table[r] = t => part[r] <= f[r]
           /\ h = [r \in Rule |-> IF Table[r] < t THEN f[r]
                                 ELSE IF Table[r] = t THEN part[r] ELSE 0]
    BY <1>1 DEF Prefixes
  <2>2. \A r \in Rule : f[r] \in 0..MaxCopies /\ (Table[r] = t => part[r] \in 0..MaxCopies)
    BY <2>1 DEF Count
  <2>3. \A r \in Rule : h[r] \in 0..MaxCopies /\ (h[r] <= f[r])
    BY <2>1, <2>2
  <2>4. h \in Count
    BY <2>1, <2>3 DEF Count
  <2> QED
    BY <2>2, <2>3, <2>4
<1>2. ASSUME NEW t \in 1..4, NEW h \in Prefixes(f, t), NEW r \in CutLine(h, f, t)
      PROVE  r \in Rule
  BY <1>2 DEF CutLine
<1>3. PICK t \in 1..4 :
         LET whole == Prefixes(f, t)
         IN g \in whole \cup UNION {{[h EXCEPT ![r] = 1] : r \in CutLine(h, f, t)} : h \in whole}
  BY DEF CutFiles
<1>4. CASE g \in Prefixes(f, t)
  BY <1>1, <1>4
<1>5. ASSUME NEW h \in Prefixes(f, t), NEW r \in CutLine(h, f, t), g = [h EXCEPT ![r] = 1]
      PROVE  g \in Count /\ \A q \in Rule \ Pattern : g[q] <= 1
  <2>1. h \in Count /\ \A q \in Rule \ Pattern : h[q] <= 1
    BY <1>1
  <2>2. r \in Rule
    BY <1>2
  <2> QED
    BY <2>1, <2>2, <1>5 DEF Count
<1> QED
  BY <1>3, <1>4, <1>5

LEMMA NoneType == None \in Count /\ \A r \in Rule : None[r] <= 1
BY RuleAssumption DEF None, Count

LEMMA BlockedType ==
    ASSUME TypeOK, NEW r \in Rule, copies[r] < MaxCopies \/ r \notin Pattern, copies' = Blocked(r)
    PROVE  copies' \in Count /\ \A q \in Rule \ Pattern : copies'[q] <= 1
BY RuleAssumption DEF TypeOK, Count, Blocked

LEMMA TrackType ==
    ASSUME TypeOK, Track, copies' \in Count
    PROVE  added' \in [Caller -> SUBSET Rule] /\ removed' \in [Caller -> SUBSET Rule]
BY DEF TypeOK, Track, InForce, In

LEMMA BeginType ==
    ASSUME TypeOK, NEW c \in Caller, NEW kind \in {"clear", "save", "load"}, Begin(c, kind)
    PROVE  /\ call' \in [Caller -> {"none", "clear", "save", "load"}]
           /\ step' \in [Caller -> 1..5]
           /\ start' \in [Caller -> SUBSET Rule]
           /\ added' \in [Caller -> SUBSET Rule] /\ removed' \in [Caller -> SUBSET Rule]
           /\ calls' \in 0..MaxCalls
           /\ UNCHANGED <<copies, cut, changes>>
BY RuleAssumption DEF TypeOK, Begin, InForce, In

LEMMA EndType ==
    ASSUME TypeOK, NEW c \in Caller, NEW kind, End(c, kind)
    PROVE  /\ call' \in [Caller -> {"none", "clear", "save", "load"}]
           /\ step' \in [Caller -> 1..5]
           /\ start' \in [Caller -> SUBSET Rule]
           /\ added' \in [Caller -> SUBSET Rule] /\ removed' \in [Caller -> SUBSET Rule]
           /\ UNCHANGED <<copies, todo, changes, calls>>
BY DEF TypeOK, End

LEMMA TypeStep == TypeOK /\ [Next]_vars => TypeOK'
<1> SUFFICES ASSUME TypeOK, [Next]_vars PROVE TypeOK'
  OBVIOUS
<1> USE RuleAssumption
<1>1. ASSUME NEW r \in Rule, Block(r) PROVE TypeOK'
  BY <1>1, BlockedType, TrackType DEF Block, TypeOK
<1>2. ASSUME NEW r \in Rule, Unblock(r) PROVE TypeOK'
  <2>1. copies' \in Count /\ \A q \in Rule \ Pattern : copies'[q] <= 1
    BY <1>2 DEF Unblock, TypeOK, Count
  <2> QED
    BY <1>2, <2>1, TrackType DEF Unblock, TypeOK
<1>3. ASSUME NEW c \in Caller, BeginClear(c) PROVE TypeOK'
  BY <1>3, BeginType DEF BeginClear, TypeOK
<1>4. ASSUME NEW c \in Caller, ClearTable(c) PROVE TypeOK'
  <2>1. copies' \in Count /\ \A q \in Rule \ Pattern : copies'[q] <= 1
    BY <1>4 DEF ClearTable, Cleared, TypeOK, Count
  <2> QED
    BY <1>4, <2>1, TrackType DEF ClearTable, At, TypeOK
<1>5. ASSUME NEW c \in Caller, EndClear(c) PROVE TypeOK'
  BY <1>5, EndType DEF EndClear, TypeOK
<1>6. ASSUME NEW c \in Caller, BeginSave(c) PROVE TypeOK'
  BY <1>6, BeginType DEF BeginSave, TypeOK, None, Count
<1>7. ASSUME NEW c \in Caller, SaveTable(c) PROVE TypeOK'
  <2>1. file' \in Count /\ \A q \in Rule \ Pattern : file'[q] <= 1
    BY <1>7 DEF SaveTable, TypeOK, Count
  <2> QED
    BY <1>7, <2>1 DEF SaveTable, At, TypeOK
<1>8. ASSUME NEW c \in Caller, EndSave(c) PROVE TypeOK'
  <2>1. file' \in Count /\ \A q \in Rule \ Pattern : file'[q] <= 1
    BY <1>8, CutFilesType DEF EndSave, TypeOK
  <2>2. cut' \in BOOLEAN /\ reported' \subseteq Rule
    BY <1>8 DEF EndSave, TypeOK
  <2> QED
    BY <1>8, <2>1, <2>2, EndType DEF EndSave, TypeOK
<1>9. ASSUME NEW c \in Caller, BeginLoad(c) PROVE TypeOK'
  BY <1>9, BeginType DEF BeginLoad, TypeOK
<1>10. ASSUME NEW c \in Caller, NEW r \in Rule, LoadLine(c, r) PROVE TypeOK'
  <2>1. copies' \in Count /\ \A q \in Rule \ Pattern : copies'[q] <= 1
    BY <1>10, BlockedType DEF LoadLine
  <2>2. todo' \in [Caller -> Count]
    BY <1>10 DEF LoadLine, NextLines, In, TypeOK, Count
  <2> QED
    BY <1>10, <2>1, <2>2, TrackType DEF LoadLine, TypeOK
<1>11. ASSUME NEW c \in Caller, EndLoad(c) PROVE TypeOK'
  BY <1>11, EndType DEF EndLoad, TypeOK
<1>12. CASE Crash
  <2>1. file' \in Count /\ \A q \in Rule \ Pattern : file'[q] <= 1
    BY <1>12, CutFilesType DEF Crash, TypeOK
  <2>2. cut' \in BOOLEAN
    BY <1>12 DEF Crash, TypeOK
  <2> QED
    BY <1>12, <2>1, <2>2, NoneType DEF Crash, TypeOK
<1>13. CASE UNCHANGED vars
  BY <1>13 DEF vars, TypeOK
<1> QED
  BY <1>1, <1>2, <1>3, <1>4, <1>5, <1>6, <1>7, <1>8, <1>9, <1>10, <1>11, <1>12, <1>13 DEF Next

(* Types; a table that is a set holds a rule once, in memory and in the file,*)
(* whatever is loaded, and however it was cut short (rule_manager.cpp:42-203)*)
THEOREM TypeCorrect == Spec => []TypeOK
<1>1. ASSUME Init PROVE TypeOK
  <2>1. /\ copies \in Count /\ file \in Count /\ todo \in [Caller -> Count]
        /\ \A r \in Rule \ Pattern : copies[r] <= 1 /\ file[r] <= 1
    BY <1>1, NoneType DEF Init
  <2>2. changes \in 0..MaxChanges /\ calls \in 0..MaxCalls
    BY <1>1, RuleAssumption DEF Init
  <2>3. step \in [Caller -> 1..5]
    BY <1>1 DEF Init
  <2>4. /\ call \in [Caller -> {"none", "clear", "save", "load"}] /\ cut \in BOOLEAN
        /\ start \in [Caller -> SUBSET Rule] /\ added \in [Caller -> SUBSET Rule]
        /\ removed \in [Caller -> SUBSET Rule] /\ reported \subseteq Rule
    BY <1>1 DEF Init
  <2> QED
    BY <2>1, <2>2, <2>3, <2>4 DEF TypeOK
<1> QED
  BY <1>1, TypeStep, PTL DEF Spec

-----------------------------------------------------------------------------
(* The history of a call, related to what is in force.                       *)
HistoryInv ==
    \A c \in Caller : call[c] # "none" =>
        /\ start[c] \ removed[c] \subseteq InForce
        /\ InForce \subseteq start[c] \cup added[c]

(* One caller has the file while it is written.                              *)
FileInv ==
    \A c, d \in Caller : call[c] = "save" /\ call[d] \in {"save", "load"} => c = d

(* The tables a save is past are in the file.                                *)
SaveInv ==
    \A c \in Caller : call[c] = "save" =>
        \A r \in Rule : Table[r] < step[c] =>
            /\ r \in start[c] \ removed[c] => file[r] > 0
            /\ file[r] > 0 => r \in start[c] \cup added[c]

(* The tables a clearAll is past hold only what came since.                  *)
ClearInv ==
    \A c \in Caller : call[c] = "clear" =>
        \A r \in Rule : Table[r] < step[c] /\ r \in InForce => r \in added[c]

(* What a load has read is in force, or was lifted since.                    *)
LoadInv ==
    \A c \in Caller : call[c] = "load" =>
        \A r \in Rule : /\ todo[c][r] <= file[r]
                        /\ todo[c][r] < file[r] /\ r \notin removed[c] => r \in InForce

(* The file holds what was reported, unless it is being written or was cut.  *)
ReportInv ==
    /\ ~cut => reported \subseteq In(file)
    /\ \A c \in Caller : call[c] = "save" => reported = {}

IInv == HistoryInv /\ FileInv /\ SaveInv /\ ClearInv /\ LoadInv /\ ReportInv

(* A change of the tables that is tracked keeps what the history says of     *)
(* calls under way.                                                          *)
LEMMA Tracked ==
    ASSUME TypeOK, IInv, Track, copies' \in Count, UNCHANGED <<call, start>>
    PROVE  /\ HistoryInv'
           /\ \A c \in Caller : call[c] # "none" =>
                 /\ added[c] \subseteq added'[c] /\ removed[c] \subseteq removed'[c]
                 /\ InForce' \ InForce \subseteq added'[c]
                 /\ InForce \ InForce' \subseteq removed'[c]
BY DEF TypeOK, IInv, HistoryInv, Track

(* A rule in force is one that is in its table.                              *)
LEMMA Blocks ==
    ASSUME TypeOK, NEW r \in Rule, copies' = Blocked(r)
    PROVE  InForce' = InForce \cup {r}
BY DEF TypeOK, Count, Blocked, InForce, In

(* The lines of a load are read to the last before it ends.                  *)
LEMMA AllRead ==
    ASSUME TypeOK, NEW c \in Caller, NextLines(c) = {}
    PROVE  \A r \in Rule : todo[c][r] = 0
<1> DEFINE left == In(todo[c])
<1>1. /\ left \subseteq Rule /\ \A r \in left : Table[r] \in 1..4
      /\ \A r \in left : \E s \in left : Table[s] < Table[r]
  BY RuleAssumption DEF RuleAssumption, NextLines, In, TypeOK
<1> HIDE DEF left
<1>2. \A r \in left : Table[r] # 1
  BY ONLY <1>1
<1>3. \A r \in left : Table[r] # 2
  BY ONLY <1>1, <1>2
<1>4. \A r \in left : Table[r] # 3
  BY ONLY <1>1, <1>2, <1>3
<1>5. left = {}
  BY ONLY <1>1, <1>2, <1>3, <1>4
<1>6. ASSUME NEW r \in Rule PROVE todo[c][r] \in Nat
  BY DEF TypeOK, Count
<1> QED
  BY <1>5, <1>6 DEF left, In

(* Another caller that begins or ends a call leaves a caller alone; one that *)
(* begins starts with a clean history, one that ends is done.                *)
LEMMA Others ==
    ASSUME TypeOK, NEW c \in Caller, NEW d \in Caller, c # d, NEW kind,
           Begin(d, kind) \/ End(d, kind)
    PROVE  /\ call'[c] = call[c] /\ step'[c] = step[c] /\ start'[c] = start[c]
           /\ added'[c] = added[c] /\ removed'[c] = removed[c]
BY DEF TypeOK, Begin, End

LEMMA Own ==
    ASSUME TypeOK, NEW c \in Caller, NEW kind
    PROVE  /\ Begin(c, kind) =>
                /\ call'[c] = kind /\ step'[c] = 1 /\ start'[c] = InForce
                /\ added'[c] = {} /\ removed'[c] = {} /\ UNCHANGED copies
           /\ End(c, kind) => call[c] = kind /\ call'[c] = "none" /\ UNCHANGED <<copies, todo>>
BY DEF TypeOK, Begin, End

LEMMA HistoryStep == TypeOK /\ TypeOK' /\ IInv /\ [Next]_vars => HistoryInv'
<1> SUFFICES ASSUME TypeOK, TypeOK', IInv, [Next]_vars PROVE HistoryInv'
  OBVIOUS
<1>1. ASSUME NEW r \in Rule, Block(r) \/ Unblock(r) PROVE HistoryInv'
  BY <1>1, Tracked DEF Block, Unblock, TypeOK
<1>2. ASSUME NEW c \in Caller, ClearTable(c) PROVE HistoryInv'
  BY <1>2, Tracked DEF ClearTable, TypeOK
<1>3. ASSUME NEW c \in Caller, NEW r \in Rule, LoadLine(c, r) PROVE HistoryInv'
  BY <1>3, Tracked DEF LoadLine, TypeOK
<1>4. ASSUME NEW c \in Caller, NEW kind, Begin(c, kind) PROVE HistoryInv'
  BY <1>4 DEF Begin, IInv, HistoryInv, TypeOK, InForce
<1>5. ASSUME NEW c \in Caller, NEW kind, End(c, kind) PROVE HistoryInv'
  BY <1>5 DEF End, IInv, HistoryInv, TypeOK, InForce
<1>6. ASSUME NEW c \in Caller, SaveTable(c) PROVE HistoryInv'
  BY <1>6 DEF SaveTable, IInv, HistoryInv, InForce
<1>7. CASE Crash
  BY <1>7 DEF Crash, HistoryInv
<1>8. CASE UNCHANGED vars
  BY <1>8 DEF vars, IInv, HistoryInv, InForce
<1> QED
  BY <1>1, <1>2, <1>3, <1>4, <1>5, <1>6, <1>7, <1>8
     DEF Next, BeginClear, BeginSave, BeginLoad, EndClear, EndSave, EndLoad

LEMMA FileStep == TypeOK /\ IInv /\ [Next]_vars => FileInv'
<1> SUFFICES ASSUME TypeOK, IInv, [Next]_vars PROVE FileInv'
  OBVIOUS
<1> USE DEF IInv, FileInv, TypeOK
<1>1. ASSUME NEW c \in Caller, BeginClear(c) \/ BeginSave(c) \/ BeginLoad(c) PROVE FileInv'
  BY <1>1 DEF BeginClear, BeginSave, BeginLoad, Begin
<1>2. ASSUME NEW c \in Caller, NEW kind, End(c, kind) PROVE FileInv'
  BY <1>2 DEF End
<1>3. CASE UNCHANGED call
  BY <1>3
<1>4. CASE Crash
  BY <1>4 DEF Crash
<1> QED
  BY <1>1, <1>2, <1>3, <1>4
     DEF Next, vars, Block, Unblock, ClearTable, SaveTable, LoadLine, EndClear, EndSave, EndLoad

LEMMA SaveStep == TypeOK /\ TypeOK' /\ IInv /\ [Next]_vars => SaveInv'
<1> SUFFICES ASSUME TypeOK, TypeOK', IInv, [Next]_vars,
                    NEW c \in Caller, call'[c] = "save",
                    NEW r \in Rule, Table[r] < step'[c]
             PROVE  /\ r \in start'[c] \ removed'[c] => file'[r] > 0
                    /\ file'[r] > 0 => r \in start'[c] \cup added'[c]
  BY DEF SaveInv
<1> USE RuleAssumption
<1>1. CASE /\ call[c] = "save" /\ UNCHANGED file /\ step'[c] = step[c] /\ start'[c] = start[c]
           /\ added[c] \subseteq added'[c] /\ removed[c] \subseteq removed'[c]
  BY <1>1 DEF IInv, SaveInv
<1>2. CASE UNCHANGED <<file, start, call, step>> /\ Track
  <2>1. copies' \in Count
    BY DEF TypeOK
  <2> QED
    BY <2>1, <1>1, <1>2, Tracked
<1>3. ASSUME NEW d \in Caller, ClearTable(d)
      PROVE  /\ call[c] = "save" /\ UNCHANGED file /\ step'[c] = step[c] /\ start'[c] = start[c]
             /\ added[c] \subseteq added'[c] /\ removed[c] \subseteq removed'[c]
  <2>1. copies' \in Count /\ Track /\ UNCHANGED <<call, start, file>>
    BY <1>3 DEF ClearTable, TypeOK
  <2>2. step'[c] = step[c]
    BY <1>3, <2>1 DEF ClearTable, At, TypeOK
  <2> QED
    BY <2>1, <2>2, Tracked
<1>4. ASSUME NEW d \in Caller, c # d, BeginClear(d) \/ BeginLoad(d) \/ EndClear(d) \/ EndLoad(d)
      PROVE  /\ call[c] = "save" /\ UNCHANGED file /\ step'[c] = step[c] /\ start'[c] = start[c]
             /\ added[c] \subseteq added'[c] /\ removed[c] \subseteq removed'[c]
  BY <1>4, Others DEF BeginClear, BeginLoad, EndClear, EndLoad
<1>5. ASSUME NEW d \in Caller, BeginClear(d) \/ BeginLoad(d) \/ EndClear(d) \/ EndLoad(d) \/ EndSave(d)
      PROVE  c # d
  BY <1>5, Own DEF BeginClear, BeginLoad, EndClear, EndLoad, EndSave
<1>6. ASSUME NEW d \in Caller, BeginSave(d) \/ EndSave(d) PROVE c = d
  <2>1. CASE c # d
    <3>1. call[c] = "save"
      BY <1>6, <2>1, Others DEF BeginSave, EndSave
    <3>2. BeginSave(d) => call[c] \notin {"save", "load"}
      BY DEF BeginSave
    <3>3. EndSave(d) => call[d] = "save"
      BY DEF EndSave, End
    <3> QED
      BY <1>6, <2>1, <3>1, <3>2, <3>3 DEF IInv, FileInv
  <2> QED
    BY <2>1
<1>7. CASE BeginSave(c)
  BY <1>7, Own DEF BeginSave, TypeOK
<1>8. ASSUME NEW d \in Caller, SaveTable(d) PROVE c = d
  BY <1>8 DEF SaveTable, At, IInv, FileInv
<1>9. CASE SaveTable(c)
  <2>1. CASE Table[r] = step[c]
    BY <1>9, <2>1 DEF SaveTable, At, IInv, HistoryInv, TypeOK, Count, InForce, In
  <2>2. CASE Table[r] < step[c]
    BY <1>9, <2>2 DEF SaveTable, At, IInv, SaveInv, TypeOK
  <2>3. step'[c] = step[c] + 1
    BY <1>9 DEF SaveTable, TypeOK
  <2> QED
    BY <2>1, <2>2, <2>3 DEF TypeOK
<1>10. ~ Crash
  BY DEF Crash
<1>11. CASE UNCHANGED vars
  BY <1>1, <1>11 DEF vars
<1>12. ASSUME NEW q \in Rule, Block(q) \/ Unblock(q) \/ \E d \in Caller : LoadLine(d, q)
       PROVE  UNCHANGED <<file, start, call, step>> /\ Track
  BY <1>12 DEF Block, Unblock, LoadLine
<1> QED
  BY <1>1, <1>2, <1>3, <1>4, <1>5, <1>6, <1>7, <1>8, <1>9, <1>10, <1>11, <1>12 DEF Next

LEMMA ClearStep == TypeOK /\ TypeOK' /\ IInv /\ [Next]_vars => ClearInv'
<1> SUFFICES ASSUME TypeOK, TypeOK', IInv, [Next]_vars,
                    NEW c \in Caller, call'[c] = "clear",
                    NEW r \in Rule, Table[r] < step'[c], r \in InForce'
             PROVE  r \in added'[c]
  BY DEF ClearInv
<1> USE RuleAssumption
<1>1. CASE UNCHANGED <<call, start>> /\ step'[c] = step[c] /\ Track
  <2>1. copies' \in Count
    BY DEF TypeOK
  <2> QED
    BY <2>1, <1>1, Tracked DEF IInv, ClearInv
<1>2. ASSUME NEW q \in Rule, Block(q) \/ Unblock(q) \/ \E d \in Caller : LoadLine(d, q)
      PROVE  UNCHANGED <<call, start, step>> /\ Track
  BY <1>2 DEF Block, Unblock, LoadLine
<1>3. ASSUME NEW d \in Caller, d # c, ClearTable(d)
      PROVE  UNCHANGED <<call, start>> /\ step'[c] = step[c] /\ Track
  BY <1>3 DEF ClearTable, TypeOK
<1>4. CASE ClearTable(c)
  <2>1. copies' \in Count /\ Track /\ UNCHANGED <<call, start>> /\ step'[c] = step[c] + 1
    BY <1>4 DEF ClearTable, TypeOK
  <2>2. Table[r] # step[c] /\ r \in InForce
    BY <1>4 DEF ClearTable, Cleared, InForce, In, TypeOK, Count
  <2>3. Table[r] < step[c]
    BY <2>1, <2>2 DEF TypeOK
  <2> QED
    BY <2>1, <2>2, <2>3, Tracked DEF IInv, ClearInv
<1>5. ASSUME NEW d \in Caller, NEW kind, Begin(d, kind) \/ End(d, kind) PROVE r \in added'[c]
  <2>1. CASE d = c
    BY <1>5, <2>1, Own
  <2>2. CASE d # c
    BY <1>5, <2>2, Others, Own DEF IInv, ClearInv, InForce
  <2> QED
    BY <2>1, <2>2
<1>6. ASSUME NEW d \in Caller, SaveTable(d) PROVE r \in added'[c]
  BY <1>6 DEF SaveTable, At, IInv, ClearInv, InForce, TypeOK
<1>7. ~ Crash
  BY DEF Crash
<1>8. CASE UNCHANGED vars
  BY <1>8 DEF vars, IInv, ClearInv, InForce
<1> QED
  BY <1>1, <1>2, <1>3, <1>4, <1>5, <1>6, <1>7, <1>8
     DEF Next, BeginClear, BeginSave, BeginLoad, EndClear, EndSave, EndLoad

LEMMA LoadStep == TypeOK /\ TypeOK' /\ IInv /\ [Next]_vars => LoadInv'
<1> SUFFICES ASSUME TypeOK, TypeOK', IInv, [Next]_vars,
                    NEW c \in Caller, call'[c] = "load", NEW r \in Rule
             PROVE  /\ todo'[c][r] <= file'[r]
                    /\ todo'[c][r] < file'[r] /\ r \notin removed'[c] => r \in InForce'
  BY DEF LoadInv
<1>1. CASE UNCHANGED <<call, start, file>> /\ todo'[c] = todo[c] /\ Track
  <2>1. copies' \in Count
    BY DEF TypeOK
  <2> QED
    BY <2>1, <1>1, Tracked DEF IInv, LoadInv
<1>2. ASSUME NEW q \in Rule, Block(q) \/ Unblock(q) \/ \E d \in Caller : ClearTable(d)
      PROVE  UNCHANGED <<call, start, file, todo>> /\ Track
  BY <1>2 DEF Block, Unblock, ClearTable
<1>3. ASSUME NEW d \in Caller, d # c, NEW q \in Rule, LoadLine(d, q)
      PROVE  UNCHANGED <<call, start, file>> /\ todo'[c] = todo[c] /\ Track
  BY <1>3 DEF LoadLine, TypeOK
<1>4. ASSUME NEW q \in Rule, LoadLine(c, q)
      PROVE  /\ todo'[c][r] <= file'[r]
             /\ todo'[c][r] < file'[r] /\ r \notin removed'[c] => r \in InForce'
  <2>1. copies' \in Count /\ Track /\ UNCHANGED <<call, start, file>> /\ copies' = Blocked(q)
    BY <1>4 DEF LoadLine, TypeOK
  <2>2. InForce' = InForce \cup {q}
    BY <2>1, Blocks
  <2>3. todo[c][r] <= file[r] /\ (todo[c][r] < file[r] /\ r \notin removed[c] => r \in InForce)
    BY <2>1 DEF IInv, LoadInv
  <2>4. todo[c][q] \in Nat /\ file[r] \in Nat
    BY DEF TypeOK, Count
  <2>5. todo'[c][r] = IF r = q THEN todo[c][q] - 1 ELSE todo[c][r]
    BY <1>4 DEF LoadLine, TypeOK, Count
  <2>6. removed[c] \subseteq removed'[c]
    BY <2>1, Tracked
  <2> QED
    BY <2>1, <2>2, <2>3, <2>4, <2>5, <2>6
<1>5. ASSUME NEW d \in Caller, BeginSave(d) \/ SaveTable(d) \/ EndSave(d) PROVE FALSE
  <2>1. CASE BeginSave(d)
    <3>1. call[c] # "load" /\ Begin(d, "save")
      BY <2>1 DEF BeginSave
    <3> QED
      BY <3>1, Others, Own
  <2>2. CASE SaveTable(d)
    BY <2>2 DEF SaveTable, At, IInv, FileInv
  <2>3. CASE EndSave(d)
    <3>1. call[d] = "save" /\ End(d, "save") /\ c # d
      BY <2>3, Own DEF EndSave
    <3> QED
      BY <3>1, Others DEF IInv, FileInv
  <2> QED
    BY <1>5, <2>1, <2>2, <2>3
<1>6. ASSUME NEW d \in Caller, d # c, BeginClear(d) \/ EndClear(d) \/ BeginLoad(d) \/ EndLoad(d)
      PROVE  /\ UNCHANGED <<file, copies>> /\ todo'[c] = todo[c] /\ call[c] = "load"
             /\ removed'[c] = removed[c]
  BY <1>6, Others, Own DEF BeginClear, EndClear, BeginLoad, EndLoad, TypeOK, Begin
<1>7. CASE call[c] = "load" /\ UNCHANGED <<file, copies>> /\ todo'[c] = todo[c] /\ removed'[c] = removed[c]
  BY <1>7 DEF IInv, LoadInv, InForce
<1>8. CASE BeginLoad(c)
  <2>1. todo'[c] = file /\ file' = file
    BY <1>8 DEF BeginLoad, TypeOK
  <2> QED
    BY <2>1 DEF TypeOK, Count
<1>9. ~ BeginClear(c) /\ ~ EndClear(c) /\ ~ EndLoad(c)
  BY Own DEF BeginClear, EndClear, EndLoad
<1>10. ~ Crash
  BY DEF Crash
<1>11. CASE UNCHANGED vars
  BY <1>7, <1>11 DEF vars
<1> QED
  BY <1>1, <1>2, <1>3, <1>4, <1>5, <1>6, <1>7, <1>8, <1>9, <1>10, <1>11 DEF Next

LEMMA ReportStep == TypeOK /\ TypeOK' /\ IInv /\ [Next]_vars => ReportInv'
<1> SUFFICES ASSUME TypeOK, TypeOK', IInv, [Next]_vars PROVE ReportInv'
  OBVIOUS
<1>1. CASE UNCHANGED <<file, cut, reported, call>>
  BY <1>1 DEF IInv, ReportInv
<1>2. ASSUME NEW c \in Caller, BeginClear(c) \/ EndClear(c) \/ BeginLoad(c) \/ EndLoad(c)
      PROVE  UNCHANGED <<file, cut, reported>> /\ \A d \in Caller : call'[d] = "save" => call[d] = "save"
  <2>1. UNCHANGED <<file, cut, reported>>
    BY <1>2 DEF BeginClear, EndClear, BeginLoad, EndLoad, Begin
  <2>2. call'[c] # "save"
    BY <1>2, Own DEF BeginClear, EndClear, BeginLoad, EndLoad
  <2>3. \A d \in Caller \ {c} : call'[d] = call[d]
    BY <1>2, Others DEF BeginClear, EndClear, BeginLoad, EndLoad
  <2> QED
    BY <2>1, <2>2, <2>3
<1>3. CASE UNCHANGED <<file, cut, reported>> /\ \A d \in Caller : call'[d] = "save" => call[d] = "save"
  BY <1>3 DEF IInv, ReportInv
<1>4. ASSUME NEW c \in Caller, BeginSave(c) PROVE ReportInv'
  BY <1>4 DEF BeginSave, ReportInv
<1>5. ASSUME NEW c \in Caller, SaveTable(c) PROVE ReportInv'
  <2>1. reported = {} /\ reported' = {}
    BY <1>5 DEF SaveTable, At, IInv, ReportInv
  <2> QED
    BY <2>1 DEF ReportInv
<1>6. ASSUME NEW c \in Caller, EndSave(c) PROVE ReportInv'
  <2>1. ~cut' => file' = file
    BY <1>6 DEF EndSave
  <2>2. call[c] = "save" /\ step[c] = 5 /\ reported' = start[c] \ removed[c]
    BY <1>6 DEF EndSave, End
  <2>3. \A r \in Rule : Table[r] < 5
    BY RuleAssumption
  <2>4. reported' \subseteq In(file)
    BY <2>2, <2>3 DEF IInv, SaveInv, In, TypeOK
  <2>5. \A d \in Caller : call'[d] # "save"
    BY <1>6, <2>2, Others, Own DEF EndSave, IInv, FileInv
  <2> QED
    BY <2>1, <2>4, <2>5 DEF ReportInv, In
<1>7. CASE Crash
  BY <1>7 DEF Crash, IInv, ReportInv, In
<1> QED
  BY <1>1, <1>2, <1>3, <1>4, <1>5, <1>6, <1>7
     DEF Next, vars, Block, Unblock, ClearTable, LoadLine

LEMMA IInvCorrect == Spec => [](TypeOK /\ IInv)
<1>1. Init => IInv
  BY DEF Init, IInv, HistoryInv, FileInv, SaveInv, ClearInv, LoadInv, ReportInv, In
<1>2. TypeOK /\ TypeOK' /\ IInv /\ [Next]_vars => IInv'
  BY HistoryStep, FileStep, SaveStep, ClearStep, LoadStep, ReportStep DEF IInv
<1> QED
  BY <1>1, <1>2, TypeCorrect, PTL DEF Spec

(* What a save finds in the tables is what the file promises                 *)
(* (rule_manager.cpp:246-282).                                               *)
THEOREM SaveFaithfulCorrect == Spec => SaveFaithful
<1> DEFINE A == \A c \in Caller : EndSave(c) /\ ~cut' =>
                   /\ start[c] \ removed[c] \subseteq In(file')
                   /\ In(file') \subseteq start[c] \cup added[c]
<1>1. TypeOK /\ IInv /\ [Next]_vars => A
  <2> SUFFICES ASSUME TypeOK, IInv, NEW c \in Caller, EndSave(c), ~cut'
               PROVE  /\ start[c] \ removed[c] \subseteq In(file')
                      /\ In(file') \subseteq start[c] \cup added[c]
    OBVIOUS
  <2>1. call[c] = "save" /\ step[c] = 5 /\ file' = file
    BY DEF EndSave, End
  <2>2. \A r \in Rule : Table[r] < 5
    BY RuleAssumption
  <2> QED
    BY <2>1, <2>2 DEF IInv, SaveInv, In, TypeOK
<1> QED
  BY <1>1, IInvCorrect, PTL DEF Spec, SaveFaithful

(* A clearAll leaves nothing that was there when it began                    *)
(* (rule_manager.cpp:326-345).                                               *)
THEOREM ClearedStayGoneCorrect == Spec => ClearedStayGone
<1>1. TypeOK /\ IInv => \A c \in Caller : EndClear(c) => InForce \subseteq added[c]
  <2> SUFFICES ASSUME TypeOK, IInv, NEW c \in Caller, EndClear(c) PROVE InForce \subseteq added[c]
    OBVIOUS
  <2>1. call[c] = "clear" /\ step[c] = 5
    BY DEF EndClear, End
  <2>2. \A r \in Rule : Table[r] < 5
    BY RuleAssumption
  <2> QED
    BY <2>1, <2>2 DEF IInv, ClearInv, InForce, In
<1> QED
  BY <1>1, IInvCorrect, PTL DEF Spec, ClearedStayGone

(* What the last whole save reported is in force after a load                *)
(* (rule_manager.cpp:284-324).                                               *)
THEOREM LoadRestoresCorrect == Spec => LoadRestores
<1>1. TypeOK /\ IInv => \A c \in Caller : EndLoad(c) /\ ~cut => reported \ removed[c] \subseteq InForce
  <2> SUFFICES ASSUME TypeOK, IInv, NEW c \in Caller, EndLoad(c), ~cut,
                      NEW r \in reported, r \notin removed[c]
               PROVE  r \in InForce
    OBVIOUS
  <2>1. call[c] = "load" /\ NextLines(c) = {}
    BY DEF EndLoad, End
  <2>2. r \in Rule /\ todo[c][r] = 0
    BY <2>1, AllRead DEF TypeOK
  <2>3. file[r] > 0
    BY DEF IInv, ReportInv, In
  <2> QED
    BY <2>1, <2>2, <2>3 DEF IInv, LoadInv
<1> QED
  BY <1>1, IInvCorrect, PTL DEF Spec, LoadRestores

-----------------------------------------------------------------------------
(* The end of a text that is long enough is the part after its front.        *)
LEMMA EndsWithFront ==
    ASSUME NEW text \in Seq(Char), NEW suffix \in Seq(Char)
    PROVE  EndsWith(text, suffix) <=> \E front \in Seq(Char) : text = front \o suffix
<1>1. ASSUME EndsWith(text, suffix)
      PROVE  \E front \in Seq(Char) : text = front \o suffix
  <2> DEFINE n == Len(text) - Len(suffix)
             front == SubSeq(text, 1, n)
  <2>1. n \in 0..Len(text)
    BY <1>1 DEF EndsWith
  <2>2. front \in Seq(Char) /\ Len(front) = n
    BY <2>1
  <2>3. suffix = SubSeq(text, n + 1, Len(text))
    BY <1>1 DEF EndsWith
  <2>4. Len(front \o suffix) = Len(text)
    BY <2>1, <2>2
  <2>5. \A i \in 1..Len(text) : text[i] = (front \o suffix)[i]
    BY <2>1, <2>2, <2>3
  <2>6. front \o suffix \in Seq(Char)
    BY <2>2
  <2>7. text = front \o suffix
    BY <2>4, <2>5, <2>6, SeqEqual
  <2> QED
    BY <2>2, <2>7
<1>2. ASSUME NEW front \in Seq(Char), text = front \o suffix
      PROVE  EndsWith(text, suffix)
  <2>1. Len(text) = Len(front) + Len(suffix)
    BY <1>2
  <2>2. SubSeq(text, Len(front) + 1, Len(text)) = suffix
    BY <1>2, <2>1
  <2> QED
    BY <2>1, <2>2 DEF EndsWith
<1> QED
  BY <1>1, <1>2

(* A text put in front leaves the end alone.                                 *)
LEMMA EndsWithLonger ==
    ASSUME NEW text \in Seq(Char), NEW suffix \in Seq(Char), NEW front \in Seq(Char),
           EndsWith(text, suffix)
    PROVE  EndsWith(front \o text, suffix)
<1> DEFINE n == Len(text) - Len(suffix)
           longer == front \o text
           end == SubSeq(longer, Len(front) + n + 1, Len(longer))
<1>1. n \in 0..Len(text) /\ suffix = SubSeq(text, n + 1, Len(text))
  BY DEF EndsWith
<1>2. longer \in Seq(Char) /\ Len(longer) = Len(front) + Len(text)
  OBVIOUS
<1>3. end \in Seq(Char) /\ Len(end) = Len(suffix)
  BY <1>1, <1>2
<1>4. ASSUME NEW i \in 1..Len(suffix)
      PROVE  end[i] = suffix[i]
  <2>1. n + i \in 1..Len(text) /\ Len(front) + n + i \in 1..Len(longer)
    BY <1>1, <1>2
  <2>2. suffix[i] = text[n + i]
    <3>1. suffix[i] = SubSeq(text, n + 1, Len(text))[i]
      BY <1>1
    <3>2. SubSeq(text, n + 1, Len(text))[i] = text[n + 1 + i - 1]
      BY <1>1, <2>1
    <3>3. n + 1 + i - 1 = n + i
      BY <1>1
    <3> QED
      BY <3>1, <3>2, <3>3
  <2>3. longer[Len(front) + n + i] = text[n + i]
    BY <1>1, <2>1
  <2>4. end[i] = longer[Len(front) + n + i]
    <3> HIDE DEF longer
    <3> QED
      BY <1>1, <1>2, <2>1
  <2> QED
    BY <2>2, <2>3, <2>4
<1>5. end = suffix
  BY <1>3, <1>4, SeqEqual
<1> QED
  BY <1>1, <1>2, <1>5 DEF EndsWith

(* The pattern of a wildcard: its parts after the asterisk and after the dot.*)
LEMMA WildcardParts ==
    ASSUME NEW name \in Seq(Char)
    PROVE  /\ Wildcard(name) \in Seq(Char \cup {".", "*"})
           /\ Len(Wildcard(name)) = Len(name) + 2
           /\ Wildcard(name)[1] = "*" /\ Wildcard(name)[2] = "."
           /\ SubSeq(Wildcard(name), 2, Len(Wildcard(name))) = <<".">> \o name
           /\ SubSeq(Wildcard(name), 3, Len(Wildcard(name))) = name
  BY DEF Wildcard

(* A wildcard matches the name after the asterisk and the texts that end     *)
(* with a dot and that name, and no others (rule_manager.cpp:132-150).       *)
THEOREM WildcardMatches ==
    ASSUME NEW domain \in Seq(Char), NEW name \in Seq(Char)
    PROVE  DomainMatchesPattern(domain, Wildcard(name))
               <=> \/ domain = name
                   \/ \E front \in Seq(Char) : domain = front \o (<<".">> \o name)
<1>1. <<".">> \o name \in Seq(Char)
  BY DomainAssumption DEF DomainAssumption
<1>2. EndsWith(domain, <<".">> \o name)
          <=> \E front \in Seq(Char) : domain = front \o (<<".">> \o name)
  BY <1>1, EndsWithFront
<1>3. /\ Len(Wildcard(name)) >= 2 /\ Wildcard(name)[1] = "*" /\ Wildcard(name)[2] = "."
      /\ SubSeq(Wildcard(name), 2, Len(Wildcard(name))) = <<".">> \o name
      /\ SubSeq(Wildcard(name), 3, Len(Wildcard(name))) = name
  BY WildcardParts
<1>4. DomainMatchesPattern(domain, Wildcard(name))
          <=> EndsWith(domain, <<".">> \o name) \/ domain = name
  BY <1>3, Zenon DEF DomainMatchesPattern
<1> QED
  BY <1>2, <1>4, Zenon

(* Whatever a wildcard matches, it matches every name below that: a host     *)
(* cannot leave its rule by a longer name (rule_manager.cpp:132-150).        *)
THEOREM SubdomainsFollow ==
    ASSUME NEW domain \in Seq(Char), NEW host \in Seq(Char), NEW name \in Seq(Char),
           DomainMatchesPattern(domain, Wildcard(name))
    PROVE  DomainMatchesPattern(host \o (<<".">> \o domain), Wildcard(name))
<1>1. /\ <<".">> \in Seq(Char) /\ <<".">> \o name \in Seq(Char)
      /\ <<".">> \o domain \in Seq(Char) /\ host \o (<<".">> \o domain) \in Seq(Char)
  BY DomainAssumption DEF DomainAssumption
<1>2. EndsWith(domain, <<".">> \o name) \/ domain = name
  BY <1>1, WildcardMatches, EndsWithFront, Zenon
<1>3. EndsWith(host \o (<<".">> \o domain), <<".">> \o name)
  <2>1. CASE EndsWith(domain, <<".">> \o name)
    BY <1>1, <2>1, EndsWithLonger, Zenon
  <2>2. CASE domain = name
    BY <1>1, <2>2, EndsWithFront, Zenon
  <2> QED
    BY <1>2, <2>1, <2>2
<1>4. \E front \in Seq(Char) : host \o (<<".">> \o domain) = front \o (<<".">> \o name)
  BY <1>1, <1>3, EndsWithFront, Zenon
<1> QED
  BY <1>1, <1>4, WildcardMatches, Zenon

-----------------------------------------------------------------------------
(* Induction over the naturals, from the order being well-founded.           *)
LEMMA Induction ==
    ASSUME NEW S \in SUBSET Nat, 0 \in S, \A n \in S : n + 1 \in S
    PROVE  S = Nat
<1> SUFFICES ASSUME Nat \ S # {} PROVE FALSE
  OBVIOUS
<1>1. PICK m \in Nat \ S : \A n \in Nat \ S : ~ (<<n, m>> \in OpToRel(<, Nat))
  BY NatLessThanWellFounded, WFMin
<1>2. m # 0 /\ m - 1 \in Nat
  OBVIOUS
<1>3. <<m - 1, m>> \in OpToRel(<, Nat)
  BY <1>2 DEF OpToRel
<1>4. m - 1 \in S
  BY <1>1, <1>2, <1>3
<1> QED
  BY <1>4

(* The text of the first i labels, for every i.                              *)
Texts(name) == CHOOSE text : text = [i \in 1..Len(name) |->
                  IF i = 1 THEN name[1] ELSE text[i - 1] \o <<".">> \o name[i]]

(* The function Text is defined by, and its value at the last label.         *)
LEMMA TextIs ==
    ASSUME NEW name
    PROVE  Text(name) = Texts(name)[Len(name)]
  BY DEF Text, Texts

(* It exists for a name of any length.                                       *)
LEMMA TextsDefined ==
    ASSUME NEW name, Len(name) \in Nat
    PROVE  Texts(name) = [i \in 1..Len(name) |->
                  IF i = 1 THEN name[1] ELSE Texts(name)[i - 1] \o <<".">> \o name[i]]
<1> DEFINE Upto(n, text) == text = [i \in 1..n |->
                  IF i = 1 THEN name[1] ELSE text[i - 1] \o <<".">> \o name[i]]
           S == {n \in Nat : \E text : Upto(n, text)}
<1>1. 0 \in S
  <2>1. Upto(0, [i \in 1..0 |-> <<>>])
    OBVIOUS
  <2> QED
    BY <2>1
<1>2. ASSUME NEW n \in S PROVE n + 1 \in S
  <2>1. PICK text : Upto(n, text)
    OBVIOUS
  <2>2. PICK more : more = [i \in 1..(n + 1) |-> IF i = 1 THEN name[1] ELSE text[i - 1] \o <<".">> \o name[i]]
    OBVIOUS
  <2>3. \A i \in 1..n : more[i] = text[i]
    <3>1. PICK same : same = [i \in 1..n |-> IF i = 1 THEN name[1] ELSE text[i - 1] \o <<".">> \o name[i]]
      OBVIOUS
    <3>2. text = same
      BY <2>1, <3>1
    <3>3. \A i \in 1..n : more[i] = same[i]
      <4> HIDE DEF Upto
      <4> QED
        BY ONLY <2>2, <3>1, n \in Nat
    <3> QED
      BY <3>2, <3>3
  <2>4. Upto(n + 1, more)
    <3>1. PICK next : next = [i \in 1..(n + 1) |-> IF i = 1 THEN name[1] ELSE more[i - 1] \o <<".">> \o name[i]]
      OBVIOUS
    <3>2. \A i \in 2..(n + 1) : more[i - 1] = text[i - 1]
      BY <2>3
    <3>3. \A i \in 1..(n + 1) : more[i] = next[i]
      <4> SUFFICES ASSUME NEW i \in 1..(n + 1) PROVE more[i] = next[i]
        OBVIOUS
      <4>1. CASE i = 1
        BY ONLY <2>2, <3>1, <4>1, n \in Nat
      <4>2. CASE i # 1
        <5>1. i \in 2..(n + 1)
          BY <4>2
        <5>2. more[i - 1] = text[i - 1]
          BY <3>2, <5>1
        <5> QED
          BY ONLY <2>2, <3>1, <4>2, <5>2, i \in 1..(n + 1)
      <4> QED
        BY <4>1, <4>2
    <3>4. more = next
      BY ONLY <2>2, <3>1, <3>3
    <3> QED
      BY <3>1, <3>4
  <2>5. n + 1 \in Nat
    OBVIOUS
  <2> HIDE DEF Upto
  <2> QED
    BY <2>4, <2>5
<1>3. S = Nat
  <2> HIDE DEF S
  <2> QED
    BY <1>1, <1>2, Induction DEF S
<1>4. \E text : Upto(Len(name), text)
  BY <1>3
<1> QED
  BY <1>4 DEF Texts

(* Its values are texts, each the one before, a dot and a label.             *)
LEMMA TextsAt ==
    ASSUME NEW name \in Seq(Seq(Char)), Len(name) > 0
    PROVE  /\ Texts(name)[1] = name[1]
           /\ \A i \in 2..Len(name) : Texts(name)[i] = Texts(name)[i - 1] \o <<".">> \o name[i]
           /\ \A i \in 1..Len(name) : Texts(name)[i] \in Seq(Char)
<1>0. Len(name) \in Nat /\ \A i \in 1..Len(name) : name[i] \in Seq(Char)
  OBVIOUS
<1>1. PICK text : text = Texts(name)
  OBVIOUS
<1>2. PICK same : same = [i \in 1..Len(name) |-> IF i = 1 THEN name[1] ELSE text[i - 1] \o <<".">> \o name[i]]
  OBVIOUS
<1>3. text = same
  BY <1>0, <1>1, <1>2, TextsDefined
<1>4. text[1] = name[1] /\ \A i \in 2..Len(name) : text[i] = text[i - 1] \o <<".">> \o name[i]
  <2>1. same[1] = name[1]
    BY <1>0, <1>2
  <2>2. ASSUME NEW i \in 2..Len(name) PROVE same[i] = text[i - 1] \o <<".">> \o name[i]
    <3>1. i \in 1..Len(name) /\ i # 1
      BY <1>0
    <3> QED
      BY ONLY <1>2, <3>1
  <2> QED
    BY <1>3, <2>1, <2>2
<1>5. \A i \in 1..Len(name) : text[i] \in Seq(Char)
  <2> DEFINE S == {n \in Nat : n + 1 \in 1..Len(name) => text[n + 1] \in Seq(Char)}
  <2>1. 0 \in S
    BY <1>0, <1>4
  <2>2. ASSUME NEW n \in S PROVE n + 1 \in S
    <3>1. CASE n + 2 \in 1..Len(name)
      <4>1. text[n + 1] \in Seq(Char) /\ name[n + 2] \in Seq(Char) /\ <<".">> \in Seq(Char)
        BY <1>0, <3>1, DomainAssumption DEF DomainAssumption
      <4>2. text[n + 2] = text[n + 1] \o <<".">> \o name[n + 2]
        <5>1. n + 2 \in 2..Len(name) /\ (n + 2) - 1 = n + 1
          BY <1>0, <3>1
        <5> QED
          BY <1>4, <5>1
      <4>3. text[n + 2] \in Seq(Char)
        BY <4>1, <4>2
      <4> QED
        BY <4>3
    <3> QED
      BY <3>1
  <2>3. S = Nat
    <3> HIDE DEF S
    <3> QED
      BY <2>1, <2>2, Induction DEF S
  <2>4. ASSUME NEW i \in 1..Len(name) PROVE text[i] \in Seq(Char)
    <3>1. i - 1 \in Nat /\ (i - 1) + 1 = i
      BY <1>0
    <3>2. i - 1 \in S
      BY ONLY <2>3, <3>1
    <3> QED
      BY <3>1, <3>2
  <2> QED
    BY <2>4
<1> QED
  BY <1>1, <1>4, <1>5

(* The characters around a dot.                                              *)
LEMMA Around ==
    ASSUME NEW p \in Seq(Char), NEW u \in Seq(Char)
    PROVE  LET x == p \o <<".">> \o u
           IN /\ Len(p) \in Nat /\ Len(u) \in Nat /\ Len(x) = Len(p) + 1 + Len(u)
              /\ \A i \in 1..Len(p) : x[i] = p[i]
              /\ x[Len(p) + 1] = "."
              /\ \A i \in 1..Len(u) : x[Len(p) + 1 + i] = u[i]
  OBVIOUS

(* A label has no dot.                                                       *)
LEMMA Dots ==
    ASSUME NEW u \in Dotless
    PROVE  u \in Seq(Char) /\ Len(u) \in Nat /\ \A i \in 1..Len(u) : u[i] # "."
  BY DEF Dotless

(* Two texts put together, and two around a dot, as operations of their own. *)
Cat(x, y) == x \o y
Dotted(x, u) == x \o <<".">> \o u

(* A text ends with one label in one way only. *)
LEMMA LastLabel ==
    ASSUME NEW p \in Seq(Char), NEW q \in Seq(Char), NEW u \in Dotless, NEW v \in Dotless,
           Dotted(p, u) = Dotted(q, v)
    PROVE  p = q /\ u = v
<1>1. PICK P, Q, U, V : P = Len(p) /\ Q = Len(q) /\ U = Len(u) /\ V = Len(v)
  OBVIOUS
<1>2. P \in Nat /\ Q \in Nat /\ U \in Nat /\ V \in Nat
  BY <1>1, Dots
<1>3. PICK x : x = p \o <<".">> \o u /\ x = q \o <<".">> \o v
  BY Zenon DEF Dotted
<1>4. /\ Len(x) = P + 1 + U /\ \A i \in 1..P : x[i] = p[i]
      /\ x[P + 1] = "." /\ \A i \in 1..U : x[P + 1 + i] = u[i]
  BY <1>1, <1>3, Around, Dots
<1>5. /\ Len(x) = Q + 1 + V /\ \A i \in 1..Q : x[i] = q[i]
      /\ x[Q + 1] = "." /\ \A i \in 1..V : x[Q + 1 + i] = v[i]
  <2>1. PICK y : y = q \o <<".">> \o v
    OBVIOUS
  <2>2. /\ Len(y) = Q + 1 + V /\ \A i \in 1..Q : y[i] = q[i]
        /\ y[Q + 1] = "." /\ \A i \in 1..V : y[Q + 1 + i] = v[i]
    BY <1>1, <2>1, Around, Dots
  <2>3. x = y
    BY <1>3, <2>1
  <2> QED
    BY <2>2, <2>3
<1>6. /\ \A i \in 1..U : u[i] # "."
      /\ \A i \in 1..V : v[i] # "."
  BY <1>1, Dots
<1>7. ~(P < Q)
  <2> SUFFICES ASSUME P < Q PROVE FALSE
    OBVIOUS
  <2>1. PICK d : d = Q - P
    OBVIOUS
  <2>2. d \in 1..U /\ P + 1 + d = Q + 1
    BY <1>2, <1>4, <1>5, <2>1
  <2> QED
    BY <1>4, <1>5, <1>6, <2>2
<1>8. ~(Q < P)
  <2> SUFFICES ASSUME Q < P PROVE FALSE
    OBVIOUS
  <2>1. PICK d : d = P - Q
    OBVIOUS
  <2>2. d \in 1..V /\ Q + 1 + d = P + 1
    BY <1>2, <1>4, <1>5, <2>1
  <2> QED
    BY <1>4, <1>5, <1>6, <2>2
<1>9. P = Q /\ U = V
  BY <1>2, <1>4, <1>5, <1>7, <1>8
<1>10. p = q
  <2>1. \A i \in 1..P : p[i] = q[i]
    BY <1>4, <1>5, <1>9
  <2> QED
    BY <1>1, <1>9, <2>1, SeqEqual
<1>11. u = v
  <2>1. \A i \in 1..U : u[i] = v[i]
    BY <1>4, <1>5, <1>9
  <2> QED
    BY <1>1, <1>9, <2>1, SeqEqual, Dots
<1> QED
  BY <1>10, <1>11

(* So no label is two texts around a dot.                                    *)
LEMMA DotInside ==
    ASSUME NEW q \in Seq(Char), NEW w \in Seq(Char), NEW u \in Dotless
    PROVE  u # Dotted(q, w)
<1> SUFFICES ASSUME u = q \o <<".">> \o w PROVE FALSE
  BY Zenon DEF Dotted
<1>1. PICK y, n : y = q \o <<".">> \o w /\ n = Len(q) + 1
  OBVIOUS
<1>2. y[n] = "." /\ n \in 1..Len(y)
  BY <1>1, Around
<1>3. u = y
  BY <1>1
<1> QED
  BY <1>2, <1>3, Dots

(* The j labels of b up to its j-th are the last of those of a up to its i-th. *)
EndsAlike(a, i, b, j) == i >= j /\ \A k \in 0..(j - 1) : a[i - k] = b[j - k]

(* Ending alike, from the last label to the one before.                      *)
LEMMA EndsAlikeStep ==
    ASSUME NEW a, NEW b, NEW i \in Nat, NEW j \in Nat, i > 1, j > 1
    PROVE  EndsAlike(a, i, b, j) <=> a[i] = b[j] /\ EndsAlike(a, i - 1, b, j - 1)
<1>1. ASSUME EndsAlike(a, i, b, j) PROVE a[i] = b[j] /\ EndsAlike(a, i - 1, b, j - 1)
  <2>1. a[i - 0] = b[j - 0]
    BY <1>1 DEF EndsAlike
  <2>2. ASSUME NEW k \in 0..(j - 2) PROVE a[(i - 1) - k] = b[(j - 1) - k]
    <3>1. a[i - (k + 1)] = b[j - (k + 1)]
      BY <1>1 DEF EndsAlike
    <3>2. i - (k + 1) = (i - 1) - k /\ j - (k + 1) = (j - 1) - k
      OBVIOUS
    <3> QED
      BY <3>1, <3>2
  <2>3. i - 0 = i /\ j - 0 = j /\ i - 1 >= j - 1 /\ (j - 1) - 1 = j - 2
    BY <1>1 DEF EndsAlike
  <2> QED
    BY <2>1, <2>2, <2>3 DEF EndsAlike
<1>2. ASSUME a[i] = b[j], EndsAlike(a, i - 1, b, j - 1) PROVE EndsAlike(a, i, b, j)
  <2>1. ASSUME NEW k \in 0..(j - 1) PROVE a[i - k] = b[j - k]
    <3>1. CASE k = 0
      BY <1>2, <3>1
    <3>2. CASE k # 0
      <4>1. PICK n : n = k - 1
        OBVIOUS
      <4>2. n \in 0..((j - 1) - 1) /\ (i - 1) - n = i - k /\ (j - 1) - n = j - k
        BY <3>2, <4>1
      <4>3. a[(i - 1) - n] = b[(j - 1) - n]
        BY <1>2, <4>2 DEF EndsAlike
      <4> QED
        BY <4>2, <4>3
    <3> QED
      BY <3>1, <3>2
  <2>2. i >= j
    BY <1>2 DEF EndsAlike
  <2> QED
    BY <2>1, <2>2 DEF EndsAlike
<1> QED
  BY <1>1, <1>2

(* x ends with a dot and y.                                                  *)
Under(x, y) == \E front \in Seq(Char) : x = front \o (<<".">> \o y)

LEMMA Associative ==
    ASSUME NEW x \in Seq(Char), NEW y \in Seq(Char), NEW z \in Seq(Char)
    PROVE  Cat(Cat(x, y), z) = Cat(x, Cat(y, z)) /\ Cat(x, y) \in Seq(Char)
  BY ConcatAssociative DEF Cat

(* Where the dot is put does not matter.                                     *)
LEMMA Regroup ==
    \E d \in Seq(Char) :
        /\ \A x, y \in Seq(Char) : Dotted(x, y) = Cat(Cat(x, d), y)
        /\ \A x, y \in Seq(Char) : Under(x, y) <=> \E front \in Seq(Char) : x = Cat(front, Cat(d, y))
<1>1. PICK d \in Seq(Char) : d = <<".">>
  <2>1. <<".">> \in Seq(Char)
    BY DomainAssumption DEF DomainAssumption
  <2> QED
    BY <2>1, Zenon
<1>2. ASSUME NEW x \in Seq(Char), NEW y \in Seq(Char)
      PROVE  /\ Dotted(x, y) = Cat(Cat(x, d), y)
             /\ Under(x, y) <=> \E front \in Seq(Char) : x = Cat(front, Cat(d, y))
  BY <1>1, Zenon DEF Cat, Dotted, Under
<1> QED
  BY <1>2, Zenon

LEMMA DottedIs ==
    ASSUME NEW x \in Seq(Char), NEW y \in Seq(Char)
    PROVE  /\ Dotted(x, y) \in Seq(Char)
           /\ Under(x, y) <=> \E front \in Seq(Char) : x = Dotted(front, y)
<1>1. PICK d \in Seq(Char) :
        /\ \A w, z \in Seq(Char) : Dotted(w, z) = Cat(Cat(w, d), z)
        /\ \A w, z \in Seq(Char) : Under(w, z) <=> \E front \in Seq(Char) : w = Cat(front, Cat(d, z))
  BY Regroup
<1>2. \A w, z \in Seq(Char) : Cat(w, z) \in Seq(Char)
  BY Associative
<1>3. \A w \in Seq(Char) : Cat(Cat(w, d), y) = Cat(w, Cat(d, y))
  BY Associative
<1>4. \A w \in Seq(Char) : Dotted(w, y) = Cat(w, Cat(d, y))
  BY <1>1, <1>3, Zenon
<1>5. Dotted(x, y) \in Seq(Char)
  <2>1. Cat(x, d) \in Seq(Char)
    BY <1>2
  <2>2. Cat(Cat(x, d), y) \in Seq(Char)
    BY <1>2, <2>1
  <2> QED
    BY <1>1, <2>2
<1> QED
  BY <1>1, <1>4, <1>5

(* Nor where two dots are put.                                               *)
LEMMA RegroupTwo ==
    ASSUME NEW x \in Seq(Char), NEW y \in Seq(Char), NEW z \in Seq(Char)
    PROVE  Dotted(x, Dotted(y, z)) = Dotted(Dotted(x, y), z)
<1>1. PICK d \in Seq(Char) :
        /\ \A w, t \in Seq(Char) : Dotted(w, t) = Cat(Cat(w, d), t)
        /\ \A w, t \in Seq(Char) : Under(w, t) <=> \E front \in Seq(Char) : w = Cat(front, Cat(d, t))
  BY Regroup
<1>2. /\ Cat(x, d) \in Seq(Char) /\ Cat(y, d) \in Seq(Char)
      /\ Cat(Cat(x, d), y) \in Seq(Char) /\ Cat(Cat(y, d), z) \in Seq(Char)
  BY Associative
<1>3. Cat(Cat(x, d), Cat(Cat(y, d), z)) = Cat(Cat(Cat(x, d), Cat(y, d)), z)
  BY <1>2, Associative
<1>4. Cat(Cat(x, d), Cat(y, d)) = Cat(Cat(Cat(x, d), y), d)
  BY <1>2, Associative
<1> QED
  BY <1>1, <1>2, <1>3, <1>4

(* A text with a last label, against one with a last label. *)
LEMMA Peel ==
    ASSUME NEW x \in Seq(Char), NEW y \in Seq(Char), NEW u \in Dotless, NEW v \in Dotless
    PROVE  /\ Dotted(x, u) = Dotted(y, v) <=> x = y /\ u = v
           /\ Under(Dotted(x, u), Dotted(y, v)) <=> Under(x, y) /\ u = v
           /\ Dotted(x, u) # v
           /\ Under(Dotted(x, u), v) <=> u = v
           /\ u # Dotted(y, v)
           /\ ~Under(u, Dotted(y, v))
           /\ ~Under(u, v)
<1>0. /\ u \in Seq(Char) /\ v \in Seq(Char)
      /\ Dotted(y, v) \in Seq(Char) /\ Dotted(x, u) \in Seq(Char)
  BY Dots, DottedIs
<1>1. \A p, q \in Seq(Char) : Dotted(p, u) = Dotted(q, v) <=> p = q /\ u = v
  BY LastLabel
<1>2. Under(Dotted(x, u), Dotted(y, v)) <=> Under(x, y) /\ u = v
  <2>1. Under(Dotted(x, u), Dotted(y, v))
            <=> \E f \in Seq(Char) : Dotted(x, u) = Dotted(f, Dotted(y, v))
    BY <1>0, DottedIs
  <2>2. \A f \in Seq(Char) : Dotted(f, y) \in Seq(Char)
                             /\ Dotted(f, Dotted(y, v)) = Dotted(Dotted(f, y), v)
    BY <1>0, DottedIs, RegroupTwo
  <2>3. \A f \in Seq(Char) : Dotted(x, u) = Dotted(f, Dotted(y, v)) <=> x = Dotted(f, y) /\ u = v
    BY <1>1, <2>2
  <2>4. Under(x, y) <=> \E f \in Seq(Char) : x = Dotted(f, y)
    BY DottedIs
  <2> QED
    BY <2>1, <2>3, <2>4
<1>3. \A q, w \in Seq(Char) : u # Dotted(q, w) /\ v # Dotted(q, w)
  BY DotInside
<1>4. Under(Dotted(x, u), v) <=> u = v
  BY <1>0, <1>1, DottedIs
<1>5. \A w \in Seq(Char) : ~Under(u, w)
  BY <1>0, <1>3, DottedIs
<1> QED
  BY <1>0, <1>1, <1>2, <1>3, <1>4, <1>5, Zenon

(* Labels are texts.                                                         *)
LEMMA LabelsAreTexts ==
    ASSUME NEW name \in Seq(Dotless)
    PROVE  /\ name \in Seq(Seq(Char)) /\ Len(name) \in Nat
           /\ \A i \in 1..Len(name) : name[i] \in Dotless /\ name[i] \in Seq(Char)
<1>1. \A i \in 1..Len(name) : name[i] \in Dotless /\ name[i] \in Seq(Char)
  BY Dots
<1> QED
  BY <1>1

(* A name, label by label. *)
LEMMA TextSteps ==
    ASSUME NEW a \in Seq(Dotless), Len(a) > 0
    PROVE  /\ Len(a) \in Nat /\ 1 \in 1..Len(a)
           /\ Texts(a)[1] = a[1]
           /\ \A i \in 1..Len(a) : a[i] \in Dotless /\ Texts(a)[i] \in Seq(Char)
           /\ \A i \in 1..Len(a) : i # 1 =>
                 /\ i - 1 \in 1..Len(a) /\ i > 1
                 /\ Texts(a)[i] = Dotted(Texts(a)[i - 1], a[i])
<1>1. /\ Len(a) \in Nat /\ Texts(a)[1] = a[1]
      /\ \A i \in 1..Len(a) : a[i] \in Dotless /\ Texts(a)[i] \in Seq(Char)
      /\ \A i \in 2..Len(a) : Texts(a)[i] = Texts(a)[i - 1] \o <<".">> \o a[i]
  BY LabelsAreTexts, TextsAt, Zenon
<1>2. ASSUME NEW i \in 1..Len(a), i # 1
      PROVE  /\ i - 1 \in 1..Len(a) /\ i > 1
             /\ Texts(a)[i] = Dotted(Texts(a)[i - 1], a[i])
  <2>1. i \in 2..Len(a) /\ i - 1 \in 1..Len(a) /\ i > 1
    BY <1>1, <1>2
  <2>2. Texts(a)[i] = Dotted(Texts(a)[i - 1], a[i])
    BY <1>1, <2>1, Zenon DEF Dotted
  <2> QED
    BY <2>1, <2>2
<1>3. 1 \in 1..Len(a)
  BY <1>1
<1> QED
  BY <1>1, <1>2, <1>3, Zenon

(* Texts are equal, or end alike, exactly when their labels are or do. *)
LEMMA TextsEndAlike ==
    ASSUME NEW a \in Seq(Dotless), NEW b \in Seq(Dotless), Len(a) > 0, Len(b) > 0
    PROVE  \A j \in 1..Len(b) : \A i \in 1..Len(a) :
              /\ Texts(a)[i] = Texts(b)[j] <=> i = j /\ EndsAlike(a, i, b, j)
              /\ Under(Texts(a)[i], Texts(b)[j]) <=> i > j /\ EndsAlike(a, i, b, j)
<1>1. PICK A, B : A = Texts(a) /\ B = Texts(b)
  OBVIOUS
<1> DEFINE Alike(i, j) == /\ A[i] = B[j] <=> i = j /\ EndsAlike(a, i, b, j)
                          /\ Under(A[i], B[j]) <=> i > j /\ EndsAlike(a, i, b, j)
<1>2. /\ Len(a) \in Nat /\ 1 \in 1..Len(a) /\ A[1] = a[1]
      /\ \A i \in 1..Len(a) : a[i] \in Dotless /\ A[i] \in Seq(Char)
      /\ \A i \in 1..Len(a) : i # 1 =>
            i - 1 \in 1..Len(a) /\ i > 1 /\ A[i] = Dotted(A[i - 1], a[i])
  BY <1>1, TextSteps, Zenon
<1>3. /\ Len(b) \in Nat /\ 1 \in 1..Len(b) /\ B[1] = b[1]
      /\ \A i \in 1..Len(b) : b[i] \in Dotless /\ B[i] \in Seq(Char)
      /\ \A i \in 1..Len(b) : i # 1 =>
            i - 1 \in 1..Len(b) /\ i > 1 /\ B[i] = Dotted(B[i - 1], b[i])
  BY <1>1, TextSteps, Zenon
<1>6. ASSUME NEW i \in 1..Len(a) PROVE Alike(i, 1)
  <2>1. EndsAlike(a, i, b, 1) <=> a[i] = b[1]
    <3>1. 0..(1 - 1) = {0} /\ i - 0 = i /\ 1 - 0 = 1 /\ i >= 1
      BY <1>2
    <3> QED
      BY <3>1 DEF EndsAlike
  <2>2. CASE i = 1
    <3>1. ~Under(a[1], b[1])
      BY <1>2, <1>3, Peel, Zenon
    <3>2. ~(1 > 1)
      OBVIOUS
    <3> QED
      BY <1>2, <1>3, <2>1, <2>2, <3>1, <3>2, Zenon
  <2>3. CASE i # 1
    <3>1. A[i] = Dotted(A[i - 1], a[i]) /\ i > 1 /\ A[i - 1] \in Seq(Char)
      BY <1>2, <2>3, Zenon
    <3>2. A[i] # b[1] /\ (Under(A[i], b[1]) <=> a[i] = b[1])
      <4>1. a[i] \in Dotless /\ b[1] \in Dotless
        BY <1>2, <1>3, Zenon
      <4>2. /\ Dotted(A[i - 1], a[i]) # b[1]
            /\ Under(Dotted(A[i - 1], a[i]), b[1]) <=> a[i] = b[1]
        BY ONLY <3>1, <4>1, Peel
      <4> QED
        BY <3>1, <4>2, Zenon
    <3> QED
      BY <1>3, <2>1, <2>3, <3>1, <3>2, Zenon
  <2> QED
    BY <2>2, <2>3
<1>7. ASSUME NEW j \in 1..Len(b), j # 1, \A i \in 1..Len(a) : Alike(i, j - 1), NEW i \in 1..Len(a)
      PROVE  Alike(i, j)
  <2>1. /\ j - 1 \in 1..Len(b) /\ j > 1 /\ B[j] = Dotted(B[j - 1], b[j])
        /\ B[j - 1] \in Seq(Char) /\ b[j] \in Dotless
    BY <1>3, <1>7, Zenon
  <2>2. CASE i = 1
    <3>1. A[1] # B[j] /\ ~Under(A[1], B[j])
      <4>1. a[1] \in Dotless /\ A[1] = a[1]
        BY <1>2, Zenon
      <4>2. a[1] # Dotted(B[j - 1], b[j]) /\ ~Under(a[1], Dotted(B[j - 1], b[j]))
        BY ONLY <2>1, <4>1, Peel
      <4> QED
        BY <2>1, <4>1, <4>2, Zenon
    <3>2. ~(i = j) /\ ~(i > j)
      BY <2>1, <2>2
    <3> QED
      BY <2>2, <3>1, <3>2, Zenon
  <2>3. CASE i # 1
    <3>1. /\ A[i] = Dotted(A[i - 1], a[i]) /\ i > 1 /\ A[i - 1] \in Seq(Char)
          /\ a[i] \in Dotless /\ i - 1 \in 1..Len(a)
      BY <1>2, <2>3, Zenon
    <3>2. /\ A[i] = B[j] <=> A[i - 1] = B[j - 1] /\ a[i] = b[j]
          /\ Under(A[i], B[j]) <=> Under(A[i - 1], B[j - 1]) /\ a[i] = b[j]
      <4>1. PICK x, y, u, v : x = A[i - 1] /\ y = B[j - 1] /\ u = a[i] /\ v = b[j]
        OBVIOUS
      <4>2. /\ Dotted(x, u) = Dotted(y, v) <=> x = y /\ u = v
            /\ Under(Dotted(x, u), Dotted(y, v)) <=> Under(x, y) /\ u = v
        <5>1. x \in Seq(Char) /\ y \in Seq(Char) /\ u \in Dotless /\ v \in Dotless
          BY <2>1, <3>1, <4>1, Zenon
        <5> QED
          BY ONLY <5>1, Peel
      <4> QED
        BY <2>1, <3>1, <4>1, <4>2, Zenon
    <3>3. EndsAlike(a, i, b, j) <=> a[i] = b[j] /\ EndsAlike(a, i - 1, b, j - 1)
      <4>1. i \in Nat /\ j \in Nat
        BY <1>2, <1>3
      <4> QED
        BY <2>1, <3>1, <4>1, EndsAlikeStep, Zenon
    <3>4. Alike(i - 1, j - 1)
      BY <1>7, <3>1, Zenon
    <3>5. (i - 1 = j - 1 <=> i = j) /\ (i - 1 > j - 1 <=> i > j)
      BY <1>2, <1>3, <2>1, <3>1
    <3> QED
      BY <3>2, <3>3, <3>4, <3>5, Zenon
  <2> QED
    BY <2>2, <2>3
<1> DEFINE S == {n \in Nat : n + 1 \in 1..Len(b) => \A i \in 1..Len(a) : Alike(i, n + 1)}
<1> HIDE DEF Alike
<1>8. 0 \in S
  BY <1>6
<1>9. ASSUME NEW n \in S PROVE n + 1 \in S
  <2>0. n + 1 + 1 = n + 2
    OBVIOUS
  <2>1. CASE n + 2 \in 1..Len(b)
    <3>1. n + 2 # 1 /\ (n + 2) - 1 = n + 1 /\ n + 1 \in 1..Len(b)
      BY <1>3, <2>1
    <3>2. \A i \in 1..Len(a) : Alike(i, n + 1)
      BY <3>1
    <3>3. \A i \in 1..Len(a) : Alike(i, n + 2)
      BY <1>7, <2>1, <3>1, <3>2, Zenon
    <3> QED
      BY <2>0, <3>3
  <2>2. CASE n + 2 \notin 1..Len(b)
    BY <2>0, <2>2
  <2> QED
    BY <2>1, <2>2
<1>10. S = Nat
  <2> HIDE DEF S
  <2> QED
    BY <1>8, <1>9, Induction, Zenon DEF S
<1>11. ASSUME NEW j \in 1..Len(b), NEW i \in 1..Len(a) PROVE Alike(i, j)
  <2>1. j - 1 \in Nat /\ (j - 1) + 1 = j
    BY <1>3
  <2>2. j - 1 \in S
    BY ONLY <1>10, <2>1
  <2> QED
    BY <2>1, <2>2
<1> QED
  BY <1>1, <1>11, Zenon DEF Alike

-----------------------------------------------------------------------------
(* Lower case keeps the length and works character by character.             *)
LEMMA LowerText ==
    ASSUME NEW text \in Seq(Char)
    PROVE  /\ ToLower(text) \in Seq(Char) /\ Len(ToLower(text)) = Len(text)
           /\ \A i \in 1..Len(text) : ToLower(text)[i] = Lower[text[i]] /\ text[i] \in Char
<1>1. ToLower(text) = [i \in 1..Len(text) |-> Lower[text[i]]]
  BY DEF ToLower
<1>2. \A i \in 1..Len(text) : Lower[text[i]] \in Char /\ text[i] \in Char
  BY DomainAssumption DEF DomainAssumption
<1>3. Len(text) \in Nat
  OBVIOUS
<1> QED
  BY <1>1, <1>2, <1>3

(* The lower case of a label has no dot.                                     *)
LEMMA LowerDotless ==
    ASSUME NEW u \in Dotless
    PROVE  ToLower(u) \in Dotless
<1>1. /\ ToLower(u) \in Seq(Char) /\ Len(ToLower(u)) = Len(u) /\ Len(u) \in Nat
      /\ \A i \in 1..Len(u) : ToLower(u)[i] = Lower[u[i]] /\ u[i] \in Char /\ u[i] # "."
  BY Dots, LowerText
<1>2. \A i \in 1..Len(u) : ToLower(u)[i] \in Char \ {"."}
  BY <1>1, DomainAssumption DEF DomainAssumption
<1>3. ToLower(u) = [i \in 1..Len(u) |-> Lower[u[i]]]
  BY Dots DEF ToLower
<1> QED
  BY <1>1, <1>2, <1>3 DEF Dotless

(* The characters of two texts put together.                                 *)
LEMMA Joined ==
    ASSUME NEW x \in Seq(Char), NEW y \in Seq(Char)
    PROVE  /\ x \o y \in Seq(Char) /\ Len(x) \in Nat /\ Len(y) \in Nat
           /\ Len(x \o y) = Len(x) + Len(y)
           /\ \A i \in 1..Len(x) : (x \o y)[i] = x[i]
           /\ \A i \in 1..Len(y) : (x \o y)[Len(x) + i] = y[i]
  OBVIOUS

(* Lower case of two texts put together.                                     *)
LEMMA LowerConcat ==
    ASSUME NEW x \in Seq(Char), NEW y \in Seq(Char)
    PROVE  ToLower(x \o y) = ToLower(x) \o ToLower(y)
<1>1. PICK z \in Seq(Char) : z = x \o y
  BY Joined, Zenon
<1>2. PICK X \in Seq(Char), Y \in Seq(Char), Z \in Seq(Char) :
         X = ToLower(x) /\ Y = ToLower(y) /\ Z = ToLower(z)
  BY LowerText
<1>3. /\ Len(X) = Len(x) /\ \A i \in 1..Len(x) : X[i] = Lower[x[i]]
      /\ Len(Y) = Len(y) /\ \A i \in 1..Len(y) : Y[i] = Lower[y[i]]
      /\ Len(Z) = Len(z) /\ \A i \in 1..Len(z) : Z[i] = Lower[z[i]]
  BY <1>2, LowerText
<1>4. /\ Len(x) \in Nat /\ Len(y) \in Nat /\ Len(z) = Len(x) + Len(y)
      /\ \A i \in 1..Len(x) : z[i] = x[i]
      /\ \A i \in 1..Len(y) : z[Len(x) + i] = y[i]
  BY <1>1, Joined
<1>5. PICK W \in Seq(Char) : W = X \o Y
  BY Joined, Zenon
<1>6. /\ Len(W) = Len(x) + Len(y)
      /\ \A i \in 1..Len(x) : W[i] = X[i]
      /\ \A i \in 1..Len(y) : W[Len(x) + i] = Y[i]
  <2>1. /\ Len(W) = Len(X) + Len(Y)
        /\ \A i \in 1..Len(X) : W[i] = X[i]
        /\ \A i \in 1..Len(Y) : W[Len(X) + i] = Y[i]
    BY <1>5, Joined
  <2> QED
    BY <1>3, <2>1, Zenon
<1>7. ASSUME NEW i \in 1..Len(z) PROVE Z[i] = W[i]
  <2>1. CASE i \in 1..Len(x)
    <3>1. W[i] = Lower[x[i]] /\ z[i] = x[i]
      BY <1>3, <1>4, <1>6, <2>1, Zenon
    <3> QED
      BY <1>3, <3>1, Zenon
  <2>2. CASE i \notin 1..Len(x)
    <3>1. PICK k \in 1..Len(y) : i = Len(x) + k
      <4>1. i - Len(x) \in 1..Len(y) /\ i = Len(x) + (i - Len(x))
        BY <1>4, <2>2
      <4> QED
        BY <4>1
    <3>2. W[i] = Lower[y[k]] /\ z[i] = y[k]
      BY <1>3, <1>4, <1>6, <3>1, Zenon
    <3> QED
      BY <1>3, <3>2, Zenon
  <2> QED
    BY <2>1, <2>2
<1>8. Z = W
  BY <1>3, <1>4, <1>6, <1>7, SeqEqual
<1> QED
  BY <1>1, <1>2, <1>5, <1>8

(* Dots and asterisks have no case.                                          *)
LEMMA LowerDot ==
    /\ <<".">> \in Seq(Char) /\ ToLower(<<".">>) = <<".">>
    /\ <<"*", ".">> \in Seq(Char) /\ ToLower(<<"*", ".">>) = <<"*", ".">>
<1>1. Lower["."] = "." /\ Lower["*"] = "*" /\ "." \in Char /\ "*" \in Char
  BY DomainAssumption DEF DomainAssumption
<1>2. ToLower(<<".">>) = <<".">>
  BY <1>1 DEF ToLower
<1>3. PICK star : star = <<"*", ".">>
  OBVIOUS
<1>4. star \in Seq(Char) /\ Len(star) = 2 /\ star[1] = "*" /\ star[2] = "."
  BY <1>1, <1>3
<1>5. /\ ToLower(star) \in Seq(Char) /\ Len(ToLower(star)) = 2
      /\ \A i \in 1..2 : ToLower(star)[i] = Lower[star[i]]
  BY <1>4, LowerText
<1>6. \A i \in 1..2 : ToLower(star)[i] = star[i]
  BY <1>1, <1>4, <1>5
<1>7. ToLower(star) = star
  BY <1>4, <1>5, <1>6, SeqEqual
<1> QED
  BY <1>1, <1>2, <1>3, <1>4, <1>7

(* Lower case of a text and a last label.                                    *)
LEMMA LowerDotted ==
    ASSUME NEW x \in Seq(Char), NEW u \in Seq(Char)
    PROVE  ToLower(Dotted(x, u)) = Dotted(ToLower(x), ToLower(u))
<1>1. PICK d \in Seq(Char) : d = <<".">> /\ ToLower(d) = d
  BY LowerDot
<1>2. x \o d \in Seq(Char)
  OBVIOUS
<1>3. ToLower((x \o d) \o u) = ToLower(x \o d) \o ToLower(u)
  BY <1>2, LowerConcat, Zenon
<1>4. ToLower(x \o d) = ToLower(x) \o d
  BY <1>1, LowerConcat, Zenon
<1>5. ToLower((x \o d) \o u) = (ToLower(x) \o d) \o ToLower(u)
  BY <1>3, <1>4, Zenon
<1> QED
  BY <1>1, <1>5, Zenon DEF Dotted

(* Lower case of a pattern.                                                  *)
LEMMA LowerWildcard ==
    ASSUME NEW x \in Seq(Char)
    PROVE  ToLower(Wildcard(x)) = Wildcard(ToLower(x))
<1>1. PICK d \in Seq(Char) : d = <<"*", ".">> /\ ToLower(d) = d
  BY LowerDot
<1>2. ToLower(d \o x) = d \o ToLower(x)
  BY <1>1, LowerConcat, Zenon
<1> QED
  BY <1>1, <1>2, Zenon DEF Wildcard

(* Each label in lower case.                                                 *)
LowerLabels(name) == [i \in 1..Len(name) |-> ToLower(name[i])]

(* The labels in lower case.                                                 *)
LEMMA LowerLabelsType ==
    ASSUME NEW name \in Seq(Dotless)
    PROVE  /\ LowerLabels(name) \in Seq(Dotless) /\ Len(LowerLabels(name)) = Len(name)
           /\ \A i \in 1..Len(name) : LowerLabels(name)[i] = ToLower(name[i])
<1>1. Len(name) \in Nat /\ \A i \in 1..Len(name) : ToLower(name[i]) \in Dotless
  BY LabelsAreTexts, LowerDotless
<1> QED
  BY <1>1 DEF LowerLabels

(* Lowering a text lowers its labels.                                        *)
LEMMA LowerTexts ==
    ASSUME NEW a \in Seq(Dotless), Len(a) > 0
    PROVE  \A i \in 1..Len(a) : ToLower(Texts(a)[i]) = Texts(LowerLabels(a))[i]
<1>1. PICK b \in Seq(Dotless) : b = LowerLabels(a)
  BY LowerLabelsType
<1>2. Len(b) = Len(a) /\ \A i \in 1..Len(a) : b[i] = ToLower(a[i])
  BY <1>1, LowerLabelsType
<1>3. PICK A, B : A = Texts(a) /\ B = Texts(b)
  OBVIOUS
<1>4. /\ Len(a) \in Nat /\ 1 \in 1..Len(a) /\ A[1] = a[1]
      /\ \A i \in 1..Len(a) : a[i] \in Dotless /\ A[i] \in Seq(Char)
      /\ \A i \in 1..Len(a) : i # 1 =>
            i - 1 \in 1..Len(a) /\ i > 1 /\ A[i] = Dotted(A[i - 1], a[i])
  BY <1>3, TextSteps, Zenon
<1>5. /\ B[1] = b[1]
      /\ \A i \in 1..Len(a) : i # 1 => B[i] = Dotted(B[i - 1], b[i])
  <2>1. Len(b) > 0
    BY <1>2
  <2>2. /\ B[1] = b[1]
        /\ \A i \in 1..Len(b) : i # 1 => B[i] = Dotted(B[i - 1], b[i])
    BY <1>3, <2>1, TextSteps, Zenon
  <2> QED
    BY <1>2, <2>2, Zenon
<1> DEFINE S == {n \in Nat : n + 1 \in 1..Len(a) => ToLower(A[n + 1]) = B[n + 1]}
<1>6. 0 \in S
  BY <1>2, <1>4, <1>5
<1>7. ASSUME NEW n \in S PROVE n + 1 \in S
  <2>0. n + 1 + 1 = n + 2
    OBVIOUS
  <2>1. CASE n + 2 \in 1..Len(a)
    <3>1. n + 2 # 1 /\ (n + 2) - 1 = n + 1 /\ n + 1 \in 1..Len(a)
      BY <1>4, <2>1
    <3>2. ToLower(A[n + 1]) = B[n + 1]
      BY <3>1
    <3>3. A[n + 2] = Dotted(A[n + 1], a[n + 2]) /\ B[n + 2] = Dotted(B[n + 1], b[n + 2])
      BY <1>4, <1>5, <2>1, <3>1, Zenon
    <3>4. a[n + 2] \in Seq(Char) /\ A[n + 1] \in Seq(Char)
      BY <1>4, <2>1, <3>1, Dots, Zenon
    <3>5. ToLower(Dotted(A[n + 1], a[n + 2])) = Dotted(ToLower(A[n + 1]), ToLower(a[n + 2]))
      BY <3>4, LowerDotted, Zenon
    <3>6. ToLower(A[n + 2]) = B[n + 2]
      BY <1>2, <2>1, <3>2, <3>3, <3>5, Zenon
    <3> QED
      BY <2>0, <3>6
  <2>2. CASE n + 2 \notin 1..Len(a)
    BY <2>0, <2>2
  <2> QED
    BY <2>1, <2>2
<1>8. S = Nat
  <2> HIDE DEF S
  <2> QED
    BY <1>6, <1>7, Induction, Zenon DEF S
<1>9. ASSUME NEW i \in 1..Len(a) PROVE ToLower(A[i]) = B[i]
  <2>1. i - 1 \in Nat /\ (i - 1) + 1 = i
    BY <1>4
  <2>2. i - 1 \in S
    BY ONLY <1>8, <2>1
  <2> QED
    BY <2>1, <2>2
<1> QED
  BY <1>1, <1>3, <1>9, Zenon

(* A name as a text: what it is and what the rules compare.                  *)
LEMMA NameTexts ==
    ASSUME NEW a \in Seq(Dotless), NEW b \in Seq(Dotless), Len(a) > 0, Len(b) > 0
    PROVE  /\ Text(a) \in Seq(Char)
           /\ Text(a) = Text(b) <=> a = b
           /\ ToLower(Text(a)) = Text(LowerLabels(a))
           /\ Text(a) = Text(b) \/ Under(Text(a), Text(b))
                 <=> Len(a) >= Len(b) /\ EndsAlike(a, Len(a), b, Len(b))
<1>1. /\ Len(a) \in Nat /\ Len(a) \in 1..Len(a) /\ Len(b) \in Nat /\ Len(b) \in 1..Len(b)
  BY TextSteps
<1>2. Text(a) = Texts(a)[Len(a)] /\ Text(b) = Texts(b)[Len(b)]
  BY TextIs
<1>3. /\ Text(a) = Text(b) <=> Len(a) = Len(b) /\ EndsAlike(a, Len(a), b, Len(b))
      /\ Under(Text(a), Text(b)) <=> Len(a) > Len(b) /\ EndsAlike(a, Len(a), b, Len(b))
  <2>1. /\ Texts(a)[Len(a)] = Texts(b)[Len(b)]
              <=> Len(a) = Len(b) /\ EndsAlike(a, Len(a), b, Len(b))
        /\ Under(Texts(a)[Len(a)], Texts(b)[Len(b)])
              <=> Len(a) > Len(b) /\ EndsAlike(a, Len(a), b, Len(b))
    BY ONLY <1>1, Len(a) > 0, Len(b) > 0, a \in Seq(Dotless), b \in Seq(Dotless), TextsEndAlike
  <2> QED
    BY <1>2, <2>1, Zenon
<1>4. Text(a) \in Seq(Char)
  BY <1>1, <1>2, TextSteps, Zenon
<1>5. ToLower(Text(a)) = Text(LowerLabels(a))
  <2>1. Text(LowerLabels(a)) = Texts(LowerLabels(a))[Len(a)]
    BY TextIs, LowerLabelsType, Zenon
  <2> QED
    BY <1>1, <1>2, <2>1, LowerTexts, Zenon
<1>6. ASSUME Text(a) = Text(b) PROVE a = b
  <2>1. Len(a) = Len(b) /\ \A k \in 0..(Len(b) - 1) : a[Len(a) - k] = b[Len(b) - k]
    BY <1>3, <1>6, Zenon DEF EndsAlike
  <2>2. ASSUME NEW i \in 1..Len(a) PROVE a[i] = b[i]
    <3>1. PICK k : k = Len(a) - i
      OBVIOUS
    <3>2. k \in 0..(Len(b) - 1) /\ Len(a) - k = i /\ Len(b) - k = i
      BY <1>1, <2>1, <3>1
    <3> QED
      BY <2>1, <3>2
  <2> QED
    BY <2>1, <2>2, SeqEqual
<1>7. Len(a) >= Len(b) <=> Len(a) = Len(b) \/ Len(a) > Len(b)
  BY <1>1
<1> QED
  BY <1>3, <1>4, <1>5, <1>6, <1>7, Zenon

(* The labels a rule asks for are the last ones, in either case.             *)
LEMMA BelowEndsAlike ==
    ASSUME NEW a \in Seq(Dotless), NEW b \in Seq(Dotless), Len(a) > 0, Len(b) > 0
    PROVE  Below(a, b) <=> /\ Len(a) >= Len(b)
                           /\ EndsAlike(LowerLabels(a), Len(a), LowerLabels(b), Len(b))
<1>1. PICK m, n : m = Len(a) /\ n = Len(b)
  OBVIOUS
<1>2. PICK A, B : A = LowerLabels(a) /\ B = LowerLabels(b)
  OBVIOUS
<1>3. /\ m \in Nat /\ n \in Nat
      /\ \A i \in 1..m : A[i] = ToLower(a[i])
      /\ \A i \in 1..n : B[i] = ToLower(b[i])
  BY <1>1, <1>2, LowerLabelsType
<1>4. SUFFICES ASSUME m >= n
               PROVE  (\A i \in 1..n : ToLower(a[m - n + i]) = ToLower(b[i]))
                          <=> \A k \in 0..(n - 1) : A[m - k] = B[n - k]
  BY <1>1, <1>2, Zenon DEF Below, EndsAlike
<1>5. ASSUME NEW i \in 1..n, \A k \in 0..(n - 1) : A[m - k] = B[n - k]
      PROVE  ToLower(a[m - n + i]) = ToLower(b[i])
  <2>1. PICK k : k = n - i
    OBVIOUS
  <2>2. k \in 0..(n - 1) /\ m - k = m - n + i /\ n - k = i /\ m - n + i \in 1..m
    BY <1>3, <1>4, <2>1
  <2>3. A[m - n + i] = B[i]
    BY <1>5, <2>2
  <2> QED
    BY <1>3, <2>2, <2>3
<1>6. ASSUME NEW k \in 0..(n - 1), \A i \in 1..n : ToLower(a[m - n + i]) = ToLower(b[i])
      PROVE  A[m - k] = B[n - k]
  <2>1. PICK i : i = n - k
    OBVIOUS
  <2>2. i \in 1..n /\ m - n + i = m - k /\ n - k = i /\ m - k \in 1..m
    BY <1>3, <1>4, <2>1
  <2>3. ToLower(a[m - k]) = ToLower(b[i])
    BY <1>6, <2>2
  <2> QED
    BY <1>3, <2>2, <2>3
<1> QED
  BY <1>5, <1>6

(* One wildcard: what it matches and what it asks for are the same.          *)
LEMMA WildcardMeans ==
    ASSUME NEW a \in Seq(Dotless), NEW b \in Seq(Dotless), Len(a) > 0, Len(b) > 0
    PROVE  DomainMatchesPattern(ToLower(Text(a)), ToLower(Wildcard(Text(b)))) <=> Below(a, b)
<1>1. PICK c, d : c = LowerLabels(a) /\ d = LowerLabels(b)
  OBVIOUS
<1>2. /\ c \in Seq(Dotless) /\ Len(c) = Len(a) /\ Len(c) > 0
      /\ d \in Seq(Dotless) /\ Len(d) = Len(b) /\ Len(d) > 0
  BY <1>1, LowerLabelsType
<1>3. /\ ToLower(Text(a)) = Text(c) /\ Text(c) \in Seq(Char)
      /\ ToLower(Text(b)) = Text(d) /\ Text(d) \in Seq(Char) /\ Text(b) \in Seq(Char)
  BY <1>1, <1>2, NameTexts, Zenon
<1>4. DomainMatchesPattern(Text(c), Wildcard(Text(d)))
          <=> Text(c) = Text(d) \/ Under(Text(c), Text(d))
  BY <1>3, WildcardMatches, Zenon DEF Under
<1>5. Text(c) = Text(d) \/ Under(Text(c), Text(d))
          <=> Len(c) >= Len(d) /\ EndsAlike(c, Len(c), d, Len(d))
  BY <1>2, NameTexts, Zenon
<1>6. ToLower(Wildcard(Text(b))) = Wildcard(Text(d))
  BY <1>3, LowerWildcard, Zenon
<1> QED
  BY <1>1, <1>2, <1>3, <1>4, <1>5, <1>6, BelowEndsAlike, Zenon

(* Which names the rules block is what the labels say, whatever rules are    *)
(* in force (rule_manager.cpp:132-176).                                      *)
LEMMA SubdomainsBlocked == RulesBlockSubdomains
<1>1. ASSUME NEW name \in Name
      PROVE  /\ name.labels \in Seq(Dotless) /\ Len(name.labels) > 0
             /\ name.text = Text(name.labels)
  <2>1. PICK n \in 1..MaxLabels : \E labels \in [1..n -> Label] :
           name = [labels |-> labels, text |-> Text(labels)]
    BY DEF Name
  <2>5. PICK labels \in [1..n -> Label] : name = [labels |-> labels, text |-> Text(labels)]
    BY <2>1
  <2>2. n \in Nat /\ n > 0 /\ Label \subseteq Dotless
    BY DomainAssumption DEF DomainAssumption
  <2>3. labels \in Seq(Dotless) /\ Len(labels) = n
    BY <2>2
  <2>4. name.labels = labels /\ name.text = Text(labels)
    BY <2>5
  <2> QED
    BY <2>2, <2>3, <2>4
<1>2. ASSUME NEW r \in Rule, Table[r] = 3
      PROVE  NameOf[r] \in Seq(Dotless) /\ Len(NameOf[r]) > 0
  BY <1>2, DomainAssumption DEF DomainAssumption
<1>3. InForce \subseteq Rule /\ \A r \in Pattern : r \in Rule /\ Table[r] = 3
  BY RuleAssumption DEF RuleAssumption, InForce, In
<1> SUFFICES ASSUME NEW name \in Name
             PROVE  IsDomainBlocked(name.text, BlockedDomains, DomainPatterns)
                       <=> \E r \in InForce :
                              /\ Table[r] = 3
                              /\ IF r \in Pattern THEN Below(name.labels, NameOf[r])
                                                  ELSE name.labels = NameOf[r]
  BY DEF RulesBlockSubdomains
<1>4. PICK a \in Seq(Dotless) : a = name.labels /\ Len(a) > 0 /\ name.text = Text(a)
  BY <1>1
<1>5. name.text \in BlockedDomains
          <=> \E r \in InForce : Table[r] = 3 /\ r \notin Pattern /\ a = NameOf[r]
  <2>1. name.text \in BlockedDomains
            <=> \E r \in InForce : Table[r] = 3 /\ r \notin Pattern /\ Text(a) = Text(NameOf[r])
    BY <1>4, Zenon DEF BlockedDomains
  <2>2. ASSUME NEW r \in InForce, Table[r] = 3
        PROVE  Text(a) = Text(NameOf[r]) <=> a = NameOf[r]
    BY <1>2, <1>3, <1>4, <2>2, NameTexts, Zenon
  <2> QED
    BY <2>1, <2>2, Zenon
<1>6. (\E pattern \in DomainPatterns : DomainMatchesPattern(ToLower(name.text), ToLower(pattern)))
          <=> \E r \in InForce : Table[r] = 3 /\ r \in Pattern /\ Below(a, NameOf[r])
  <2>1. (\E pattern \in DomainPatterns :
            DomainMatchesPattern(ToLower(name.text), ToLower(pattern)))
            <=> \E r \in InForce : /\ r \in Pattern
                                   /\ DomainMatchesPattern(ToLower(Text(a)), ToLower(Wildcard(Text(NameOf[r]))))
    BY <1>4, Zenon DEF DomainPatterns
  <2>2. ASSUME NEW r \in InForce, Table[r] = 3
        PROVE  DomainMatchesPattern(ToLower(Text(a)), ToLower(Wildcard(Text(NameOf[r]))))
                   <=> Below(a, NameOf[r])
    BY <1>2, <1>3, <1>4, <2>2, WildcardMeans, Zenon
  <2> QED
    BY <1>3, <2>1, <2>2, Zenon
<1> QED
  BY <1>4, <1>5, <1>6, Zenon DEF IsDomainBlocked

(* Whatever callers and files do to the tables, a wildcard in force blocks   *)
(* its name and the names below it, a plain rule its own, and no others.     *)
THEOREM RulesBlockSubdomainsCorrect == Spec => []RulesBlockSubdomains
  BY SubdomainsBlocked, PTL
=============================================================================
