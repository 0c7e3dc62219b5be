---------------------------- MODULE MtEngineProofs ----------------------------
(* The engine of dpi_mt.cpp for any number of threads, any queue size, any   *)
(* rules and any capture: its types, the order of its stops, the path of a   *)
(* packet, and the verdicts of main_working.cpp.                             *)
EXTENDS MtEngine, TLAPS

USE MtAssumption, FilterAssumption DEF MtAssumption, FilterAssumption
-----------------------------------------------------------------------------
(* Numbers and queues                                                        *)

LEMMA PoolSize == NumLBs * FpsPerLB \in Nat \ {0}
  OBVIOUS

LEMMA Threads == 0 \in LB /\ 0 \in FP /\ LB \subseteq Nat /\ FP \subseteq Nat
  BY PoolSize DEF LB, FP

LEMMA Remainder ==
    ASSUME NEW a \in Nat, NEW n \in Nat \ {0}
    PROVE  a % n \in 0..(n - 1)
  OBVIOUS

LEMMA Block ==
    ASSUME NEW n \in Nat \ {0}, NEW s \in Nat \ {0}, NEW l \in 0..(n - 1), NEW r \in 0..(s - 1)
    PROVE  (l * s) + r \in 0..((n * s) - 1)
<1>1. l * s \in Nat /\ n * s \in Nat /\ (l + 1) * s = (l * s) + s
  OBVIOUS
<1>2. l + 1 <= n /\ (l + 1) \in Nat
  OBVIOUS
<1>3. (l + 1) * s <= n * s
  BY <1>2
<1> QED
  BY <1>1, <1>3

LEMMA Paths ==
    ASSUME NEW fl \in Flow
    PROVE  LbOf(fl) \in LB /\ (\A l \in LB : FpOf(l, fl) \in FP)
<1>1. Hash[fl] \in Nat
  OBVIOUS
<1>2. LbOf(fl) \in LB
  BY <1>1, Remainder DEF LbOf, LB
<1>3. ASSUME NEW l \in LB PROVE FpOf(l, fl) \in FP
  BY <1>1, Remainder, Block DEF FpOf, FP, LB
<1> QED
  BY <1>2, <1>3

LEMMA Known ==
    ASSUME MainTypeOK, NEW k \in Read
    PROVE  /\ capture[k] \in Packet /\ FlowOf(k) \in Flow
           /\ k \in Nat /\ k # 0 /\ Len(capture) \in Nat
<1>1. k \in Nat /\ k # 0 /\ Len(capture) \in Nat /\ capture \in Seq(Packet) /\ k \in 1..Len(capture)
  BY DEF MainTypeOK, Read
<1>2. capture[k] \in Packet
  BY <1>1
<1>3. capture[k].flow \in Flow
  BY <1>2 DEF Packet
<1> QED
  BY <1>1, <1>2, <1>3 DEF FlowOf

LEMMA TakeOne ==
    ASSUME NEW S, NEW q \in Seq(S), q # <<>>
    PROVE  Head(q) \in S /\ Tail(q) \in Seq(S) /\ Len(Tail(q)) = Len(q) - 1 /\ Len(q) \in Nat
  OBVIOUS

LEMMA PutOne ==
    ASSUME NEW S, NEW q \in Seq(S), NEW e \in S
    PROVE  Append(q, e) \in Seq(S) /\ Len(Append(q, e)) = Len(q) + 1 /\ Len(q) \in Nat
  OBVIOUS

LEMMA Wider ==
    ASSUME NEW S, NEW T, S \subseteq T, NEW q \in Seq(S)
    PROVE  q \in Seq(T)
  OBVIOUS

(* A push that returns leaves a queue of the same kind, still within its     *)
(* size.                                                                     *)
LEMMA PushType ==
    ASSUME NEW S, NEW q \in Seq(S), Len(q) <= QueueSize, NEW e \in S,
           NEW open \in BOOLEAN, ~open \/ HasRoom(q)
    PROVE  Push(open, q, e) \in Seq(S) /\ Len(Push(open, q, e)) <= QueueSize
<1>1. CASE open
  BY <1>1, PutOne DEF Push, HasRoom
<1>2. CASE ~open
  BY <1>2 DEF Push
<1> QED
  BY <1>1, <1>2

-----------------------------------------------------------------------------
(* Entries of the two flow tables                                            *)

LEMMA AppOfNameType ==
    ASSUME NEW n \in Name \cup {NoName}
    PROVE  AppOfName(n) \in App
  BY DEF AppOfName, App

LEMMA ByPortType == ASSUME NEW p \in Packet PROVE ByPort(p) \in {"UNKNOWN", "HTTP", "HTTPS"}
  BY DEF ByPort

LEMMA ExtractedType ==
    ASSUME NEW e \in SimpleEntry, NEW p \in Packet, NEW port, NEW generic, NEW found
    PROVE  Extracted(e, p, port, generic, found) \in SimpleEntry
<1>1. p.name \in Name \cup {NoName} /\ AppOfName(p.name) \in App
  BY AppOfNameType DEF Packet
<1> QED
  BY <1>1 DEF Extracted, SimpleEntry

LEMMA GuessedType ==
    ASSUME NEW e \in SimpleEntry, NEW p \in Packet
    PROVE  Guessed(e, p) \in SimpleEntry
<1>1. ByPort(p) \in App
  BY ByPortType DEF App
<1>2. (IF ToDNS(p) THEN "DNS" ELSE ByPort(p)) \in App
  BY <1>1 DEF App
<1> QED
  BY <1>2 DEF Guessed, SimpleEntry

LEMMA SimpleStepType ==
    ASSUME NEW e \in SimpleEntry, NEW p \in Packet
    PROVE  SimpleStep(e, p) \in SimpleEntry
<1> DEFINE c == Guessed(Extracted(Extracted(e, p, 443, "HTTPS", "tls"), p, 80, "HTTP", "http"), p)
<1>1. c \in SimpleEntry
  BY ExtractedType, GuessedType
<1>2. IsBlocked(p, c.app, c.sni) \in BOOLEAN
  BY DEF IsBlocked
<1>3. SimpleStep(e, p) = [c EXCEPT !.blocked = @ \/ IsBlocked(p, c.app, c.sni)]
  BY DEF SimpleStep
<1> HIDE DEF c
<1> QED
  BY <1>1, <1>2, <1>3 DEF SimpleEntry

LEMMA ClassifyFlowType ==
    ASSUME NEW e \in FlowEntry, NEW p \in Packet
    PROVE  ClassifyFlow(e, p) \in FlowEntry
<1>1. p.name \in Name \cup {NoName} /\ AppOfName(p.name) \in App
  BY AppOfNameType DEF Packet
<1>2. ByPort(p) \in App /\ "DNS" \in App
  BY ByPortType DEF App
<1> QED
  BY <1>1, <1>2 DEF ClassifyFlow, FlowEntry

LEMMA MtStepType ==
    ASSUME NEW e \in FlowEntry, NEW p \in Packet
    PROVE  MtStep(e, p) \in FlowEntry
<1> DEFINE c == IF e.classified THEN e ELSE ClassifyFlow(e, p)
<1>1. c \in FlowEntry
  BY ClassifyFlowType
<1>2. IsBlocked(p, c.app, c.sni) \in BOOLEAN
  BY DEF IsBlocked
<1>3. MtStep(e, p) = [c EXCEPT !.blocked = @ \/ IsBlocked(p, c.app, c.sni)]
  BY DEF MtStep
<1> HIDE DEF c
<1> QED
  BY <1>1, <1>2, <1>3 DEF FlowEntry

-----------------------------------------------------------------------------
(* Types                                                                     *)

LEMMA MainTypeStep == TypeOK /\ [Next]_vars => MainTypeOK'
<1> SUFFICES ASSUME TypeOK, [Next]_vars PROVE MainTypeOK'
  OBVIOUS
<1> USE DEF TypeOK, MainTypeOK, MainPc, Read, NoId
<1>1. ASSUME UNCHANGED <<mainVars, capture>> PROVE MainTypeOK'
  BY <1>1 DEF mainVars
<1>2. CASE OpenFiles
  BY <1>2 DEF OpenFiles, readVars
<1>3. ASSUME NEW p \in Captured, ReadPacket(p) PROVE MainTypeOK'
  <2>1. p \in Packet
    OBVIOUS
  <2>2. /\ capture' \in Seq(Packet) /\ Len(capture') = Len(capture) + 1 /\ Len(capture) \in Nat
        /\ mainPc' = "push" /\ mainJob' = Len(capture') /\ idx' = idx
        /\ Len(capture) < MaxPackets
    BY <1>3, <2>1, PutOne DEF ReadPacket
  <2> QED
    BY <2>2
<1>4. CASE EndOfCapture
  BY <1>4, Threads DEF EndOfCapture, readVars
<1>5. CASE PushToLB
  BY <1>5 DEF PushToLB, readVars
<1>6. CASE SignalLB
  BY <1>6 DEF SignalLB, readVars
<1>7. CASE JoinLB
  BY <1>7, Threads DEF JoinLB, readVars
<1>8. CASE SignalFP
  BY <1>8 DEF SignalFP, readVars
<1>9. CASE JoinFP
  BY <1>9, Threads DEF JoinFP, readVars
<1>10. CASE CloseOutput
  BY <1>10 DEF CloseOutput, readVars
<1>11. CASE JoinOutput
  BY <1>11 DEF JoinOutput, readVars
<1>12. ASSUME NEW l \in LB, Balancer(l) PROVE MainTypeOK'
  BY <1>12, <1>1 DEF Balancer, LbCheck, LbPop, LbPush, readVars
<1>13. ASSUME NEW f \in FP, FastPath(f) PROVE MainTypeOK'
  BY <1>13, <1>1 DEF FastPath, FpCheck, FpPopNothing, FpJudge, FpPush, readVars
<1>14. CASE Output
  BY <1>14, <1>1 DEF Output, OutCheck, OutPop, readVars
<1>15. CASE UNCHANGED vars
  BY <1>15, <1>1 DEF vars, readVars
<1> QED
  BY <1>2, <1>3, <1>4, <1>5, <1>6, <1>7, <1>8, <1>9, <1>10, <1>11, <1>12, <1>13, <1>14, <1>15
     DEF Next, Main, Ended

LEMMA SimpleTypeStep == TypeOK /\ [Next]_vars => SimpleTypeOK'
<1> SUFFICES ASSUME TypeOK, [Next]_vars PROVE SimpleTypeOK'
  OBVIOUS
<1> USE DEF TypeOK, SimpleTypeOK
<1>1. ASSUME UNCHANGED readVars PROVE SimpleTypeOK'
  BY <1>1 DEF readVars
<1>2. ASSUME NEW p \in Captured, ReadPacket(p) PROVE SimpleTypeOK'
  <2>1. p \in Packet /\ p.flow \in Flow /\ simpleFlows[p.flow] \in SimpleEntry
    BY DEF Packet
  <2>2. SimpleStep(simpleFlows[p.flow], p) \in SimpleEntry
    BY <2>1, SimpleStepType
  <2>3. simpleFlows' \in [Flow -> SimpleEntry]
    BY <1>2, <2>1, <2>2 DEF ReadPacket
  <2>4. before' \in Seq(SimpleEntry) /\ Len(before') = Len(before) + 1
    BY <1>2, <2>1, PutOne DEF ReadPacket
  <2>5. Len(capture') = Len(capture) + 1
    BY <1>2, <2>1, PutOne DEF ReadPacket, MainTypeOK
  <2> QED
    BY <2>3, <2>4, <2>5
<1> QED
  BY <1>1, <1>2 DEF Next, vars, Main, OpenFiles, EndOfCapture, PushToLB, SignalLB, JoinLB, SignalFP,
     JoinFP, CloseOutput, JoinOutput, Balancer, LbCheck, LbPop, LbPush, FastPath, FpCheck,
     FpPopNothing, FpJudge, FpPush, Output, OutCheck, OutPop, Ended

(* Reading more only widens what a queue or a hand may hold. *)
LEMMA ReadGrows ==
    ASSUME MainTypeOK, NEW p \in Captured, ReadPacket(p)
    PROVE  /\ Read \subseteq Read' /\ Read' = Read \cup {Len(capture) + 1}
           /\ \A k \in Read : capture'[k] = capture[k]
           /\ capture'[Len(capture) + 1] = p
  BY DEF ReadPacket, Read, MainTypeOK

LEMMA LbTypeStep == TypeOK /\ [Next]_vars => LbTypeOK'
<1> SUFFICES ASSUME TypeOK, [Next]_vars PROVE LbTypeOK'
  OBVIOUS
<1> USE DEF TypeOK, LbTypeOK, NoId
<1>1. ASSUME UNCHANGED <<lbVars, lbQ, lbOn, capture>> PROVE LbTypeOK'
  BY <1>1 DEF lbVars, Read
<1>2. CASE OpenFiles
  BY <1>2 DEF OpenFiles, readVars, Read
<1>3. ASSUME NEW p \in Captured, ReadPacket(p) PROVE LbTypeOK'
  <2>1. UNCHANGED <<lbVars, lbQ, lbOn>> /\ Read \subseteq Read'
    BY <1>3, ReadGrows DEF ReadPacket, on
  <2>2. \A l \in LB : lbQ[l] \in Seq(Read')
    BY <2>1, Wider
  <2> QED
    BY <2>1, <2>2 DEF lbVars
<1>4. CASE PushToLB
  <2> DEFINE l == LbOf(FlowOf(mainJob))
  <2>1. mainJob \in Read /\ capture[mainJob] \in Packet
    BY <1>4 DEF PushToLB, MainTypeOK, Read
  <2>2. l \in LB
    BY <2>1, Paths DEF FlowOf, Packet
  <2>3. Push(lbOn[l], lbQ[l], mainJob) \in Seq(Read) /\ Len(Push(lbOn[l], lbQ[l], mainJob)) <= QueueSize
    BY <1>4, <2>1, <2>2, PushType DEF PushToLB
  <2>4. lbQ' = [lbQ EXCEPT ![l] = Push(lbOn[l], lbQ[l], mainJob)] /\ UNCHANGED <<lbVars, lbOn, capture>>
    BY <1>4 DEF PushToLB, readVars, on
  <2> HIDE DEF l
  <2> QED
    BY <2>2, <2>3, <2>4 DEF lbVars, Read
<1>5. CASE SignalLB
  BY <1>5 DEF SignalLB, readVars, lbVars, Read
<1>6. ASSUME NEW l \in LB, LbCheck(l) PROVE LbTypeOK'
  BY <1>6 DEF LbCheck, readVars, on, Read
<1>7. ASSUME NEW l \in LB, LbPop(l) PROVE LbTypeOK'
  <2>1. CASE lbQ[l] = <<>>
    BY <1>7, <2>1 DEF LbPop, readVars, on, Read
  <2>2. CASE lbQ[l] # <<>>
    <3>1. Head(lbQ[l]) \in Read /\ Tail(lbQ[l]) \in Seq(Read) /\ Len(Tail(lbQ[l])) <= QueueSize
      BY <2>2, TakeOne
    <3>2. Head(lbQ[l]) # 0
      BY <3>1 DEF Read
    <3>3. /\ lbPc' = [lbPc EXCEPT ![l] = "push"] /\ lbJob' = [lbJob EXCEPT ![l] = Head(lbQ[l])]
          /\ lbQ' = [lbQ EXCEPT ![l] = Tail(lbQ[l])] /\ UNCHANGED <<lbOn, capture>>
      BY <1>7, <2>2 DEF LbPop, readVars, on
    <3> QED
      BY <3>1, <3>2, <3>3 DEF Read
  <2> QED
    BY <2>1, <2>2
<1>8. ASSUME NEW l \in LB, LbPush(l) PROVE LbTypeOK'
  BY <1>8 DEF LbPush, readVars, on, Read
<1>9. CASE UNCHANGED vars
  BY <1>9, <1>1 DEF vars, on, readVars
<1> QED
  BY <1>1, <1>2, <1>3, <1>4, <1>5, <1>6, <1>7, <1>8, <1>9 DEF Next, Main, EndOfCapture,
     JoinLB, SignalFP, JoinFP, CloseOutput, JoinOutput, Balancer, FastPath, FpCheck,
     FpPopNothing, FpJudge, FpPush, Output, OutCheck, OutPop, Ended, on, readVars

LEMMA FpTypeStep == TypeOK /\ [Next]_vars => FpTypeOK'
<1> SUFFICES ASSUME TypeOK, [Next]_vars PROVE FpTypeOK'
  OBVIOUS
<1> USE DEF TypeOK, FpTypeOK, NoId
<1>1. ASSUME UNCHANGED <<fpVars, fpQ, fpOn, capture>> PROVE FpTypeOK'
  BY <1>1 DEF fpVars, Read
<1>2. CASE OpenFiles
  BY <1>2 DEF OpenFiles, readVars, Read
<1>3. ASSUME NEW p \in Captured, ReadPacket(p) PROVE FpTypeOK'
  <2>1. UNCHANGED <<fpVars, fpQ, fpOn>> /\ Read \subseteq Read'
    BY <1>3, ReadGrows DEF ReadPacket, on
  <2>2. \A f \in FP : fpQ[f] \in Seq(Read')
    BY <2>1, Wider
  <2> QED
    BY <2>1, <2>2 DEF fpVars
<1>4. ASSUME NEW l \in LB, LbPush(l) PROVE FpTypeOK'
  <2> DEFINE f == FpOf(l, FlowOf(lbJob[l]))
  <2>1. lbJob[l] \in Read /\ capture[lbJob[l]] \in Packet
    BY <1>4 DEF LbPush, LbTypeOK, MainTypeOK, Read
  <2>2. f \in FP
    BY <2>1, Paths DEF FlowOf, Packet
  <2>3. Push(fpOn[f], fpQ[f], lbJob[l]) \in Seq(Read) /\ Len(Push(fpOn[f], fpQ[f], lbJob[l])) <= QueueSize
    BY <1>4, <2>1, <2>2, PushType DEF LbPush
  <2>4. fpQ' = [fpQ EXCEPT ![f] = Push(fpOn[f], fpQ[f], lbJob[l])] /\ UNCHANGED <<fpVars, fpOn, capture>>
    BY <1>4 DEF LbPush, readVars, on
  <2> HIDE DEF f
  <2> QED
    BY <2>2, <2>3, <2>4 DEF fpVars, Read
<1>5. CASE SignalFP
  BY <1>5 DEF SignalFP, readVars, fpVars, Read
<1>6. ASSUME NEW f \in FP, FpCheck(f) PROVE FpTypeOK'
  BY <1>6 DEF FpCheck, readVars, on, Read
<1>7. ASSUME NEW f \in FP, FpPopNothing(f) PROVE FpTypeOK'
  BY <1>7 DEF FpPopNothing, readVars, on, Read
<1>8. ASSUME NEW f \in FP, FpJudge(f) PROVE FpTypeOK'
  <2> DEFINE k == Head(fpQ[f])
             e == MtStep(flows[f][FlowOf(k)], capture[k])
  <2>1. k \in Read /\ Tail(fpQ[f]) \in Seq(Read) /\ Len(Tail(fpQ[f])) <= QueueSize
    BY <1>8, TakeOne DEF FpJudge
  <2>2. capture[k] \in Packet /\ FlowOf(k) \in Flow
    BY <2>1, Known
  <2>3. e \in FlowEntry
    BY <2>2, MtStepType
  <2>4. /\ fpQ' = [fpQ EXCEPT ![f] = Tail(fpQ[f])]
        /\ flows' = [flows EXCEPT ![f][FlowOf(k)] = e]
        /\ \/ /\ dropped' = dropped \cup {k} /\ fpPc' = [fpPc EXCEPT ![f] = "check"]
              /\ UNCHANGED <<forwarded, fpJob>>
           \/ /\ forwarded' = forwarded \cup {k} /\ fpPc' = [fpPc EXCEPT ![f] = "push"]
              /\ fpJob' = [fpJob EXCEPT ![f] = k] /\ UNCHANGED dropped
        /\ UNCHANGED <<fpOn, capture>>
    BY <1>8 DEF FpJudge, readVars, on
  <2> HIDE DEF k, e
  <2>5. flows' \in [FP -> [Flow -> FlowEntry]]
    BY <2>2, <2>3, <2>4
  <2>6. fpQ' \in [FP -> Seq(Read)] /\ \A g \in FP : Len(fpQ'[g]) <= QueueSize
    BY <2>1, <2>4
  <2>7. k # 0
    BY <2>1 DEF Read
  <2>8. forwarded' \subseteq Read /\ dropped' \subseteq Read /\ Read' = Read /\ fpOn' = fpOn
    BY <2>1, <2>4 DEF Read
  <2>9. /\ fpPc' \in [FP -> {"off", "check", "pop", "push"}] /\ fpJob' \in [FP -> Read \cup {0}]
        /\ \A g \in FP : fpPc'[g] = "push" => fpJob'[g] # 0
    <3>1. CASE fpPc' = [fpPc EXCEPT ![f] = "check"] /\ UNCHANGED <<forwarded, fpJob>>
      BY <3>1
    <3>2. CASE fpPc' = [fpPc EXCEPT ![f] = "push"] /\ fpJob' = [fpJob EXCEPT ![f] = k]
      BY <3>2, <2>1, <2>7
    <3> QED
      BY <2>4, <3>1, <3>2
  <2> QED
    BY <2>5, <2>6, <2>8, <2>9
<1>9. ASSUME NEW f \in FP, FpPush(f) PROVE FpTypeOK'
  BY <1>9 DEF FpPush, readVars, on, Read
<1>10. CASE UNCHANGED vars
  BY <1>10, <1>1 DEF vars, on, readVars
<1> QED
  BY <1>1, <1>2, <1>3, <1>4, <1>5, <1>6, <1>7, <1>8, <1>9, <1>10 DEF Next, Main, EndOfCapture,
     PushToLB, SignalLB, JoinLB, JoinFP, CloseOutput, JoinOutput, Balancer, LbCheck, LbPop, FastPath,
     Output, OutCheck, OutPop, Ended, on, readVars

LEMMA OutTypeStep == TypeOK /\ [Next]_vars => OutTypeOK'
<1> SUFFICES ASSUME TypeOK, [Next]_vars PROVE OutTypeOK'
  OBVIOUS
<1> USE DEF TypeOK, OutTypeOK, NoId
<1>1. ASSUME UNCHANGED <<outVars, outQ, outOn, lost, capture>> PROVE OutTypeOK'
  BY <1>1 DEF outVars, Read
<1>2. CASE OpenFiles
  BY <1>2 DEF OpenFiles, readVars, Read
<1>3. ASSUME NEW p \in Captured, ReadPacket(p) PROVE OutTypeOK'
  <2>1. UNCHANGED <<outVars, outQ, outOn, lost>> /\ Read \subseteq Read'
    BY <1>3, ReadGrows DEF ReadPacket, on
  <2>2. outQ \in Seq(Read') /\ file \in Seq(Read')
    BY <2>1, Wider
  <2> QED
    BY <2>1, <2>2 DEF outVars
<1>4. CASE PushToLB
  <2>1. Refused(lbOn[LbOf(FlowOf(mainJob))], mainJob) \subseteq Read
    BY <1>4 DEF Refused, PushToLB, MainTypeOK
  <2> QED
    BY <1>4, <2>1 DEF PushToLB, outVars, readVars, on, Read
<1>5. CASE CloseOutput
  BY <1>5 DEF CloseOutput, readVars, outVars, Read
<1>6. ASSUME NEW l \in LB, LbPush(l) PROVE OutTypeOK'
  <2>1. lbJob[l] \in Read
    BY <1>6 DEF LbPush, LbTypeOK
  <2>2. Refused(fpOn[FpOf(l, FlowOf(lbJob[l]))], lbJob[l]) \subseteq Read
    BY <2>1 DEF Refused
  <2> QED
    BY <1>6, <2>2 DEF LbPush, outVars, readVars, on, Read
<1>7. ASSUME NEW f \in FP, FpPush(f) PROVE OutTypeOK'
  <2>1. fpJob[f] \in Read
    BY <1>7 DEF FpPush, FpTypeOK
  <2>2. Push(outOn, outQ, fpJob[f]) \in Seq(Read) /\ Len(Push(outOn, outQ, fpJob[f])) <= QueueSize
    BY <1>7, <2>1, PushType DEF FpPush
  <2>3. Refused(outOn, fpJob[f]) \subseteq Read
    BY <2>1 DEF Refused
  <2> QED
    BY <1>7, <2>2, <2>3 DEF FpPush, outVars, readVars, on, Read
<1>8. CASE OutCheck
  BY <1>8 DEF OutCheck, readVars, on, Read
<1>9. CASE OutPop
  <2>1. CASE outQ = <<>>
    BY <1>9, <2>1 DEF OutPop, readVars, on, Read
  <2>2. CASE outQ # <<>>
    <3>1. Head(outQ) \in Read /\ Tail(outQ) \in Seq(Read) /\ Len(Tail(outQ)) <= QueueSize
      BY <2>2, TakeOne
    <3>2. Append(file, Head(outQ)) \in Seq(Read)
      BY <3>1, PutOne
    <3> QED
      BY <1>9, <2>2, <3>1, <3>2 DEF OutPop, readVars, on, Read
  <2> QED
    BY <2>1, <2>2
<1>10. CASE UNCHANGED vars
  BY <1>10, <1>1 DEF vars, on, readVars
<1> QED
  BY <1>1, <1>2, <1>3, <1>4, <1>5, <1>6, <1>7, <1>8, <1>9, <1>10 DEF Next, Main, EndOfCapture,
     SignalLB, JoinLB, SignalFP, JoinFP, JoinOutput, Balancer, LbCheck, LbPop, FastPath, FpCheck,
     FpPopNothing, FpJudge, Output, Ended, on, readVars

LEMMA InitType == Init => TypeOK
<1> SUFFICES ASSUME Init PROVE TypeOK
  OBVIOUS
<1> USE DEF Init
<1>1. NoSimpleEntry \in SimpleEntry /\ NoFlowEntry \in FlowEntry
  BY DEF NoSimpleEntry, SimpleEntry, NoFlowEntry, FlowEntry, App
<1>2. MainTypeOK /\ SimpleTypeOK
  BY <1>1 DEF MainTypeOK, MainPc, SimpleTypeOK, NoId
<1>3. LbTypeOK
  BY DEF LbTypeOK, NoId
<1>4. FpTypeOK
  BY <1>1 DEF FpTypeOK, NoId
<1>5. OutTypeOK
  <2>1. <<>> \in Seq(Read) /\ Len(<<>>) = 0 /\ 0 <= QueueSize
    OBVIOUS
  <2> QED
    BY <2>1 DEF OutTypeOK
<1> QED
  BY <1>2, <1>3, <1>4, <1>5 DEF TypeOK

LEMMA TypeStep == TypeOK /\ [Next]_vars => TypeOK'
  BY MainTypeStep, SimpleTypeStep, LbTypeStep, FpTypeStep, OutTypeStep DEF TypeOK

(* Queues stay within their size, and a queue, a thread or a counter holds   *)
(* only packets that were read, whatever the numbers of threads.             *)
THEOREM TypeCorrect == Spec => []TypeOK
  BY InitType, TypeStep, PTL DEF Spec

-----------------------------------------------------------------------------
(* The order of the stops                                                    *)

(* The balancers, and the fast paths, may still have a thread. *)
BalancersUp == mainPc \in {"read", "push", "signalLB", "joinLB"}
FastPathsUp == BalancersUp \/ mainPc \in {"signalFP", "joinFP"}

(* A stage ends after the one that feeds it has ended, and its queue is open *)
(* until then.                                                               *)
LbOrder ==
    /\ \A l \in LB : lbPc[l] # "off" => BalancersUp
    /\ mainPc \in {"signalLB", "joinLB"} => \A l \in 0..(idx - 1) : lbPc[l] = "off"
    /\ mainPc \in {"read", "push"} => \A l \in LB : lbOn[l]
    /\ \A l \in LB : lbJob[l] # NoId => lbPc[l] = "push"

FpOrder ==
    /\ BalancersUp => \A f \in FP : fpOn[f]
    /\ \A f \in FP : fpPc[f] # "off" => FastPathsUp
    /\ mainPc \in {"signalFP", "joinFP"} => \A f \in 0..(idx - 1) : fpPc[f] = "off"
    /\ \A f \in FP : fpJob[f] # NoId => fpPc[f] = "push"

OutOrder ==
    /\ FastPathsUp \/ mainPc = "closeOutput" => outOn
    /\ outPc = "off" => outQ = <<>> /\ ~outOn
    /\ mainPc = "done" => outPc = "off"

StopOrder == LbOrder /\ FpOrder /\ OutOrder /\ lost = {}

LEMMA LastOne ==
    ASSUME NEW i \in LB, i + 1 \notin LB, NEW l \in LB
    PROVE  l = i \/ l \in 0..(i - 1)
  BY DEF LB

LEMMA LastFP ==
    ASSUME NEW i \in FP, i + 1 \notin FP, NEW f \in FP
    PROVE  f = i \/ f \in 0..(i - 1)
  BY PoolSize DEF FP

LEMMA LbOrderStep == TypeOK /\ StopOrder /\ [Next]_vars => LbOrder'
<1> SUFFICES ASSUME TypeOK, StopOrder, [Next]_vars PROVE LbOrder'
  OBVIOUS
<1> USE DEF TypeOK, StopOrder, LbOrder, BalancersUp, MainTypeOK, LbTypeOK, NoId
<1>1. ASSUME UNCHANGED <<mainVars, lbVars, lbOn>> PROVE LbOrder'
  BY <1>1 DEF mainVars, lbVars
<1>2. CASE OpenFiles
  <2>1. \A l \in LB : lbJob[l] = 0
    BY <1>2 DEF OpenFiles
  <2> QED
    BY <1>2, <2>1 DEF OpenFiles
<1>3. ASSUME NEW p \in Captured, ReadPacket(p) PROVE LbOrder'
  BY <1>3 DEF ReadPacket, lbVars, on
<1>4. CASE EndOfCapture
  BY <1>4 DEF EndOfCapture, lbVars, on
<1>5. CASE PushToLB
  BY <1>5 DEF PushToLB, lbVars, on
<1>6. CASE SignalLB
  BY <1>6 DEF SignalLB, lbVars
<1>7. CASE JoinLB
  <2>1. idx \in LB /\ LB \subseteq Nat /\ UNCHANGED <<lbVars, lbOn>>
    BY <1>7, Threads DEF JoinLB, on
  <2>2. \A l \in LB : l = idx \/ l \in 0..(idx - 1) => lbPc[l] = "off"
    BY <1>7 DEF JoinLB
  <2>3. CASE idx + 1 \in LB
    <3>1. mainPc' = "signalLB" /\ idx' = idx + 1
      BY <1>7, <2>3 DEF JoinLB
    <3>2. lbPc' = lbPc /\ lbJob' = lbJob /\ lbOn' = lbOn
      BY <2>1 DEF lbVars
    <3>3. \A l \in 0..idx : lbPc[l] = "off"
      BY <2>1, <2>2, <2>3 DEF LB
    <3> QED
      BY <1>7, <2>1, <3>1, <3>2, <3>3 DEF JoinLB
  <2>4. CASE idx + 1 \notin LB
    <3>1. \A l \in LB : lbPc[l] = "off"
      BY <2>1, <2>2, <2>4, LastOne
    <3> QED
      BY <1>7, <2>1, <2>4, <3>1 DEF JoinLB, lbVars
  <2> QED
    BY <2>3, <2>4
<1>8. CASE SignalFP \/ JoinFP \/ CloseOutput \/ JoinOutput
  BY <1>8 DEF SignalFP, JoinFP, CloseOutput, JoinOutput, lbVars, on
<1>9. ASSUME NEW l \in LB, LbCheck(l) PROVE LbOrder'
  BY <1>9 DEF LbCheck, mainVars, on
<1>10. ASSUME NEW l \in LB, LbPop(l) PROVE LbOrder'
  <2>1. lbPc' \in [LB -> {"off", "check", "pop", "push"}] /\ UNCHANGED <<mainVars, lbOn>>
        /\ lbPc[l] = "pop" /\ lbPc'[l] \in {"check", "push"} /\ \A m \in LB \ {l} : lbPc'[m] = lbPc[m]
    BY <1>10 DEF LbPop, on
  <2>2. \A m \in LB : lbJob'[m] # 0 => lbPc'[m] = "push"
    BY <1>10 DEF LbPop
  <2>3. mainPc' = mainPc /\ idx' = idx /\ lbOn' = lbOn
    BY <2>1 DEF mainVars
  <2>4. ASSUME mainPc \in {"signalLB", "joinLB"}, NEW m \in 0..(idx - 1) PROVE lbPc'[m] = "off"
    <3>1. m \in LB /\ lbPc[m] = "off"
      BY <2>4 DEF LB
    <3> QED
      BY <2>1, <3>1
  <2> QED
    BY <2>1, <2>2, <2>3, <2>4
<1>11. ASSUME NEW l \in LB, LbPush(l) PROVE LbOrder'
  BY <1>11 DEF LbPush, mainVars, on
<1> QED
  BY <1>1, <1>2, <1>3, <1>4, <1>5, <1>6, <1>7, <1>8, <1>9, <1>10, <1>11 DEF Next, Main, Balancer, FastPath,
     FpCheck, FpPopNothing, FpJudge, FpPush, Output, OutCheck, OutPop, Ended, on, vars

LEMMA FpOrderStep == TypeOK /\ StopOrder /\ [Next]_vars => FpOrder'
<1> SUFFICES ASSUME TypeOK, StopOrder, [Next]_vars PROVE FpOrder'
  OBVIOUS
<1> USE DEF TypeOK, StopOrder, FpOrder, FastPathsUp, BalancersUp, MainTypeOK, FpTypeOK, NoId
<1>1. ASSUME UNCHANGED <<mainVars, fpVars, fpOn>> PROVE FpOrder'
  BY <1>1 DEF mainVars, fpVars
<1>2. CASE OpenFiles
  <2>1. \A f \in FP : fpJob[f] = 0
    BY <1>2 DEF OpenFiles
  <2> QED
    BY <1>2, <2>1 DEF OpenFiles
<1>3. ASSUME NEW p \in Captured, ReadPacket(p) PROVE FpOrder'
  BY <1>3 DEF ReadPacket, fpVars, on
<1>4. CASE EndOfCapture \/ PushToLB \/ SignalLB \/ JoinLB
  BY <1>4, Threads DEF EndOfCapture, PushToLB, SignalLB, JoinLB, fpVars, on
<1>5. CASE SignalFP
  BY <1>5 DEF SignalFP, fpVars
<1>6. CASE JoinFP
  <2>1. idx \in FP /\ FP \subseteq Nat /\ UNCHANGED <<fpVars, fpOn>>
    BY <1>6, Threads DEF JoinFP, on
  <2>2. \A f \in FP : f = idx \/ f \in 0..(idx - 1) => fpPc[f] = "off"
    BY <1>6 DEF JoinFP
  <2>3. CASE idx + 1 \in FP
    BY <1>6, <2>1, <2>3, <2>2, PoolSize DEF JoinFP, fpVars, FP
  <2>4. CASE idx + 1 \notin FP
    <3>1. \A f \in FP : fpPc[f] = "off"
      BY <2>1, <2>2, <2>4, LastFP
    <3> QED
      BY <1>6, <2>1, <2>4, <3>1 DEF JoinFP, fpVars
  <2> QED
    BY <2>3, <2>4
<1>7. CASE CloseOutput \/ JoinOutput
  BY <1>7 DEF CloseOutput, JoinOutput, fpVars, on
<1>8. ASSUME NEW f \in FP, FpCheck(f) PROVE FpOrder'
  BY <1>8 DEF FpCheck, mainVars, on
<1>9. ASSUME NEW f \in FP, FpPopNothing(f) PROVE FpOrder'
  BY <1>9 DEF FpPopNothing, mainVars, on
<1>10. ASSUME NEW f \in FP, FpJudge(f) PROVE FpOrder'
  <2>1. fpPc' \in [FP -> {"off", "check", "pop", "push"}] /\ UNCHANGED <<mainVars, fpOn>>
        /\ fpPc[f] = "pop" /\ fpPc'[f] \in {"check", "push"} /\ \A g \in FP \ {f} : fpPc'[g] = fpPc[g]
    BY <1>10 DEF FpJudge, on
  <2>2. \A g \in FP : fpJob'[g] # 0 => fpPc'[g] = "push"
    BY <1>10 DEF FpJudge
  <2>3. mainPc' = mainPc /\ idx' = idx /\ fpOn' = fpOn
    BY <2>1 DEF mainVars
  <2>4. ASSUME mainPc \in {"signalFP", "joinFP"}, NEW g \in 0..(idx - 1) PROVE fpPc'[g] = "off"
    <3>1. g \in FP /\ fpPc[g] = "off"
      BY <2>4, PoolSize DEF FP
    <3> QED
      BY <2>1, <3>1
  <2> QED
    BY <2>1, <2>2, <2>3, <2>4
<1>11. ASSUME NEW f \in FP, FpPush(f) PROVE FpOrder'
  BY <1>11 DEF FpPush, mainVars, on
<1> QED
  BY <1>1, <1>2, <1>3, <1>4, <1>5, <1>6, <1>7, <1>8, <1>9, <1>10, <1>11 DEF Next, Main, Balancer, FastPath,
     LbCheck, LbPop, LbPush, Output, OutCheck, OutPop, Ended, on, vars

LEMMA OutOrderStep == TypeOK /\ StopOrder /\ [Next]_vars => OutOrder'
<1> SUFFICES ASSUME TypeOK, StopOrder, [Next]_vars PROVE OutOrder'
  OBVIOUS
<1> USE DEF TypeOK, StopOrder, OutOrder, FastPathsUp, BalancersUp, OutTypeOK
<1>1. ASSUME UNCHANGED <<mainVars, outVars, outOn, outQ>> PROVE OutOrder'
  BY <1>1 DEF mainVars, outVars
<1>2. CASE OpenFiles
  BY <1>2 DEF OpenFiles
<1>3. ASSUME NEW p \in Captured, ReadPacket(p) PROVE OutOrder'
  BY <1>3 DEF ReadPacket, outVars, on
<1>4. CASE EndOfCapture \/ PushToLB \/ SignalLB \/ JoinLB \/ SignalFP \/ JoinFP
  BY <1>4 DEF EndOfCapture, PushToLB, SignalLB, JoinLB, SignalFP, JoinFP, outVars, on
<1>5. CASE CloseOutput
  BY <1>5 DEF CloseOutput, outVars
<1>6. CASE JoinOutput
  BY <1>6 DEF JoinOutput, outVars, on
<1>7. ASSUME NEW f \in FP, FpPush(f) PROVE OutOrder'
  <2>1. fpPc[f] = "push" /\ UNCHANGED <<mainVars, outVars, outOn>>
    BY <1>7 DEF FpPush, on
  <2>2. outOn /\ outPc # "off"
    BY <2>1 DEF FpOrder
  <2> QED
    BY <2>1, <2>2 DEF mainVars, outVars
<1>8. CASE OutCheck
  BY <1>8 DEF OutCheck, OutputGoesOn, mainVars, on
<1>9. CASE OutPop
  BY <1>9 DEF OutPop, mainVars, on
<1> QED
  BY <1>1, <1>2, <1>3, <1>4, <1>5, <1>6, <1>7, <1>8, <1>9 DEF Next, Main, Balancer, FastPath,
     LbCheck, LbPop, LbPush, FpCheck, FpPopNothing, FpJudge, Output, Ended, on, vars

(* Every push finds its queue open. *)
LEMMA QueueOpen ==
    ASSUME TypeOK, StopOrder
    PROVE  /\ mainPc = "push" => \A l \in LB : lbOn[l]
           /\ \A l \in LB : lbPc[l] = "push" => \A f \in FP : fpOn[f]
           /\ \A f \in FP : fpPc[f] = "push" => outOn
  BY DEF StopOrder, LbOrder, FpOrder, OutOrder, FastPathsUp

LEMMA NothingLostStep == TypeOK /\ StopOrder /\ [Next]_vars => lost' = {}
<1> SUFFICES ASSUME TypeOK, StopOrder, [Next]_vars PROVE lost' = {}
  OBVIOUS
<1>1. lost = {}
  BY DEF StopOrder
<1>2. CASE PushToLB
  <2>1. LbOf(FlowOf(mainJob)) \in LB
    BY <1>2, Known, Paths DEF PushToLB, TypeOK, MainTypeOK
  <2> QED
    BY <1>1, <1>2, <2>1, QueueOpen DEF PushToLB, Refused
<1>3. ASSUME NEW l \in LB, LbPush(l) PROVE lost' = {}
  <2>1. lbJob[l] \in Read
    BY <1>3 DEF LbPush, TypeOK, LbTypeOK
  <2>2. FpOf(l, FlowOf(lbJob[l])) \in FP
    BY <2>1, Known, Paths DEF TypeOK
  <2> QED
    BY <1>1, <1>3, <2>2, QueueOpen DEF LbPush, Refused
<1>4. ASSUME NEW f \in FP, FpPush(f) PROVE lost' = {}
  BY <1>1, <1>4, QueueOpen DEF FpPush, Refused
<1> QED
  BY <1>1, <1>2, <1>3, <1>4 DEF Next, vars, Main, OpenFiles, ReadPacket, EndOfCapture, SignalLB, JoinLB,
     SignalFP, JoinFP, CloseOutput, JoinOutput, Balancer, LbCheck, LbPop, FastPath, FpCheck,
     FpPopNothing, FpJudge, Output, OutCheck, OutPop, Ended

LEMMA StopOrderStep == TypeOK /\ StopOrder /\ [Next]_vars => StopOrder'
  BY LbOrderStep, FpOrderStep, OutOrderStep, NothingLostStep DEF StopOrder

LEMMA InitStopOrder == Init => StopOrder
  BY DEF Init, StopOrder, LbOrder, FpOrder, OutOrder, BalancersUp, FastPathsUp, NoId

(* The stops are in the order of the pipeline: a stage ends only after its   *)
(* feeder has, so no packet is ever pushed to a queue that was shut down.    *)
THEOREM NothingRefused == Spec => [](lost = {})
<1>1. TypeOK /\ StopOrder /\ [Next]_vars => TypeOK' /\ StopOrder'
  BY TypeStep, StopOrderStep
<1>2. StopOrder => lost = {}
  BY DEF StopOrder
<1> QED
  BY InitType, InitStopOrder, <1>1, <1>2, PTL DEF Spec

-----------------------------------------------------------------------------
(* Waiting                                                                   *)

(* A thread ends only after it is told to, and is joined only then.          *)
RunsUntilStopped ==
    /\ \A l \in LB : lbOn[l] => lbPc[l] # "off"
    /\ \A f \in FP : fpOn[f] => fpPc[f] # "off"
    /\ mainPc = "joinLB" => ~lbOn[idx]
    /\ mainPc = "joinFP" => ~fpOn[idx]
    /\ mainPc = "joinOutput" => ~outOn

(* Who waits for room waits for a thread that has not ended; main joins a    *)
(* thread that was told to stop.                                             *)
NobodyWaitsInVain ==
    /\ mainPc = "push" => lbPc[LbOf(FlowOf(mainJob))] # "off"
    /\ \A l \in LB : lbPc[l] = "push" => fpPc[FpOf(l, FlowOf(lbJob[l]))] # "off"
    /\ \A f \in FP : fpPc[f] = "push" => outPc # "off"
    /\ mainPc = "joinLB" => ~lbOn[idx]
    /\ mainPc = "joinFP" => ~fpOn[idx]
    /\ mainPc = "joinOutput" => ~outOn

LEMMA RunsStep == TypeOK /\ StopOrder /\ RunsUntilStopped /\ [Next]_vars => RunsUntilStopped'
<1> SUFFICES ASSUME TypeOK, StopOrder, RunsUntilStopped, [Next]_vars PROVE RunsUntilStopped'
  OBVIOUS
<1>1. ASSUME UNCHANGED <<mainPc, idx, on, lbPc, fpPc>> PROVE RunsUntilStopped'
  BY <1>1 DEF RunsUntilStopped, on
<1>2. CASE OpenFiles
  BY <1>2 DEF OpenFiles, RunsUntilStopped
<1>3. CASE (\E p \in Captured : ReadPacket(p)) \/ EndOfCapture \/ PushToLB
  BY <1>3 DEF ReadPacket, EndOfCapture, PushToLB, RunsUntilStopped, lbVars, fpVars, on
<1>4. CASE SignalLB
  BY <1>4 DEF SignalLB, RunsUntilStopped, lbVars, fpVars, TypeOK, LbTypeOK, MainTypeOK
<1>5. CASE SignalFP
  BY <1>5 DEF SignalFP, RunsUntilStopped, lbVars, fpVars, TypeOK, FpTypeOK, MainTypeOK
<1>6. CASE JoinLB \/ JoinFP \/ CloseOutput \/ JoinOutput
  BY <1>6 DEF JoinLB, JoinFP, CloseOutput, JoinOutput, RunsUntilStopped, lbVars, fpVars, on
<1>7. ASSUME NEW l \in LB, Balancer(l) PROVE RunsUntilStopped'
  BY <1>7 DEF Balancer, LbCheck, LbPop, LbPush, RunsUntilStopped, mainVars, fpVars, on, TypeOK, LbTypeOK
<1>8. ASSUME NEW f \in FP, FastPath(f) PROVE RunsUntilStopped'
  BY <1>8 DEF FastPath, FpCheck, FpPopNothing, FpJudge, FpPush, RunsUntilStopped, mainVars, lbVars, on,
     TypeOK, FpTypeOK
<1>9. CASE Output
  BY <1>1, <1>9 DEF Output, OutCheck, OutPop, mainVars, lbVars, fpVars
<1>10. CASE Ended \/ UNCHANGED vars
  BY <1>1, <1>10 DEF Ended, vars, mainVars, lbVars, fpVars
<1> QED
  BY <1>2, <1>3, <1>4, <1>5, <1>6, <1>7, <1>8, <1>9, <1>10 DEF Next, Main

(* A thread that waits for room in a queue waits for one that still takes    *)
(* from it, and main joins threads that were told to stop: no wait of        *)
(* process() is for a thread that is gone, whatever queue is full when the   *)
(* stops begin (dpi_mt.cpp:476-512).                                         *)
THEOREM NobodyWaitsInVainCorrect == Spec => []NobodyWaitsInVain
<1>1. Init => RunsUntilStopped
  BY DEF Init, RunsUntilStopped
<1>2. TypeOK /\ StopOrder /\ [Next]_vars => TypeOK' /\ StopOrder'
  BY TypeStep, StopOrderStep
<1>3. ASSUME TypeOK, StopOrder, RunsUntilStopped PROVE NobodyWaitsInVain
  <2>1. mainPc = "push" => lbPc[LbOf(FlowOf(mainJob))] # "off"
    BY <1>3, Known, Paths, QueueOpen DEF RunsUntilStopped, TypeOK, MainTypeOK
  <2>2. ASSUME NEW l \in LB, lbPc[l] = "push" PROVE fpPc[FpOf(l, FlowOf(lbJob[l]))] # "off"
    <3>1. lbJob[l] \in Read
      BY <1>3, <2>2 DEF TypeOK, LbTypeOK
    <3>2. FpOf(l, FlowOf(lbJob[l])) \in FP
      BY <1>3, <3>1, Known, Paths DEF TypeOK
    <3> QED
      BY <1>3, <2>2, <3>2, QueueOpen DEF RunsUntilStopped
  <2>3. ASSUME NEW f \in FP, fpPc[f] = "push" PROVE outPc # "off"
    BY <1>3, <2>3, QueueOpen DEF StopOrder, OutOrder
  <2> QED
    BY <1>3, <2>1, <2>2, <2>3 DEF NobodyWaitsInVain, RunsUntilStopped
<1> QED
  BY InitType, InitStopOrder, RunsStep, <1>1, <1>2, <1>3, PTL DEF Spec

-----------------------------------------------------------------------------
(* The path of a packet                                                      *)

In(q) == {q[i] : i \in DOMAIN q}
Increasing(q) == \A i, j \in DOMAIN q : i < j => q[i] < q[j]

LbFor(k) == LbOf(FlowOf(k))
FpFor(k) == FpOf(LbFor(k), FlowOf(k))

(* The packets main has handed on, and those a fast path has judged. *)
Sent == 1..(IF mainPc = "push" THEN Len(capture) - 1 ELSE Len(capture))
Judged == forwarded \cup dropped

(* What balancer l has: in its queue, or in its hand. *)
Held(l) == In(lbQ[l]) \cup ({lbJob[l]} \ {NoId})

(* Packet k is ahead of everything its balancer, or its fast path, has. *)
AheadOfLB(k) == \A m \in Held(LbFor(k)) : k < m
AheadOfFP(k) == \A m \in In(fpQ[FpFor(k)]) : k < m

OnPath ==
    /\ \A l \in LB : \A k \in Held(l) : k \in Sent /\ LbFor(k) = l
    /\ \A f \in FP : \A k \in In(fpQ[f]) : k \in Sent /\ FpFor(k) = f
    /\ Judged \subseteq Sent

InLine ==
    /\ \A l \in LB : Increasing(lbQ[l]) /\ (lbJob[l] # NoId => \A k \in In(lbQ[l]) : lbJob[l] < k)
    /\ \A f \in FP : Increasing(fpQ[f])

InOrder ==
    /\ \A f \in FP : \A k \in In(fpQ[f]) : AheadOfLB(k)
    /\ \A k \in Judged : AheadOfLB(k) /\ AheadOfFP(k)

Somewhere == \A k \in Sent : k \in Judged \/ k \in In(fpQ[FpFor(k)]) \/ k \in Held(LbFor(k))

Pipeline == OnPath /\ InLine /\ InOrder /\ Somewhere

(* Behind the fast paths: what was forwarded is in a hand, in the queue or   *)
(* in the file, those of one fast path in order.                             *)
InOrderByFP(q) == \A i, j \in DOMAIN q : i < j /\ FpFor(q[i]) = FpFor(q[j]) => q[i] < q[j]

Delivery ==
    /\ In(file) \subseteq forwarded /\ In(outQ) \subseteq forwarded
    /\ \A f \in FP : fpJob[f] # NoId => fpJob[f] \in forwarded /\ FpFor(fpJob[f]) = f
    /\ InOrderByFP(file) /\ InOrderByFP(outQ)
    /\ \A k \in In(file), m \in In(outQ) : FpFor(k) = FpFor(m) => k < m
    /\ \A f \in FP, k \in In(file) \cup In(outQ) :
           fpJob[f] # NoId /\ FpFor(k) = f => k < fpJob[f]
    /\ \A k \in forwarded : k \in In(file) \/ k \in In(outQ) \/ fpJob[FpFor(k)] = k

-----------------------------------------------------------------------------
(* The verdicts                                                              *)

(* The two programs hold the same of a flow. *)
SameEntry(e, g) ==
    /\ e.app = g.app /\ e.sni = g.sni /\ e.blocked = g.blocked
    /\ e.classified <=> g.sni # NoName \/ g.app = "DNS"

(* What main_working.cpp can hold of a flow of such ports. *)
Fits(g, fl) ==
    /\ g.sni # NoName => g.app # "UNKNOWN"
    /\ g.sni = NoName /\ g.app # "UNKNOWN" =>
           IF 53 \in {fl.src_port, fl.dst_port} THEN g.app = "DNS"
           ELSE \/ fl.dst_port = 443 /\ g.app = "HTTPS"
                \/ fl.dst_port = 80 /\ g.app = "HTTP"

OfFlow(fl) == {k \in Read : FlowOf(k) = fl}
After(k) == SimpleStep(before[k], capture[k])

(* main_working.cpp goes from one packet of a flow to the next. *)
Chained ==
    /\ \A fl \in Flow : Fits(simpleFlows[fl], fl)
    /\ \A k \in Read : Fits(before[k], FlowOf(k))
    /\ \A k, m \in Read :
           /\ k < m /\ FlowOf(k) = FlowOf(m)
           /\ \A n \in Read : k < n /\ n < m => FlowOf(n) # FlowOf(k)
           => before[m] = After(k)
    /\ \A k \in Read :
           (\A n \in Read : k < n => FlowOf(n) # FlowOf(k)) => simpleFlows[FlowOf(k)] = After(k)

(* A fast path knows of a flow what main_working.cpp knew before the first   *)
(* packet of it that is not judged yet.                                      *)
InStep ==
    \A fl \in Flow : AlikeFlow(fl) =>
        LET e == flows[FpOf(LbOf(fl), fl)][fl] IN
        /\ \A k \in OfFlow(fl) \ Judged :
               (\A m \in OfFlow(fl) \ Judged : k <= m) => SameEntry(e, before[k])
        /\ OfFlow(fl) \subseteq Judged => SameEntry(e, simpleFlows[fl])

SameVerdicts ==
    /\ forwarded \cap dropped = {}
    /\ \A k \in Judged : AlikeFlow(FlowOf(k)) => (k \in forwarded <=> SimplyWritten(k))

Verdicts == Chained /\ InStep /\ SameVerdicts

-----------------------------------------------------------------------------
(* Proof of Pipeline                                                         *)

LEMMA InAppend ==
    ASSUME NEW S, NEW q \in Seq(S), NEW e
    PROVE  In(Append(q, e)) = In(q) \cup {e}
<1>1. /\ Len(q) \in Nat /\ DOMAIN Append(q, e) = 1..(Len(q) + 1) /\ DOMAIN q = 1..Len(q)
      /\ \A i \in 1..Len(q) : Append(q, e)[i] = q[i]
      /\ Append(q, e)[Len(q) + 1] = e
  OBVIOUS
<1> QED
  BY <1>1 DEF In

LEMMA InTail ==
    ASSUME NEW S, NEW q \in Seq(S), q # <<>>
    PROVE  In(q) = {Head(q)} \cup In(Tail(q))
<1>1. /\ Len(q) \in Nat \ {0} /\ DOMAIN q = 1..Len(q) /\ DOMAIN Tail(q) = 1..(Len(q) - 1)
      /\ \A i \in 1..(Len(q) - 1) : Tail(q)[i] = q[i + 1]
      /\ Head(q) = q[1]
  OBVIOUS
<1>2. ASSUME NEW i \in DOMAIN q PROVE q[i] \in {Head(q)} \cup In(Tail(q))
  <2>1. CASE i = 1
    BY <1>1, <2>1
  <2>2. CASE i # 1
    <3>1. i - 1 \in 1..(Len(q) - 1) /\ (i - 1) + 1 = i
      BY <1>1, <2>2
    <3> QED
      BY <1>1, <3>1 DEF In
  <2> QED
    BY <2>1, <2>2
<1>3. ASSUME NEW i \in DOMAIN Tail(q) PROVE Tail(q)[i] \in In(q)
  <2>1. i + 1 \in 1..Len(q)
    BY <1>1
  <2> QED
    BY <1>1, <2>1 DEF In
<1>4. Head(q) \in In(q)
  BY <1>1 DEF In
<1> QED
  BY <1>2, <1>3, <1>4 DEF In

LEMMA IncreasingTail ==
    ASSUME NEW q \in Seq(Nat), q # <<>>, Increasing(q)
    PROVE  Increasing(Tail(q)) /\ \A k \in In(Tail(q)) : Head(q) < k
<1>1. /\ Len(q) \in Nat \ {0} /\ DOMAIN q = 1..Len(q) /\ DOMAIN Tail(q) = 1..(Len(q) - 1)
      /\ \A i \in 1..(Len(q) - 1) : Tail(q)[i] = q[i + 1]
      /\ Head(q) = q[1]
  OBVIOUS
<1>2. Increasing(Tail(q))
  <2> SUFFICES ASSUME NEW i \in 1..(Len(q) - 1), NEW j \in 1..(Len(q) - 1), i < j
               PROVE  Tail(q)[i] < Tail(q)[j]
    BY <1>1 DEF Increasing
  <2>1. i + 1 \in 1..Len(q) /\ j + 1 \in 1..Len(q) /\ i + 1 < j + 1
    BY <1>1
  <2> QED
    BY <1>1, <2>1 DEF Increasing
<1>3. ASSUME NEW i \in 1..(Len(q) - 1) PROVE Head(q) < Tail(q)[i]
  <2>1. i + 1 \in 1..Len(q) /\ 1 \in 1..Len(q) /\ 1 < i + 1
    BY <1>1
  <2> QED
    BY <1>1, <2>1 DEF Increasing
<1> QED
  BY <1>1, <1>2, <1>3 DEF In

LEMMA IncreasingAppend ==
    ASSUME NEW q \in Seq(Nat), Increasing(q), NEW e \in Nat, \A k \in In(q) : k < e
    PROVE  Increasing(Append(q, e))
<1>1. /\ Len(q) \in Nat /\ DOMAIN Append(q, e) = 1..(Len(q) + 1) /\ DOMAIN q = 1..Len(q)
      /\ \A i \in 1..Len(q) : Append(q, e)[i] = q[i]
      /\ Append(q, e)[Len(q) + 1] = e
  OBVIOUS
<1> SUFFICES ASSUME NEW i \in 1..(Len(q) + 1), NEW j \in 1..(Len(q) + 1), i < j
             PROVE  Append(q, e)[i] < Append(q, e)[j]
  BY <1>1 DEF Increasing
<1>2. i \in 1..Len(q) /\ q[i] \in In(q)
  BY <1>1 DEF In
<1> QED
  BY <1>1, <1>2 DEF Increasing

LEMMA Numbers ==
    ASSUME MainTypeOK
    PROVE  /\ Len(capture) \in Nat /\ Read \subseteq Nat \ {NoId} /\ Sent \subseteq Read
           /\ \A q \in Seq(Read) : q \in Seq(Nat) /\ In(q) \subseteq Read
<1>1. Len(capture) \in Nat /\ Read \subseteq Nat \ {NoId} /\ Sent \subseteq Read
  BY DEF MainTypeOK, Read, Sent, NoId
<1>2. ASSUME NEW q \in Seq(Read) PROVE q \in Seq(Nat)
  BY <1>1, Wider
<1>3. ASSUME NEW q \in Seq(Read) PROVE In(q) \subseteq Read
  BY DEF In
<1> QED
  BY <1>1, <1>2, <1>3

(* Where a packet goes is settled when it is read. *)
LEMMA SamePath ==
    ASSUME NEW k, capture'[k] = capture[k]
    PROVE  FlowOf(k)' = FlowOf(k) /\ LbFor(k)' = LbFor(k) /\ FpFor(k)' = FpFor(k)
<1>1. FlowOf(k)' = FlowOf(k)
  BY DEF FlowOf
<1> QED
  BY <1>1 DEF LbFor, FpFor, LbOf, FpOf

LEMMA PathOf ==
    ASSUME MainTypeOK, NEW k \in Read
    PROVE  LbFor(k) \in LB /\ FpFor(k) \in FP
  BY Known, Paths DEF LbFor, FpFor

LEMMA Blocks ==
    ASSUME NEW s \in Nat \ {0}, NEW a \in Nat, NEW b \in Nat, NEW r \in 0..(s - 1), a < b
    PROVE  (a * s) + r < b * s
<1>1. a * s \in Nat /\ b * s \in Nat /\ (a + 1) * s = (a * s) + s
  OBVIOUS
<1>2. a + 1 \in Nat /\ a + 1 <= b
  OBVIOUS
<1>3. (a + 1) * s <= b * s
  BY <1>2
<1> QED
  BY <1>1, <1>3

(* The packets of a fast path come through one balancer. *)
LEMMA OneBalancer ==
    ASSUME MainTypeOK, NEW k \in Read, NEW m \in Read, FpFor(k) = FpFor(m)
    PROVE  LbFor(k) = LbFor(m)
<1>1. PICK a, b, r, t : /\ a = LbFor(k) /\ b = LbFor(m)
                        /\ r = Hash[FlowOf(k)] % FpsPerLB /\ t = Hash[FlowOf(m)] % FpsPerLB
  OBVIOUS
<1>2. a \in Nat /\ b \in Nat /\ r \in 0..(FpsPerLB - 1) /\ t \in 0..(FpsPerLB - 1)
  <2>1. Hash[FlowOf(k)] \in Nat /\ Hash[FlowOf(m)] \in Nat
    BY Known
  <2> QED
    BY <1>1, <2>1, PathOf, Threads, Remainder
<1>3. (a * FpsPerLB) + r = (b * FpsPerLB) + t
  BY <1>1 DEF FpFor, FpOf
<1>4. a * FpsPerLB \in Nat /\ b * FpsPerLB \in Nat
  BY <1>2
<1>5. ~(a < b)
  <2> SUFFICES ASSUME a < b PROVE FALSE
    OBVIOUS
  <2>1. (a * FpsPerLB) + r < b * FpsPerLB
    BY <1>2, Blocks
  <2> QED
    BY <1>2, <1>3, <1>4, <2>1
<1>6. ~(b < a)
  <2> SUFFICES ASSUME b < a PROVE FALSE
    OBVIOUS
  <2>1. (b * FpsPerLB) + t < a * FpsPerLB
    BY <1>2, Blocks
  <2> QED
    BY <1>2, <1>3, <1>4, <2>1
<1> QED
  BY <1>1, <1>2, <1>5, <1>6

LEMMA PipelineSame ==
    ASSUME TypeOK, Pipeline, \A k \in Read : capture'[k] = capture[k], Sent' = Sent,
           UNCHANGED <<lbQ, lbJob, fpQ, forwarded, dropped>>
    PROVE  Pipeline'
<1>1. \A k \in Sent : k \in Read
  BY Numbers DEF TypeOK
<1>2. \A k \in Sent : LbFor(k)' = LbFor(k) /\ FpFor(k)' = FpFor(k)
  BY <1>1, SamePath
<1>3. (\A l \in LB : Held(l)' = Held(l)) /\ Judged' = Judged
  BY DEF Held, Judged
<1>4. \A k \in Sent : LbFor(k) \in LB /\ FpFor(k) \in FP
  BY <1>1, PathOf DEF TypeOK
<1>5. OnPath'
  BY <1>2, <1>3 DEF Pipeline, OnPath
<1>6. InLine'
  BY DEF Pipeline, InLine
<1>7. \A k \in Sent : (AheadOfLB(k)' <=> AheadOfLB(k)) /\ (AheadOfFP(k)' <=> AheadOfFP(k))
  BY <1>2, <1>3, <1>4 DEF AheadOfLB, AheadOfFP
<1>8. InOrder'
  BY <1>3, <1>7 DEF Pipeline, OnPath, InOrder
<1>9. Somewhere'
  BY <1>2, <1>3, <1>4 DEF Pipeline, Somewhere
<1> QED
  BY <1>5, <1>6, <1>8, <1>9 DEF Pipeline

LEMMA PipelinePushToLB ==
    ASSUME TypeOK, StopOrder, Pipeline, PushToLB
    PROVE  Pipeline'
<1> PICK k : k = mainJob
  OBVIOUS
<1> PICK l : l = LbFor(k)
  OBVIOUS
<1>1. k \in Read /\ k = Len(capture) /\ k \in Nat /\ k # NoId /\ mainPc = "push" /\ mainPc' = "read"
  BY Numbers DEF PushToLB, TypeOK, MainTypeOK
<1>2. l \in LB /\ lbOn[l]
  BY <1>1, PathOf, QueueOpen DEF TypeOK
<1>3. capture' = capture /\ UNCHANGED <<lbJob, fpQ, forwarded, dropped>>
  BY DEF PushToLB, readVars, lbVars, fpVars
<1>4. lbQ' = [lbQ EXCEPT ![l] = Append(lbQ[l], k)]
  BY <1>2 DEF PushToLB, Push, LbFor
<1>5. lbQ \in [LB -> Seq(Read)] /\ lbQ[l] \in Seq(Read) /\ lbQ[l] \in Seq(Nat) /\ lbJob[l] \in Read \cup {NoId}
  BY <1>2, Numbers DEF TypeOK, LbTypeOK
<1>6. Sent' = Sent \cup {k} /\ k \notin Sent /\ (\A m \in Sent : m < k) /\ Sent \subseteq Nat
  <2>1. Sent = 1..(k - 1) /\ Sent' = 1..k
    BY <1>1, <1>3 DEF Sent
  <2>2. k # 0 /\ 1..k = (1..(k - 1)) \cup {k} /\ k \notin 1..(k - 1) /\ \A m \in 1..(k - 1) : m < k
    BY <1>1 DEF NoId
  <2> QED
    BY <2>1, <2>2
<1>7. Held(l)' = Held(l) \cup {k} /\ \A j \in LB : j # l => Held(j)' = Held(j)
  <2>1. In(Append(lbQ[l], k)) = In(lbQ[l]) \cup {k}
    BY <1>5, InAppend
  <2> QED
    BY <1>1, <1>2, <1>3, <1>4, <1>5, <2>1 DEF Held
<1>8. \A m : FlowOf(m)' = FlowOf(m) /\ LbFor(m)' = LbFor(m) /\ FpFor(m)' = FpFor(m)
  BY <1>3, SamePath
<1>9. l = LbFor(k)
  OBVIOUS
<1>10. \A m \in Sent : LbFor(m) \in LB /\ FpFor(m) \in FP
  BY Numbers, PathOf DEF TypeOK
<1>11. OnPath'
  BY <1>3, <1>6, <1>7, <1>8, <1>9 DEF Pipeline, OnPath, Judged
<1>12. InLine'
  <2>1. \A m \in In(lbQ[l]) : m \in Sent
    BY <1>2 DEF Pipeline, OnPath, Held
  <2>2. Increasing(Append(lbQ[l], k))
    BY <1>1, <1>2, <1>5, <1>6, <2>1, IncreasingAppend DEF Pipeline, InLine
  <2>3. lbJob[l] # NoId => lbJob[l] < k
    BY <1>2, <1>6 DEF Pipeline, OnPath, Held
  <2>4. In(Append(lbQ[l], k)) = In(lbQ[l]) \cup {k}
    BY <1>5, InAppend
  <2> QED
    BY <1>2, <1>3, <1>4, <1>5, <2>2, <2>3, <2>4 DEF Pipeline, InLine
<1>13. \A m \in Sent : (AheadOfLB(m) => AheadOfLB(m)') /\ (AheadOfFP(m) => AheadOfFP(m)')
  BY <1>3, <1>6, <1>7, <1>8, <1>10 DEF AheadOfLB, AheadOfFP
<1>14. InOrder'
  BY <1>3, <1>13 DEF Pipeline, OnPath, InOrder, Judged
<1>15. Somewhere'
  BY <1>3, <1>6, <1>7, <1>8, <1>9, <1>10 DEF Pipeline, Somewhere, Judged
<1> QED
  BY <1>11, <1>12, <1>14, <1>15 DEF Pipeline

LEMMA PipelineLbPop ==
    ASSUME TypeOK, StopOrder, Pipeline, NEW l \in LB, LbPop(l)
    PROVE  Pipeline'
<1>1. capture' = capture /\ Sent' = Sent /\ UNCHANGED <<fpQ, forwarded, dropped>> /\ lbJob[l] = NoId
  BY DEF LbPop, readVars, mainVars, fpVars, Sent, StopOrder, LbOrder
<1>2. CASE lbQ[l] = <<>>
  BY <1>1, <1>2, PipelineSame DEF LbPop
<1>3. CASE lbQ[l] # <<>>
  <2> DEFINE k == Head(lbQ[l])
  <2>1. lbQ \in [LB -> Seq(Read)] /\ lbQ[l] \in Seq(Read) /\ lbQ[l] \in Seq(Nat) /\ lbJob \in [LB -> Read \cup {NoId}]
    BY Numbers DEF TypeOK, LbTypeOK
  <2>2. lbJob' = [lbJob EXCEPT ![l] = k] /\ lbQ' = [lbQ EXCEPT ![l] = Tail(lbQ[l])]
    BY <1>3 DEF LbPop
  <2>3. In(lbQ[l]) = {k} \cup In(Tail(lbQ[l])) /\ k # NoId
    BY <1>3, <2>1, InTail, TakeOne, Numbers DEF TypeOK
  <2> HIDE DEF k
  <2>4. \A j \in LB : Held(j)' = Held(j)
    BY <1>1, <2>1, <2>2, <2>3 DEF Held
  <2>5. \A m : LbFor(m)' = LbFor(m) /\ FpFor(m)' = FpFor(m)
    BY <1>1, SamePath
  <2>6. \A m \in Sent : LbFor(m) \in LB /\ FpFor(m) \in FP
    BY Numbers, PathOf DEF TypeOK
  <2>7. OnPath'
    BY <1>1, <2>4, <2>5 DEF Pipeline, OnPath, Judged
  <2>8. InLine'
    <3>1. Increasing(Tail(lbQ[l])) /\ \A m \in In(Tail(lbQ[l])) : k < m
      BY <1>3, <2>1, IncreasingTail DEF Pipeline, InLine, k
    <3> QED
      BY <1>1, <2>1, <2>2, <3>1 DEF Pipeline, InLine
  <2>9. \A m \in Sent : (AheadOfLB(m)' <=> AheadOfLB(m)) /\ (AheadOfFP(m)' <=> AheadOfFP(m))
    BY <1>1, <2>4, <2>5, <2>6 DEF AheadOfLB, AheadOfFP
  <2>10. InOrder'
    BY <1>1, <2>9 DEF Pipeline, OnPath, InOrder, Judged
  <2>11. Somewhere'
    BY <1>1, <2>4, <2>5, <2>6 DEF Pipeline, Somewhere, Judged
  <2> QED
    BY <2>7, <2>8, <2>10, <2>11 DEF Pipeline
<1> QED
  BY <1>2, <1>3

LEMMA PipelineLbPush ==
    ASSUME TypeOK, StopOrder, Pipeline, NEW l \in LB, LbPush(l)
    PROVE  Pipeline'
<1> PICK k : k = lbJob[l]
  OBVIOUS
<1> PICK f : f = FpFor(k)
  OBVIOUS
<1>1. capture' = capture /\ Sent' = Sent /\ UNCHANGED <<lbQ, forwarded, dropped>> /\ k \in Read /\ k # NoId
  BY Numbers DEF LbPush, readVars, mainVars, fpVars, Sent, TypeOK, LbTypeOK
<1>2. k \in Held(l) /\ k \in Sent /\ LbFor(k) = l /\ Sent \subseteq Nat
  BY <1>1, Numbers DEF Held, Pipeline, OnPath, TypeOK
<1>3. f \in FP /\ f = FpOf(l, FlowOf(k)) /\ fpOn[f]
  BY <1>1, <1>2, PathOf, QueueOpen DEF TypeOK, LbPush, FpFor
<1>4. fpQ' = [fpQ EXCEPT ![f] = Append(fpQ[f], k)] /\ lbJob' = [lbJob EXCEPT ![l] = NoId]
  BY <1>3 DEF LbPush, Push
<1>5. /\ fpQ \in [FP -> Seq(Read)] /\ fpQ[f] \in Seq(Read) /\ fpQ[f] \in Seq(Nat)
      /\ lbJob \in [LB -> Read \cup {NoId}] /\ lbQ \in [LB -> Seq(Read)]
  BY <1>3, Numbers DEF TypeOK, LbTypeOK, FpTypeOK
<1>6. In(fpQ[f])' = In(fpQ[f]) \cup {k} /\ \A g \in FP : g # f => In(fpQ[g])' = In(fpQ[g])
  <2>1. In(Append(fpQ[f], k)) = In(fpQ[f]) \cup {k}
    BY <1>5, InAppend
  <2>2. fpQ'[f] = Append(fpQ[f], k) /\ \A g \in FP : g # f => fpQ'[g] = fpQ[g]
    BY <1>3, <1>4, <1>5
  <2> QED
    BY <2>1, <2>2
<1>7. Held(l) = Held(l)' \cup {k} /\ \A j \in LB : j # l => Held(j)' = Held(j)
  BY <1>1, <1>4, <1>5 DEF Held
<1>8. \A m \in In(lbQ[l]) : k < m
  BY <1>1 DEF Pipeline, InLine
<1>9. Held(l)' = In(lbQ[l])
  BY <1>1, <1>4, <1>5 DEF Held
<1>10. \A m : LbFor(m)' = LbFor(m) /\ FpFor(m)' = FpFor(m)
  BY <1>1, SamePath
<1>11. \A m \in Sent : LbFor(m) \in LB /\ FpFor(m) \in FP
  BY Numbers, PathOf DEF TypeOK
<1>12. \A m \in In(fpQ[f]) : m < k
  <2> SUFFICES ASSUME NEW m \in In(fpQ[f]) PROVE m < k
    OBVIOUS
  <2>1. m \in Sent /\ FpFor(m) = f /\ AheadOfLB(m)
    BY <1>3 DEF Pipeline, OnPath, InOrder
  <2>2. LbFor(m) = l
    BY <2>1, <1>1, <1>2, Numbers, OneBalancer DEF TypeOK
  <2> QED
    BY <1>2, <2>1, <2>2 DEF AheadOfLB
<1>13. \A m \in Judged : FpFor(m) = f => m < k
  <2> SUFFICES ASSUME NEW m \in Judged, FpFor(m) = f PROVE m < k
    OBVIOUS
  <2>1. m \in Sent /\ AheadOfLB(m)
    BY DEF Pipeline, OnPath, InOrder
  <2>2. LbFor(m) = l
    BY <2>1, <1>1, <1>2, Numbers, OneBalancer DEF TypeOK
  <2> QED
    BY <1>2, <2>1, <2>2 DEF AheadOfLB
<1>14. OnPath'
  <2>1. \A j \in LB : Held(j)' \subseteq Held(j)
    BY <1>7
  <2>2. \A j \in LB : \A m \in Held(j)' : m \in Sent' /\ LbFor(m)' = j
    BY <1>1, <1>10, <2>1 DEF Pipeline, OnPath
  <2>3. \A g \in FP : \A m \in In(fpQ[g])' : m \in Sent' /\ FpFor(m)' = g
    BY <1>1, <1>2, <1>3, <1>6, <1>10 DEF Pipeline, OnPath
  <2>4. Judged' = Judged /\ Judged \subseteq Sent
    BY <1>1 DEF Judged, Pipeline, OnPath
  <2> QED
    BY <1>1, <2>2, <2>3, <2>4 DEF OnPath
<1>15. InLine'
  <2>1. Increasing(Append(fpQ[f], k))
    BY <1>1, <1>2, <1>3, <1>5, <1>12, IncreasingAppend DEF Pipeline, InLine
  <2> QED
    BY <1>1, <1>3, <1>4, <1>5, <2>1 DEF Pipeline, InLine
<1>16. \A m \in Sent : AheadOfLB(m) => AheadOfLB(m)'
  BY <1>7, <1>10, <1>11 DEF AheadOfLB
<1>17. AheadOfLB(k)'
  BY <1>2, <1>8, <1>9, <1>10 DEF AheadOfLB
<1>18. \A m \in Judged : AheadOfFP(m)'
  <2> SUFFICES ASSUME NEW m \in Judged PROVE AheadOfFP(m)'
    OBVIOUS
  <2>1. m \in Sent /\ AheadOfFP(m) /\ FpFor(m) \in FP
    BY <1>11 DEF Pipeline, OnPath, InOrder
  <2> QED
    BY <1>6, <1>10, <1>13, <2>1 DEF AheadOfFP
<1>19. InOrder'
  <2>1. ASSUME NEW g \in FP, NEW m \in In(fpQ[g])' PROVE AheadOfLB(m)'
    <3>1. m = k \/ m \in In(fpQ[g])
      BY <1>6, <2>1
    <3>2. m \in In(fpQ[g]) => m \in Sent /\ AheadOfLB(m)
      BY DEF Pipeline, OnPath, InOrder
    <3> QED
      BY <1>16, <1>17, <3>1, <3>2
  <2>2. ASSUME NEW m \in Judged PROVE AheadOfLB(m)'
    BY <1>16 DEF Pipeline, OnPath, InOrder
  <2>3. Judged' = Judged
    BY <1>1 DEF Judged
  <2> QED
    BY <1>18, <2>1, <2>2, <2>3 DEF InOrder
<1>20. Somewhere'
  <2> SUFFICES ASSUME NEW m \in Sent
               PROVE  m \in Judged \/ m \in In(fpQ[FpFor(m)])' \/ m \in Held(LbFor(m))'
    BY <1>1 DEF Somewhere, Judged
  <2>1. CASE m = k
    BY <1>2, <1>3, <1>6, <1>10, <2>1
  <2>2. CASE m # k
    <3>1. m \in Judged \/ m \in In(fpQ[FpFor(m)]) \/ m \in Held(LbFor(m))
      BY DEF Pipeline, Somewhere
    <3>2. Held(LbFor(m)) \subseteq Held(LbFor(m))' \cup {k}
      BY <1>7, <1>10, <1>11
    <3>3. In(fpQ[FpFor(m)]) \subseteq In(fpQ[FpFor(m)])'
      BY <1>6, <1>10, <1>11
    <3> QED
      BY <2>2, <3>1, <3>2, <3>3
  <2> QED
    BY <2>1, <2>2
<1> QED
  BY <1>14, <1>15, <1>19, <1>20 DEF Pipeline

(* What a judgement does, in the terms of Pipeline. *)
LEMMA Judgement ==
    ASSUME TypeOK, StopOrder, Pipeline, NEW f \in FP, FpJudge(f), NEW k, k = Head(fpQ[f])
    PROVE  /\ k \in Sent /\ FpFor(k) = f /\ k \notin Judged /\ Judged' = Judged \cup {k}
           /\ In(fpQ[f]) = {k} \cup In(fpQ[f])' /\ \A m \in In(fpQ[f])' : k < m
           /\ \A g \in FP : g # f => fpQ'[g] = fpQ[g]
           /\ Increasing(fpQ[f])'
           /\ capture' = capture /\ Sent' = Sent /\ \A l \in LB : Held(l)' = Held(l)
<1>1. capture' = capture /\ Sent' = Sent /\ UNCHANGED <<lbQ, lbJob>> /\ fpQ[f] # <<>>
  BY DEF FpJudge, readVars, mainVars, lbVars, Sent
<1>2. fpQ[f] \in Seq(Read) /\ fpQ[f] \in Seq(Nat) /\ fpQ' = [fpQ EXCEPT ![f] = Tail(fpQ[f])]
      /\ fpQ \in [FP -> Seq(Read)]
  BY Numbers DEF TypeOK, FpTypeOK, FpJudge
<1>3. In(fpQ[f]) = {k} \cup In(Tail(fpQ[f]))
  BY <1>1, <1>2, InTail
<1>4. Increasing(Tail(fpQ[f])) /\ \A m \in In(Tail(fpQ[f])) : k < m
  BY <1>1, <1>2, IncreasingTail DEF Pipeline, InLine
<1>5. fpQ'[f] = Tail(fpQ[f]) /\ \A g \in FP : g # f => fpQ'[g] = fpQ[g]
  BY <1>2
<1>6. k \in In(fpQ[f]) /\ k \in Sent /\ FpFor(k) = f
  BY <1>3 DEF Pipeline, OnPath
<1>7. k \notin Judged
  <2> SUFFICES ASSUME k \in Judged PROVE FALSE
    OBVIOUS
  <2>1. AheadOfFP(k) /\ k \in Nat
    BY <1>6, Numbers DEF Pipeline, InOrder, TypeOK
  <2>2. k < k
    BY <1>6, <2>1 DEF AheadOfFP
  <2> QED
    BY <2>1, <2>2
<1>8. Judged' = Judged \cup {k}
  BY DEF FpJudge, Judged
<1>9. \A l \in LB : Held(l)' = Held(l)
  BY <1>1 DEF Held
<1> QED
  BY <1>1, <1>3, <1>4, <1>5, <1>6, <1>7, <1>8, <1>9

LEMMA PipelineFpJudge ==
    ASSUME TypeOK, StopOrder, Pipeline, NEW f \in FP, FpJudge(f)
    PROVE  Pipeline'
<1> PICK k : k = Head(fpQ[f])
  OBVIOUS
<1>1. /\ k \in Sent /\ FpFor(k) = f /\ k \notin Judged /\ Judged' = Judged \cup {k}
      /\ In(fpQ[f]) = {k} \cup In(fpQ[f])' /\ \A m \in In(fpQ[f])' : k < m
      /\ Increasing(fpQ[f])'
      /\ capture' = capture /\ Sent' = Sent /\ \A l \in LB : Held(l)' = Held(l)
  BY Judgement
<1>2. \A g \in FP : g # f => fpQ'[g] = fpQ[g]
  BY Judgement
<1>3. \A m : LbFor(m)' = LbFor(m) /\ FpFor(m)' = FpFor(m)
  BY <1>1, SamePath
<1>4. \A m \in Sent : LbFor(m) \in LB /\ FpFor(m) \in FP
  BY Numbers, PathOf DEF TypeOK
<1>5. \A g \in FP : In(fpQ[g])' \subseteq In(fpQ[g])
  BY <1>1, <1>2
<1>6. OnPath'
  BY <1>1, <1>3, <1>5 DEF Pipeline, OnPath
<1>7. InLine'
  <2>1. UNCHANGED <<lbQ, lbJob>>
    BY DEF FpJudge, lbVars
  <2> QED
    BY <1>1, <1>2, <2>1 DEF Pipeline, InLine
<1>8. \A m \in Sent : AheadOfLB(m) => AheadOfLB(m)'
  BY <1>1, <1>3, <1>4 DEF AheadOfLB
<1>9. \A m \in Sent : AheadOfFP(m) => AheadOfFP(m)'
  BY <1>3, <1>4, <1>5 DEF AheadOfFP
<1>10. AheadOfLB(k) /\ AheadOfFP(k)'
  BY <1>1, <1>3 DEF Pipeline, InOrder, AheadOfFP
<1>11. InOrder'
  <2>1. ASSUME NEW g \in FP, NEW m \in In(fpQ[g])' PROVE AheadOfLB(m)'
    BY <1>5, <1>8, <2>1 DEF Pipeline, OnPath, InOrder
  <2>2. ASSUME NEW m \in Judged' PROVE AheadOfLB(m)' /\ AheadOfFP(m)'
    BY <1>1, <1>8, <1>9, <1>10, <2>2 DEF Pipeline, OnPath, InOrder
  <2> QED
    BY <2>1, <2>2 DEF InOrder
<1>12. Somewhere'
  <2> SUFFICES ASSUME NEW m \in Sent
               PROVE  m \in Judged' \/ m \in In(fpQ[FpFor(m)])' \/ m \in Held(LbFor(m))'
    BY <1>1 DEF Somewhere
  <2>1. m \in Judged \/ m \in In(fpQ[FpFor(m)]) \/ m \in Held(LbFor(m))
    BY DEF Pipeline, Somewhere
  <2>2. Held(LbFor(m))' = Held(LbFor(m))
    BY <1>1, <1>3, <1>4
  <2>3. In(fpQ[FpFor(m)]) \subseteq {k} \cup In(fpQ[FpFor(m)])'
    BY <1>1, <1>2, <1>3, <1>4
  <2> QED
    BY <1>1, <2>1, <2>2, <2>3
<1> QED
  BY <1>6, <1>7, <1>11, <1>12 DEF Pipeline

LEMMA PipelineStep == TypeOK /\ StopOrder /\ Pipeline /\ [Next]_vars => Pipeline'
<1> SUFFICES ASSUME TypeOK, StopOrder, Pipeline, [Next]_vars PROVE Pipeline'
  OBVIOUS
<1>1. CASE PushToLB
  BY <1>1, PipelinePushToLB
<1>2. ASSUME NEW l \in LB, LbPop(l) PROVE Pipeline'
  BY <1>2, PipelineLbPop
<1>3. ASSUME NEW l \in LB, LbPush(l) PROVE Pipeline'
  BY <1>3, PipelineLbPush
<1>4. ASSUME NEW f \in FP, FpJudge(f) PROVE Pipeline'
  BY <1>4, PipelineFpJudge
<1>5. ASSUME NEW p \in Captured, ReadPacket(p) PROVE Pipeline'
  <2>1. \A k \in Read : capture'[k] = capture[k]
    BY <1>5, ReadGrows DEF TypeOK
  <2>2. Len(capture') = Len(capture) + 1 /\ Len(capture) \in Nat
    BY <1>5, PutOne DEF ReadPacket, TypeOK, MainTypeOK
  <2>3. Sent' = Sent
    BY <1>5, <2>2 DEF ReadPacket, Sent
  <2> QED
    BY <1>5, <2>1, <2>3, PipelineSame DEF ReadPacket, lbVars, fpVars
<1>6. ASSUME capture' = capture, Sent' = Sent, UNCHANGED <<lbQ, lbJob, fpQ, forwarded, dropped>>
      PROVE  Pipeline'
  BY <1>6, PipelineSame
<1>7. CASE OpenFiles \/ EndOfCapture
  BY <1>6, <1>7 DEF OpenFiles, EndOfCapture, Sent, readVars, lbVars, fpVars
<1>8. CASE SignalLB \/ JoinLB \/ SignalFP \/ JoinFP
  BY <1>6, <1>8 DEF SignalLB, JoinLB, SignalFP, JoinFP, Sent, readVars, lbVars, fpVars
<1>9. CASE CloseOutput \/ JoinOutput
  BY <1>6, <1>9 DEF CloseOutput, JoinOutput, Sent, readVars, lbVars, fpVars
<1>10. ASSUME NEW l \in LB, LbCheck(l) PROVE Pipeline'
  BY <1>6, <1>10 DEF LbCheck, Sent, readVars, mainVars, fpVars
<1>11. ASSUME NEW f \in FP, FpCheck(f) \/ FpPopNothing(f) \/ FpPush(f) PROVE Pipeline'
  BY <1>6, <1>11 DEF FpCheck, FpPopNothing, FpPush, Sent, readVars, mainVars, lbVars
<1>12. CASE Output
  BY <1>6, <1>12 DEF Output, OutCheck, OutPop, Sent, readVars, mainVars, lbVars, fpVars
<1>13. CASE UNCHANGED vars
  BY <1>6, <1>13 DEF vars, Sent, readVars, mainVars, lbVars, fpVars
<1> QED
  BY <1>1, <1>2, <1>3, <1>4, <1>5, <1>7, <1>8, <1>9, <1>10, <1>11, <1>12, <1>13
     DEF Next, Main, Balancer, FastPath, Ended

LEMMA InitPipeline == Init => Pipeline
<1> SUFFICES ASSUME Init PROVE Pipeline
  OBVIOUS
<1>1. In(<<>>) = {} /\ Increasing(<<>>)
  BY DEF In, Increasing
<1>2. (\A l \in LB : Held(l) = {}) /\ Judged = {} /\ Sent = {}
  BY <1>1 DEF Init, Held, Judged, Sent
<1>3. \A f \in FP : fpQ[f] = <<>>
  BY DEF Init
<1>4. \A l \in LB : lbQ[l] = <<>> /\ lbJob[l] = NoId
  BY DEF Init
<1> QED
  BY <1>1, <1>2, <1>3, <1>4 DEF Pipeline, OnPath, InLine, InOrder, Somewhere

-----------------------------------------------------------------------------
(* Proof of Delivery                                                         *)

LEMMA ByFPTail ==
    ASSUME NEW q \in Seq(Nat), q # <<>>, InOrderByFP(q)
    PROVE  /\ InOrderByFP(Tail(q))
           /\ \A m \in In(Tail(q)) : FpFor(Head(q)) = FpFor(m) => Head(q) < m
<1>1. /\ Len(q) \in Nat \ {0} /\ DOMAIN q = 1..Len(q) /\ DOMAIN Tail(q) = 1..(Len(q) - 1)
      /\ \A i \in 1..(Len(q) - 1) : Tail(q)[i] = q[i + 1]
      /\ Head(q) = q[1]
  OBVIOUS
<1>2. InOrderByFP(Tail(q))
  <2> SUFFICES ASSUME NEW i \in 1..(Len(q) - 1), NEW j \in 1..(Len(q) - 1), i < j,
                      FpFor(Tail(q)[i]) = FpFor(Tail(q)[j])
               PROVE  Tail(q)[i] < Tail(q)[j]
    BY <1>1 DEF InOrderByFP
  <2>1. i + 1 \in 1..Len(q) /\ j + 1 \in 1..Len(q) /\ i + 1 < j + 1
    BY <1>1
  <2>2. Tail(q)[i] = q[i + 1] /\ Tail(q)[j] = q[j + 1]
    BY <1>1
  <2> QED
    BY <1>1, <2>1, <2>2 DEF InOrderByFP
<1>3. ASSUME NEW i \in 1..(Len(q) - 1), FpFor(Head(q)) = FpFor(Tail(q)[i]) PROVE Head(q) < Tail(q)[i]
  <2>1. i + 1 \in 1..Len(q) /\ 1 \in 1..Len(q) /\ 1 < i + 1
    BY <1>1
  <2>2. Tail(q)[i] = q[i + 1] /\ Head(q) = q[1]
    BY <1>1
  <2> QED
    BY <1>1, <1>3, <2>1, <2>2 DEF InOrderByFP
<1> QED
  BY <1>1, <1>2, <1>3 DEF In

LEMMA ByFPAppend ==
    ASSUME NEW q \in Seq(Nat), InOrderByFP(q), NEW e \in Nat,
           \A m \in In(q) : FpFor(m) = FpFor(e) => m < e
    PROVE  InOrderByFP(Append(q, e))
<1>1. /\ Len(q) \in Nat /\ DOMAIN Append(q, e) = 1..(Len(q) + 1) /\ DOMAIN q = 1..Len(q)
      /\ \A i \in 1..Len(q) : Append(q, e)[i] = q[i]
      /\ Append(q, e)[Len(q) + 1] = e
  OBVIOUS
<1> SUFFICES ASSUME NEW i \in 1..(Len(q) + 1), NEW j \in 1..(Len(q) + 1), i < j,
                    FpFor(Append(q, e)[i]) = FpFor(Append(q, e)[j])
             PROVE  Append(q, e)[i] < Append(q, e)[j]
  BY <1>1 DEF InOrderByFP
<1>2. i \in 1..Len(q) /\ q[i] \in In(q) /\ Append(q, e)[i] = q[i]
  BY <1>1 DEF In
<1>3. CASE j = Len(q) + 1
  BY <1>1, <1>2, <1>3
<1>4. CASE j # Len(q) + 1
  <2>1. j \in 1..Len(q) /\ Append(q, e)[j] = q[j]
    BY <1>1, <1>4
  <2> QED
    BY <1>1, <1>2, <2>1 DEF InOrderByFP
<1> QED
  BY <1>3, <1>4

LEMMA ByFPSame ==
    ASSUME NEW q \in Seq(Read), InOrderByFP(q), \A k \in Read : capture'[k] = capture[k]
    PROVE  \A i, j \in DOMAIN q : i < j /\ FpFor(q[i])' = FpFor(q[j])' => q[i] < q[j]
<1> SUFFICES ASSUME NEW i \in DOMAIN q, NEW j \in DOMAIN q, i < j, FpFor(q[i])' = FpFor(q[j])'
             PROVE  q[i] < q[j]
  OBVIOUS
<1>1. q[i] \in Read /\ q[j] \in Read
  OBVIOUS
<1> QED
  BY <1>1, SamePath DEF InOrderByFP

LEMMA DeliverySame ==
    ASSUME TypeOK, Delivery, \A k \in Read : capture'[k] = capture[k],
           UNCHANGED <<file, outQ, fpJob, forwarded>>
    PROVE  Delivery'
<1>1. /\ file \in Seq(Read) /\ outQ \in Seq(Read) /\ In(file) \subseteq Read /\ In(outQ) \subseteq Read
      /\ \A f \in FP : fpJob[f] \in Read \cup {NoId}
      /\ forwarded \subseteq Read
  BY Numbers DEF TypeOK, OutTypeOK, FpTypeOK
<1>2. \A k \in Read : FpFor(k)' = FpFor(k) /\ FpFor(k) \in FP
  BY SamePath, PathOf DEF TypeOK
<1>3. InOrderByFP(file)' /\ InOrderByFP(outQ)'
  <2>1. \A i, j \in DOMAIN file : i < j /\ FpFor(file[i])' = FpFor(file[j])' => file[i] < file[j]
    BY <1>1, ByFPSame DEF Delivery
  <2>2. \A i, j \in DOMAIN outQ : i < j /\ FpFor(outQ[i])' = FpFor(outQ[j])' => outQ[i] < outQ[j]
    BY <1>1, ByFPSame DEF Delivery
  <2>3. file' = file /\ outQ' = outQ
    OBVIOUS
  <2>4. InOrderByFP(file)'
    BY <1>1, <1>2, <2>1, <2>3 DEF InOrderByFP
  <2> QED
    BY <1>1, <1>2, <2>2, <2>3, <2>4 DEF InOrderByFP
<1>4. In(file)' = In(file) /\ In(outQ)' = In(outQ) /\ fpJob' = fpJob /\ forwarded' = forwarded
  OBVIOUS
<1> QED
  BY <1>1, <1>2, <1>3, <1>4 DEF Delivery

LEMMA DeliveryFpJudge ==
    ASSUME TypeOK, StopOrder, Pipeline, Delivery, NEW f \in FP, FpJudge(f)
    PROVE  Delivery'
<1> PICK k : k = Head(fpQ[f])
  OBVIOUS
<1>1. k \in Sent /\ FpFor(k) = f /\ k \in In(fpQ[f]) /\ capture' = capture
  BY Judgement
<1>2. /\ UNCHANGED <<file, outQ>> /\ fpPc[f] = "pop"
      /\ \/ UNCHANGED <<forwarded, fpJob>>
         \/ forwarded' = forwarded \cup {k} /\ fpJob' = [fpJob EXCEPT ![f] = k]
  BY DEF FpJudge, outVars
<1>3. CASE UNCHANGED <<forwarded, fpJob>>
  BY <1>1, <1>2, <1>3, DeliverySame
<1>4. CASE forwarded' = forwarded \cup {k} /\ fpJob' = [fpJob EXCEPT ![f] = k]
  <2>1. \A m : FpFor(m)' = FpFor(m)
    BY <1>1, SamePath
  <2>2. In(file)' = In(file) /\ In(outQ)' = In(outQ)
    BY <1>2
  <2>3. fpJob[f] = NoId
    BY <1>2 DEF StopOrder, FpOrder
  <2>4. /\ fpJob \in [FP -> Read \cup {NoId}] /\ k \in Read /\ k # NoId
        /\ In(file) \subseteq forwarded /\ In(outQ) \subseteq forwarded /\ forwarded \subseteq Read
    BY <1>1, Numbers DEF TypeOK, FpTypeOK, Delivery
  <2>5. fpJob'[f] = k /\ \A g \in FP : g # f => fpJob'[g] = fpJob[g]
    BY <1>4, <2>4
  <2>6. \A m \in forwarded : FpFor(m) = f => m < k
    BY <1>1 DEF Pipeline, InOrder, AheadOfFP, Judged
  <2>7. \A m \in Read : FpFor(m) \in FP
    BY PathOf DEF TypeOK
  <2>8. \A g \in FP : fpJob'[g] # NoId => fpJob'[g] \in forwarded' /\ FpFor(fpJob'[g]) = g
    BY <1>1, <1>4, <2>5 DEF Delivery
  <2>9. ASSUME NEW g \in FP, NEW m \in In(file) \cup In(outQ), fpJob'[g] # NoId, FpFor(m) = g
        PROVE  m < fpJob'[g]
    BY <2>4, <2>5, <2>6, <2>9 DEF Delivery
  <2>10. ASSUME NEW m \in forwarded' PROVE m \in In(file) \/ m \in In(outQ) \/ fpJob'[FpFor(m)] = m
    <3>1. CASE m = k
      BY <1>1, <2>5, <3>1
    <3>2. CASE m # k
      <4>1. m \in forwarded /\ m \in Read /\ FpFor(m) \in FP
        BY <1>4, <2>4, <2>7, <2>10, <3>2
      <4>2. m # NoId
        BY <4>1, Numbers DEF TypeOK
      <4> QED
        BY <2>3, <2>5, <4>1, <4>2 DEF Delivery
    <3> QED
      BY <3>1, <3>2
  <2>11. InOrderByFP(file)' /\ InOrderByFP(outQ)'
    BY <1>2, <2>1 DEF Delivery, InOrderByFP
  <2>12. \A a \in In(file), b \in In(outQ) : FpFor(a) = FpFor(b) => a < b
    BY DEF Delivery
  <2>13. In(file) \subseteq forwarded' /\ In(outQ) \subseteq forwarded'
    BY <1>4, <2>4
  <2> QED
    BY <2>1, <2>2, <2>8, <2>9, <2>10, <2>11, <2>12, <2>13 DEF Delivery
<1> QED
  BY <1>2, <1>3, <1>4

LEMMA DeliveryFpPush ==
    ASSUME TypeOK, StopOrder, Delivery, NEW f \in FP, FpPush(f)
    PROVE  Delivery'
<1> PICK k : k = fpJob[f]
  OBVIOUS
<1>1. /\ fpPc[f] = "push" /\ outOn /\ capture' = capture /\ UNCHANGED <<file, forwarded>>
      /\ outQ' = Append(outQ, k) /\ fpJob' = [fpJob EXCEPT ![f] = NoId]
  BY QueueOpen DEF FpPush, Push, readVars, outVars, fpVars
<1>2. /\ fpJob \in [FP -> Read \cup {NoId}] /\ k \in Read /\ k # NoId /\ k \in Nat
      /\ outQ \in Seq(Read) /\ outQ \in Seq(Nat)
      /\ In(file) \subseteq Read /\ In(outQ) \subseteq Read /\ forwarded \subseteq Read
  BY <1>1, Numbers DEF TypeOK, FpTypeOK, OutTypeOK
<1>3. \A m : FpFor(m)' = FpFor(m)
  BY <1>1, SamePath
<1>4. In(file)' = In(file) /\ In(outQ)' = In(outQ) \cup {k}
  <2>1. In(Append(outQ, k)) = In(outQ) \cup {k}
    BY <1>2, InAppend
  <2> QED
    BY <1>1, <2>1
<1>5. k \in forwarded /\ FpFor(k) = f
  BY <1>2 DEF Delivery
<1>6. \A m \in In(file) \cup In(outQ) : FpFor(m) = f => m < k
  BY <1>2 DEF Delivery
<1>7. fpJob'[f] = NoId /\ \A g \in FP : g # f => fpJob'[g] = fpJob[g]
  BY <1>1, <1>2
<1>8. InOrderByFP(file)' /\ InOrderByFP(outQ)'
  <2>1. InOrderByFP(Append(outQ, k))
    BY <1>2, <1>5, <1>6, ByFPAppend DEF Delivery
  <2> QED
    BY <1>1, <1>3, <2>1 DEF Delivery, InOrderByFP
<1>9. In(file) \subseteq forwarded /\ In(outQ)' \subseteq forwarded
  BY <1>4, <1>5 DEF Delivery
<1>10. \A g \in FP : fpJob'[g] # NoId => fpJob'[g] \in forwarded /\ FpFor(fpJob'[g]) = g
  BY <1>7 DEF Delivery
<1>11. \A a \in In(file), b \in In(outQ)' : FpFor(a) = FpFor(b) => a < b
  BY <1>4, <1>5, <1>6 DEF Delivery
<1>12. ASSUME NEW g \in FP, NEW m \in In(file) \cup In(outQ)', fpJob'[g] # NoId, FpFor(m) = g
       PROVE  m < fpJob'[g]
  BY <1>4, <1>5, <1>7, <1>12 DEF Delivery
<1>13. ASSUME NEW m \in forwarded PROVE m \in In(file) \/ m \in In(outQ)' \/ fpJob'[FpFor(m)] = m
  <2>1. m \in Read /\ FpFor(m) \in FP
    BY <1>2, <1>13, PathOf DEF TypeOK
  <2> QED
    BY <1>4, <1>7, <2>1 DEF Delivery
<1> QED
  BY <1>1, <1>3, <1>4, <1>8, <1>9, <1>10, <1>11, <1>12, <1>13 DEF Delivery

LEMMA DeliveryOutPop ==
    ASSUME TypeOK, Delivery, OutPop
    PROVE  Delivery'
<1>1. UNCHANGED <<fpJob, forwarded>> /\ capture' = capture
  BY DEF OutPop, fpVars, readVars
<1>2. CASE UNCHANGED <<outQ, file>>
  BY <1>1, <1>2, DeliverySame
<1>3. CASE outQ # <<>> /\ outQ' = Tail(outQ) /\ file' = Append(file, Head(outQ))
  <2> PICK k : k = Head(outQ)
    OBVIOUS
  <2>1. /\ outQ \in Seq(Read) /\ outQ \in Seq(Nat) /\ file \in Seq(Read) /\ file \in Seq(Nat)
        /\ k \in Read /\ k \in Nat
    <3>1. outQ \in Seq(Read) /\ file \in Seq(Read)
      BY DEF TypeOK, OutTypeOK
    <3>2. k \in Read
      BY <1>3, <3>1, TakeOne
    <3> QED
      BY <3>1, <3>2, Numbers DEF TypeOK
  <2>2. \A m : FpFor(m)' = FpFor(m)
    BY <1>1, SamePath
  <2>3. In(outQ) = {k} \cup In(outQ)'
    <3>1. In(outQ) = {k} \cup In(Tail(outQ))
      BY <1>3, <2>1, InTail
    <3> QED
      BY <1>3, <3>1
  <2>4. In(file)' = In(file) \cup {k}
    <3>1. In(Append(file, k)) = In(file) \cup {k}
      BY <2>1, InAppend
    <3> QED
      BY <1>3, <3>1
  <2>5. InOrderByFP(Tail(outQ)) /\ \A m \in In(outQ)' : FpFor(k) = FpFor(m) => k < m
    <3>1. InOrderByFP(Tail(outQ)) /\ \A m \in In(Tail(outQ)) : FpFor(k) = FpFor(m) => k < m
      BY <1>3, <2>1, ByFPTail DEF Delivery
    <3>2. In(outQ)' = In(Tail(outQ))
      BY <1>3
    <3> QED
      BY <3>1, <3>2
  <2>6. InOrderByFP(Append(file, k))
    BY <2>1, <2>3, ByFPAppend DEF Delivery
  <2>7. InOrderByFP(file)' /\ InOrderByFP(outQ)'
    BY <1>3, <2>2, <2>5, <2>6 DEF InOrderByFP
  <2>8. In(file)' \subseteq forwarded /\ In(outQ)' \subseteq forwarded
    BY <2>3, <2>4 DEF Delivery
  <2>9. \A a \in In(file)', b \in In(outQ)' : FpFor(a) = FpFor(b) => a < b
    BY <2>3, <2>4, <2>5 DEF Delivery
  <2>10. In(file)' \cup In(outQ)' = In(file) \cup In(outQ)
    BY <2>3, <2>4
  <2> QED
    BY <1>1, <2>2, <2>7, <2>8, <2>9, <2>10 DEF Delivery
<1> QED
  BY <1>2, <1>3 DEF OutPop

LEMMA DeliveryStep == TypeOK /\ StopOrder /\ Pipeline /\ Delivery /\ [Next]_vars => Delivery'
<1> SUFFICES ASSUME TypeOK, StopOrder, Pipeline, Delivery, [Next]_vars PROVE Delivery'
  OBVIOUS
<1>1. ASSUME NEW f \in FP, FpJudge(f) PROVE Delivery'
  BY <1>1, DeliveryFpJudge
<1>2. ASSUME NEW f \in FP, FpPush(f) PROVE Delivery'
  BY <1>2, DeliveryFpPush
<1>3. CASE OutPop
  BY <1>3, DeliveryOutPop
<1>4. ASSUME NEW p \in Captured, ReadPacket(p) PROVE Delivery'
  <2>1. \A k \in Read : capture'[k] = capture[k]
    BY <1>4, ReadGrows DEF TypeOK
  <2> QED
    BY <1>4, <2>1, DeliverySame DEF ReadPacket, fpVars, outVars
<1>5. ASSUME capture' = capture, UNCHANGED <<file, outQ, fpJob, forwarded>> PROVE Delivery'
  BY <1>5, DeliverySame
<1>6. CASE OpenFiles \/ EndOfCapture \/ PushToLB
  BY <1>5, <1>6 DEF OpenFiles, EndOfCapture, PushToLB, readVars, fpVars, outVars
<1>7. CASE SignalLB \/ JoinLB \/ SignalFP \/ JoinFP \/ CloseOutput \/ JoinOutput
  BY <1>5, <1>7 DEF SignalLB, JoinLB, SignalFP, JoinFP, CloseOutput, JoinOutput, readVars, fpVars, outVars
<1>8. ASSUME NEW l \in LB, Balancer(l) PROVE Delivery'
  BY <1>5, <1>8 DEF Balancer, LbCheck, LbPop, LbPush, readVars, fpVars, outVars
<1>9. ASSUME NEW f \in FP, FpCheck(f) \/ FpPopNothing(f) PROVE Delivery'
  BY <1>5, <1>9 DEF FpCheck, FpPopNothing, readVars, outVars
<1>10. CASE OutCheck
  BY <1>5, <1>10 DEF OutCheck, readVars, fpVars
<1>11. CASE UNCHANGED vars
  BY <1>5, <1>11 DEF vars, readVars, fpVars, outVars
<1> QED
  BY <1>1, <1>2, <1>3, <1>4, <1>6, <1>7, <1>8, <1>9, <1>10, <1>11 DEF Next, Main, FastPath, Output, Ended

LEMMA InitDelivery == Init => Delivery
<1> SUFFICES ASSUME Init PROVE Delivery
  OBVIOUS
<1>1. In(<<>>) = {}
  BY DEF In
<1>2. In(file) = {} /\ In(outQ) = {} /\ forwarded = {} /\ \A f \in FP : fpJob[f] = NoId
  BY <1>1 DEF Init
<1>3. InOrderByFP(file) /\ InOrderByFP(outQ)
  BY DEF Init, InOrderByFP
<1> QED
  BY <1>2, <1>3 DEF Delivery

(* When process() returns, the file holds every packet the report counts as  *)
(* forwarded, and each once, whatever threads and queues there are.          *)
THEOREM ForwardedIsWrittenCorrect == Spec => []ForwardedIsWritten
<1>1. TypeOK /\ StopOrder /\ Pipeline /\ Delivery /\ [Next]_vars
      => TypeOK' /\ StopOrder' /\ Pipeline' /\ Delivery'
  BY TypeStep, StopOrderStep, PipelineStep, DeliveryStep
<1>2. TypeOK /\ StopOrder /\ Delivery => ForwardedIsWritten
  <2> SUFFICES ASSUME TypeOK, StopOrder, Delivery, mainPc = "done"
               PROVE  /\ forwarded = {file[i] : i \in DOMAIN file}
                      /\ \A i, j \in DOMAIN file : file[i] = file[j] => i = j
    BY DEF ForwardedIsWritten
  <2>1. outQ = <<>> /\ \A f \in FP : fpJob[f] = NoId
    BY DEF StopOrder, OutOrder, FpOrder, FastPathsUp, BalancersUp
  <2>2. In(outQ) = {}
    BY <2>1 DEF In
  <2>3. forwarded \subseteq Read /\ NoId \notin Read /\ file \in Seq(Read) /\ file \in Seq(Nat)
    BY Numbers DEF TypeOK, FpTypeOK, OutTypeOK
  <2>4. \A k \in forwarded : FpFor(k) \in FP
    BY <2>3, PathOf DEF TypeOK
  <2>5. forwarded = In(file)
    <3>1. In(file) \subseteq forwarded
      BY DEF Delivery
    <3>2. ASSUME NEW k \in forwarded PROVE k \in In(file)
      <4>1. k \in In(file) \/ k \in In(outQ) \/ fpJob[FpFor(k)] = k
        BY DEF Delivery
      <4> QED
        BY <2>1, <2>2, <2>3, <2>4, <4>1
    <3> QED
      BY <3>1, <3>2
  <2>6. ASSUME NEW i \in DOMAIN file, NEW j \in DOMAIN file, file[i] = file[j] PROVE i = j
    <3>1. i \in Nat /\ j \in Nat /\ file[i] \in Nat
      BY <2>3
    <3>2. ~(i < j) /\ ~(j < i)
      BY <2>6, <3>1 DEF Delivery, InOrderByFP
    <3> QED
      BY <3>1, <3>2
  <2> QED
    BY <2>5, <2>6 DEF In
<1> QED
  BY InitType, InitStopOrder, InitPipeline, InitDelivery, <1>1, <1>2, PTL DEF Spec

-----------------------------------------------------------------------------
(* Proof of Verdicts                                                         *)

LEMMA Kept ==
    ASSUME NEW g \in SimpleEntry, NEW p \in Packet, Fits(g, p.flow),
           g.sni # NoName \/ g.app = "DNS"
    PROVE  Guessed(Extracted(Extracted(g, p, 443, "HTTPS", "tls"), p, 80, "HTTP", "http"), p) = g
<1>1. Extracted(g, p, 443, "HTTPS", "tls") = g /\ Extracted(g, p, 80, "HTTP", "http") = g
  BY DEF Extracted
<1>2. g.app # "UNKNOWN"
  BY DEF Fits
<1> QED
  BY <1>1, <1>2 DEF Guessed

LEMMA Named ==
    ASSUME NEW g \in SimpleEntry, NEW p \in Packet, Fits(g, p.flow), Alike(p),
           g.sni = NoName, g.app # "DNS",
           \/ p.flow.dst_port = 443 /\ p.found = "tls"
           \/ p.flow.dst_port = 80 /\ p.found = "http"
    PROVE  /\ p.name # NoName /\ AppOfName(p.name) # "UNKNOWN"
           /\ Guessed(Extracted(Extracted(g, p, 443, "HTTPS", "tls"), p, 80, "HTTP", "http"), p)
              = [g EXCEPT !.sni = p.name, !.app = AppOfName(p.name)]
<1> PICK x : x = [g EXCEPT !.sni = p.name, !.app = AppOfName(p.name)]
  OBVIOUS
<1>1. p.name # NoName /\ p.name \in Name /\ p.flow.protocol = "TCP"
  BY DEF Alike, Packet
<1>2. AppOfName(p.name) # "UNKNOWN"
  BY <1>1 DEF AppOfName
<1>3. x.sni = p.name /\ x.app = AppOfName(p.name)
  BY DEF SimpleEntry
<1>4. Guessed(x, p) = x
  BY <1>2, <1>3 DEF Guessed
<1>5. CASE p.flow.dst_port = 443 /\ p.found = "tls"
  <2>1. g.app \in {"UNKNOWN", "HTTPS"}
    BY <1>5 DEF Fits
  <2>2. Extracted(g, p, 443, "HTTPS", "tls") = x
    BY <1>1, <1>5, <2>1 DEF Extracted
  <2>3. Extracted(x, p, 80, "HTTP", "http") = x
    BY <1>5 DEF Extracted
  <2> QED
    BY <1>1, <1>2, <1>4, <2>2, <2>3
<1>6. CASE p.flow.dst_port = 80 /\ p.found = "http"
  <2>1. g.app \in {"UNKNOWN", "HTTP"}
    BY <1>6 DEF Fits
  <2>2. Extracted(g, p, 443, "HTTPS", "tls") = g
    BY <1>6 DEF Extracted
  <2>3. Extracted(g, p, 80, "HTTP", "http") = x
    BY <1>1, <1>6, <2>1 DEF Extracted
  <2> QED
    BY <1>1, <1>2, <1>4, <2>2, <2>3
<1> QED
  BY <1>5, <1>6

LEMMA Unnamed ==
    ASSUME NEW g \in SimpleEntry, NEW p \in Packet,
           ~(p.flow.dst_port = 443 /\ p.found = "tls"), ~(p.flow.dst_port = 80 /\ p.found = "http")
    PROVE  Guessed(Extracted(Extracted(g, p, 443, "HTTPS", "tls"), p, 80, "HTTP", "http"), p)
           = Guessed(g, p)
<1>1. Extracted(g, p, 443, "HTTPS", "tls") = g /\ Extracted(g, p, 80, "HTTP", "http") = g
  BY DEF Extracted
<1> QED
  BY <1>1

(* The same packet takes entries that agree to entries that agree. *)
LEMMA ClassifiedAlike ==
    ASSUME NEW e \in FlowEntry, NEW g \in SimpleEntry, NEW p \in Packet,
           SameEntry(e, g), Fits(g, p.flow), Alike(p),
           NEW c, NEW d,
           c = Guessed(Extracted(Extracted(g, p, 443, "HTTPS", "tls"), p, 80, "HTTP", "http"), p),
           d = IF e.classified THEN e ELSE ClassifyFlow(e, p)
    PROVE  SameEntry(d, c)
<1>1. CASE e.classified
  <2>1. c = g
    BY <1>1, Kept DEF SameEntry
  <2> QED
    BY <1>1, <2>1
<1>2. CASE /\ ~e.classified
           /\ \/ p.flow.dst_port = 443 /\ p.found = "tls"
              \/ p.flow.dst_port = 80 /\ p.found = "http"
  <2>1. g.sni = NoName /\ g.app # "DNS"
    BY <1>2 DEF SameEntry
  <2>2. p.name # NoName /\ AppOfName(p.name) # "UNKNOWN" /\ c = [g EXCEPT !.sni = p.name, !.app = AppOfName(p.name)]
    <3>0. \/ p.flow.dst_port = 443 /\ p.found = "tls"
          \/ p.flow.dst_port = 80 /\ p.found = "http"
      BY <1>2
    <3>1. p.name # NoName /\ AppOfName(p.name) # "UNKNOWN"
          /\ Guessed(Extracted(Extracted(g, p, 443, "HTTPS", "tls"), p, 80, "HTTP", "http"), p)
             = [g EXCEPT !.sni = p.name, !.app = AppOfName(p.name)]
      BY <2>1, <3>0, Named, Zenon
    <3> QED
      BY <3>1, Zenon
  <2>3. d = [e EXCEPT !.sni = p.name, !.app = AppOfName(p.name), !.classified = TRUE]
    BY <1>2 DEF ClassifyFlow
  <2>4. c.sni = p.name /\ c.app = AppOfName(p.name) /\ c.blocked = g.blocked
    BY <2>2 DEF SimpleEntry
  <2>5. d.sni = p.name /\ d.app = AppOfName(p.name) /\ d.blocked = e.blocked /\ d.classified
    BY <2>3 DEF FlowEntry
  <2> QED
    BY <2>1, <2>2, <2>4, <2>5 DEF SameEntry
<1>3. CASE /\ ~e.classified
           /\ ~(p.flow.dst_port = 443 /\ p.found = "tls") /\ ~(p.flow.dst_port = 80 /\ p.found = "http")
  <2>1. g.sni = NoName /\ g.app # "DNS" /\ e.app = g.app /\ e.sni = g.sni /\ e.blocked = g.blocked
    BY <1>3 DEF SameEntry
  <2>2. c = Guessed(g, p)
    BY <1>3, Unnamed
  <2>3. d = IF ToDNS(p) THEN [e EXCEPT !.app = "DNS", !.classified = TRUE]
            ELSE IF ByPort(p) # "UNKNOWN" THEN [e EXCEPT !.app = ByPort(p)] ELSE e
    BY <1>3 DEF ClassifyFlow
  <2>4. CASE ToDNS(p)
    <3>1. g.app = "UNKNOWN"
      BY <2>1, <2>4 DEF Fits, ToDNS
    <3>2. c = [g EXCEPT !.app = "DNS"]
      BY <2>2, <2>4, <3>1 DEF Guessed
    <3>3. c.app = "DNS" /\ c.sni = g.sni /\ c.blocked = g.blocked
      BY <3>2 DEF SimpleEntry
    <3>4. d.app = "DNS" /\ d.sni = e.sni /\ d.blocked = e.blocked /\ d.classified
      BY <2>3, <2>4 DEF FlowEntry
    <3> QED
      BY <2>1, <3>3, <3>4 DEF SameEntry
  <2>5. CASE ~ToDNS(p)
    <3>1. g.app = "UNKNOWN" \/ g.app = ByPort(p)
      BY <2>1, <2>5 DEF Fits, ToDNS, ByPort
    <3>2. ByPort(p) \in {"UNKNOWN", "HTTP", "HTTPS"}
      BY ByPortType
    <3>3. c.app = ByPort(p) /\ c.sni = g.sni /\ c.blocked = g.blocked
      BY <2>2, <2>5, <3>1 DEF Guessed, SimpleEntry
    <3>4. d.app = ByPort(p) /\ d.sni = e.sni /\ d.blocked = e.blocked /\ d.classified = e.classified
      BY <2>1, <2>3, <2>5, <3>1 DEF FlowEntry
    <3> QED
      BY <1>3, <2>1, <3>2, <3>3, <3>4 DEF SameEntry
  <2> QED
    BY <2>4, <2>5
<1> QED
  BY <1>1, <1>2, <1>3

LEMMA StepsAlike ==
    ASSUME NEW e \in FlowEntry, NEW g \in SimpleEntry, NEW p \in Packet,
           SameEntry(e, g), Fits(g, p.flow), Alike(p)
    PROVE  SameEntry(MtStep(e, p), SimpleStep(g, p))
<1> PICK c, d :
        /\ c = Guessed(Extracted(Extracted(g, p, 443, "HTTPS", "tls"), p, 80, "HTTP", "http"), p)
        /\ d = IF e.classified THEN e ELSE ClassifyFlow(e, p)
  OBVIOUS
<1>1. SameEntry(d, c)
  BY ClassifiedAlike
<1>2. c \in SimpleEntry /\ d \in FlowEntry
  BY ExtractedType, GuessedType, ClassifyFlowType
<1>3. SimpleStep(g, p) = [c EXCEPT !.blocked = c.blocked \/ IsBlocked(p, c.app, c.sni)]
  BY DEF SimpleStep
<1>4. MtStep(e, p) = [d EXCEPT !.blocked = d.blocked \/ IsBlocked(p, d.app, d.sni)]
  BY DEF MtStep
<1>5. c.app = d.app /\ c.sni = d.sni /\ c.blocked = d.blocked
  BY <1>1 DEF SameEntry
<1>6. (c.blocked \/ IsBlocked(p, c.app, c.sni)) = (d.blocked \/ IsBlocked(p, d.app, d.sni))
  BY <1>5
<1>7. PICK b : b = (c.blocked \/ IsBlocked(p, c.app, c.sni))
  OBVIOUS
<1>8. SimpleStep(g, p) = [c EXCEPT !.blocked = b] /\ MtStep(e, p) = [d EXCEPT !.blocked = b]
  BY <1>3, <1>4, <1>6, <1>7
<1> QED
  BY <1>1, <1>2, <1>8 DEF SameEntry, SimpleEntry, FlowEntry

LEMMA FitsExtracted ==
    ASSUME NEW g \in SimpleEntry, NEW p \in Packet, NEW port, NEW generic, NEW found,
           Fits(g, p.flow)
    PROVE  Fits(Extracted(g, p, port, generic, found), p.flow)
<1> PICK x : x = [g EXCEPT !.sni = p.name, !.app = AppOfName(p.name)]
  OBVIOUS
<1>1. x.sni = p.name /\ x.app = AppOfName(p.name)
  BY DEF SimpleEntry
<1>2. p.name # NoName => AppOfName(p.name) # "UNKNOWN"
  BY DEF AppOfName, Packet
<1>3. p.name = NoName => AppOfName(p.name) = "UNKNOWN"
  BY DEF AppOfName
<1>4. Fits(x, p.flow)
  BY <1>1, <1>2, <1>3 DEF Fits
<1>5. Extracted(g, p, port, generic, found) \in {g, x}
  BY DEF Extracted
<1> QED
  BY <1>4, <1>5

LEMMA FitsStep ==
    ASSUME NEW g \in SimpleEntry, NEW p \in Packet, Fits(g, p.flow)
    PROVE  Fits(SimpleStep(g, p), p.flow)
<1> PICK x, c : /\ x = Extracted(Extracted(g, p, 443, "HTTPS", "tls"), p, 80, "HTTP", "http")
                /\ c = Guessed(x, p)
  OBVIOUS
<1>1. x \in SimpleEntry /\ Fits(x, p.flow)
  BY ExtractedType, FitsExtracted
<1>2. Fits(c, p.flow)
  <2>1. CASE x.app # "UNKNOWN"
    BY <1>1, <2>1 DEF Guessed
  <2>2. CASE x.app = "UNKNOWN"
    <3>1. PICK a : a = IF ToDNS(p) THEN "DNS" ELSE ByPort(p)
      OBVIOUS
    <3>2. c = [x EXCEPT !.app = a]
      BY <2>2, <3>1 DEF Guessed
    <3>3. x.sni = NoName
      BY <1>1, <2>2 DEF Fits
    <3>4. c.app = a /\ c.sni = NoName
      BY <1>1, <3>2, <3>3 DEF SimpleEntry
    <3> QED
      BY <3>1, <3>4 DEF Fits, ToDNS, ByPort
  <2> QED
    BY <2>1, <2>2
<1>3. c \in SimpleEntry
  BY <1>1, GuessedType
<1>4. SimpleStep(g, p).app = c.app /\ SimpleStep(g, p).sni = c.sni
  BY <1>3 DEF SimpleStep, SimpleEntry
<1> QED
  BY <1>2, <1>4 DEF Fits

(* What the next packet of the capture adds. *)
LEMMA OneMore ==
    ASSUME TypeOK, NEW p \in Captured, ReadPacket(p), NEW n, n = Len(capture) + 1
    PROVE  /\ n \in Nat /\ Read \subseteq Nat /\ Read' = Read \cup {n}
           /\ (\A k \in Read : k < n) /\ p \in Packet /\ p.flow \in Flow
           /\ \A k \in Read : /\ capture'[k] = capture[k] /\ FlowOf(k)' = FlowOf(k)
                              /\ before'[k] = before[k] /\ After(k)' = After(k)
           /\ capture'[n] = p /\ FlowOf(n)' = p.flow /\ before'[n] = simpleFlows[p.flow]
           /\ simpleFlows \in [Flow -> SimpleEntry]
           /\ simpleFlows' = [simpleFlows EXCEPT ![p.flow] = After(n)']
           /\ DOMAIN capture = Read /\ DOMAIN capture' = Read'
<1>1. capture \in Seq(Packet) /\ before \in Seq(SimpleEntry) /\ Len(before) = Len(capture)
      /\ Len(capture) \in Nat /\ p \in Packet /\ p.flow \in Flow
      /\ simpleFlows \in [Flow -> SimpleEntry]
  BY DEF TypeOK, MainTypeOK, SimpleTypeOK, Packet
<1>2. /\ n \in Nat /\ Read \subseteq Nat /\ \A k \in Read : k < n
      /\ Read = 1..Len(capture) /\ DOMAIN capture = Read
  BY <1>1 DEF Read
<1>3. capture' = Append(capture, p) /\ before' = Append(before, simpleFlows[p.flow])
      /\ simpleFlows' = [simpleFlows EXCEPT ![p.flow] = SimpleStep(simpleFlows[p.flow], p)]
  BY DEF ReadPacket
<1>4. /\ Read' = Read \cup {n} /\ DOMAIN capture' = Read' /\ \A k \in Read : capture'[k] = capture[k]
      /\ capture'[n] = p
  BY <1>1, <1>2, <1>3 DEF Read
<1>5. (\A k \in Read : before'[k] = before[k]) /\ before'[n] = simpleFlows[p.flow]
  BY <1>1, <1>2, <1>3
<1>6. \A k \in Read : FlowOf(k)' = FlowOf(k) /\ After(k)' = After(k)
  BY <1>4, <1>5 DEF FlowOf, After
<1>7. FlowOf(n)' = p.flow /\ After(n)' = SimpleStep(simpleFlows[p.flow], p)
  BY <1>4, <1>5 DEF FlowOf, After
<1> QED
  BY <1>1, <1>2, <1>3, <1>4, <1>5, <1>6, <1>7

LEMMA ChainedReadPacket ==
    ASSUME TypeOK, Chained, NEW p \in Captured, ReadPacket(p)
    PROVE  Chained'
<1> PICK n : n = Len(capture) + 1
  OBVIOUS
<1>1. /\ n \in Nat /\ Read \subseteq Nat /\ Read' = Read \cup {n}
      /\ (\A k \in Read : k < n) /\ p \in Packet /\ p.flow \in Flow
      /\ capture'[n] = p /\ FlowOf(n)' = p.flow /\ before'[n] = simpleFlows[p.flow]
      /\ simpleFlows \in [Flow -> SimpleEntry]
      /\ simpleFlows' = [simpleFlows EXCEPT ![p.flow] = After(n)']
  BY OneMore
<1>2. \A k \in Read : FlowOf(k)' = FlowOf(k) /\ before'[k] = before[k] /\ After(k)' = After(k)
  BY OneMore
<1>3. After(n)' = SimpleStep(simpleFlows[p.flow], p)
  BY <1>1 DEF After
<1>4. Fits(simpleFlows[p.flow], p.flow) /\ Fits(After(n)', p.flow)
  BY <1>1, <1>3, FitsStep DEF Chained
<1>5. \A fl \in Flow : Fits(simpleFlows'[fl], fl)
  BY <1>1, <1>4 DEF Chained
<1>6. \A k \in Read' : Fits(before'[k], FlowOf(k)')
  BY <1>1, <1>2, <1>4 DEF Chained
<1>7. ASSUME NEW k \in Read', NEW m \in Read', k < m, FlowOf(k)' = FlowOf(m)',
             \A i \in Read' : k < i /\ i < m => FlowOf(i)' # FlowOf(k)'
      PROVE  before'[m] = After(k)'
  <2>1. k \in Read
    BY <1>1, <1>7
  <2>2. CASE m \in Read
    <3>1. \A i \in Read : k < i /\ i < m => FlowOf(i) # FlowOf(k)
      BY <1>1, <1>2, <1>7, <2>1
    <3> QED
      BY <1>2, <1>7, <2>1, <2>2, <3>1 DEF Chained
  <2>3. CASE m = n
    <3>1. \A i \in Read : k < i => FlowOf(i) # FlowOf(k)
      BY <1>1, <1>2, <1>7, <2>1, <2>3
    <3>2. simpleFlows[FlowOf(k)] = After(k) /\ FlowOf(k) = p.flow
      BY <1>1, <1>2, <1>7, <2>1, <2>3, <3>1 DEF Chained
    <3> QED
      BY <1>1, <1>2, <2>1, <2>3, <3>2
  <2> QED
    BY <1>1, <2>2, <2>3
<1>8. ASSUME NEW k \in Read', \A i \in Read' : k < i => FlowOf(i)' # FlowOf(k)'
      PROVE  simpleFlows'[FlowOf(k)'] = After(k)'
  <2>1. CASE k = n
    BY <1>1, <2>1
  <2>2. CASE k \in Read
    <3>1. p.flow # FlowOf(k)
      BY <1>1, <1>2, <1>8, <2>2
    <3>2. \A i \in Read : k < i => FlowOf(i) # FlowOf(k)
      BY <1>1, <1>2, <1>8, <2>2
    <3>3. FlowOf(k) \in Flow /\ simpleFlows[FlowOf(k)] = After(k)
      BY <2>2, <3>2, Known DEF Chained, TypeOK
    <3> QED
      BY <1>1, <1>2, <2>2, <3>1, <3>3
  <2> QED
    BY <1>1, <2>1, <2>2
<1> QED
  BY <1>5, <1>6, <1>7, <1>8 DEF Chained

LEMMA VerdictsReadPacket ==
    ASSUME TypeOK, Pipeline, Verdicts, NEW p \in Captured, ReadPacket(p)
    PROVE  Verdicts'
<1> PICK n : n = Len(capture) + 1
  OBVIOUS
<1>1. /\ n \in Nat /\ Read \subseteq Nat /\ Read' = Read \cup {n}
      /\ (\A k \in Read : k < n) /\ p.flow \in Flow
      /\ FlowOf(n)' = p.flow /\ before'[n] = simpleFlows[p.flow]
      /\ simpleFlows \in [Flow -> SimpleEntry]
      /\ simpleFlows' = [simpleFlows EXCEPT ![p.flow] = After(n)']
      /\ DOMAIN capture = Read /\ DOMAIN capture' = Read'
  BY OneMore
<1>2. \A k \in Read : /\ capture'[k] = capture[k] /\ FlowOf(k)' = FlowOf(k)
                      /\ before'[k] = before[k] /\ After(k)' = After(k)
  BY OneMore
<1>3. UNCHANGED <<flows, forwarded, dropped>> /\ Judged' = Judged /\ Judged \subseteq Read /\ n \notin Judged
  <2>1. UNCHANGED <<flows, forwarded, dropped>>
    BY DEF ReadPacket, fpVars
  <2>2. Judged \subseteq Read
    BY Numbers DEF Pipeline, OnPath, TypeOK
  <2> QED
    BY <1>1, <2>1, <2>2 DEF Judged
<1>4. \A fl : AlikeFlow(fl)' => AlikeFlow(fl)
  BY <1>1, <1>2 DEF AlikeFlow
<1>5. Chained'
  BY ChainedReadPacket DEF Verdicts
<1>6. SameVerdicts'
  <2>1. ASSUME NEW k \in Judged, AlikeFlow(FlowOf(k))' PROVE k \in forwarded <=> SimplyWritten(k)'
    <3>1. k \in Read /\ AlikeFlow(FlowOf(k))
      BY <1>2, <1>3, <1>4, <2>1
    <3>2. SimplyWritten(k)' = SimplyWritten(k)
      BY <1>2, <3>1 DEF SimplyWritten
    <3> QED
      BY <3>1, <3>2 DEF Verdicts, SameVerdicts
  <2> QED
    BY <1>3, <2>1 DEF Verdicts, SameVerdicts
<1>7. ASSUME NEW fl \in Flow, AlikeFlow(fl)', NEW e, e = flows[FpOf(LbOf(fl), fl)][fl]
      PROVE  /\ \A k \in OfFlow(fl)' \ Judged :
                    (\A m \in OfFlow(fl)' \ Judged : k <= m) => SameEntry(e, before'[k])
             /\ OfFlow(fl)' \subseteq Judged => SameEntry(e, simpleFlows'[fl])
  <2>1. /\ \A k \in OfFlow(fl) \ Judged :
               (\A m \in OfFlow(fl) \ Judged : k <= m) => SameEntry(e, before[k])
        /\ OfFlow(fl) \subseteq Judged => SameEntry(e, simpleFlows[fl])
    BY <1>4, <1>7 DEF Verdicts, InStep
  <2>2. OfFlow(fl) \subseteq Read
    BY DEF OfFlow
  <2>3. CASE fl # p.flow
    <3>1. OfFlow(fl)' = OfFlow(fl) /\ simpleFlows'[fl] = simpleFlows[fl]
      BY <1>1, <1>2, <2>3 DEF OfFlow
    <3> QED
      BY <1>2, <2>1, <2>2, <3>1
  <2>4. CASE fl = p.flow
    <3>1. OfFlow(fl)' = OfFlow(fl) \cup {n}
      BY <1>1, <1>2, <2>4 DEF OfFlow
    <3>2. ASSUME NEW k \in OfFlow(fl) \ Judged, \A m \in OfFlow(fl)' \ Judged : k <= m
          PROVE  SameEntry(e, before'[k])
      <4>1. \A m \in OfFlow(fl) \ Judged : k <= m
        BY <3>1, <3>2
      <4> QED
        BY <1>2, <2>1, <2>2, <4>1
    <3>3. ASSUME \A m \in OfFlow(fl)' \ Judged : n <= m
          PROVE  SameEntry(e, before'[n])
      <4>1. OfFlow(fl) \subseteq Judged
        BY <1>1, <2>2, <3>1, <3>3
      <4> QED
        BY <1>1, <2>1, <2>4, <4>1
    <3> QED
      BY <1>3, <3>1, <3>2, <3>3
  <2> QED
    BY <2>3, <2>4
<1>8. InStep'
  BY <1>3, <1>7 DEF InStep, LbOf, FpOf
<1> QED
  BY <1>5, <1>6, <1>8 DEF Verdicts

(* A fast path judges the packets of a flow in the order of the capture. *)
LEMMA Turn ==
    ASSUME TypeOK, StopOrder, Pipeline, NEW f \in FP, FpJudge(f), NEW k, k = Head(fpQ[f])
    PROVE  /\ \A m \in OfFlow(FlowOf(k)) \ Judged : k <= m
           /\ \A m \in Judged : FlowOf(m) = FlowOf(k) => m < k
<1>1. /\ k \in Sent /\ FpFor(k) = f /\ In(fpQ[f]) = {k} \cup In(fpQ[f])'
      /\ \A m \in In(fpQ[f])' : k < m
  BY Judgement
<1>2. \A m : FlowOf(m) = FlowOf(k) => LbFor(m) = LbFor(k) /\ FpFor(m) = f
  BY <1>1 DEF LbFor, FpFor
<1>3. Read \subseteq Nat /\ Sent \subseteq Read /\ Len(capture) \in Nat
  BY Numbers DEF TypeOK
<1>4. ASSUME NEW m \in OfFlow(FlowOf(k)) \ Judged PROVE k <= m
  <2>1. m \in Read /\ m \in Nat /\ k \in Nat /\ LbFor(m) = LbFor(k) /\ FpFor(m) = f
    BY <1>1, <1>2, <1>3, <1>4 DEF OfFlow
  <2>2. CASE m \in Sent
    <3>1. m \in In(fpQ[f]) \/ m \in Held(LbFor(k))
      BY <1>4, <2>1, <2>2 DEF Pipeline, Somewhere
    <3>2. CASE m \in In(fpQ[f])
      <4>1. m = k \/ k < m
        BY <1>1, <3>2
      <4> QED
        BY <2>1, <4>1
    <3>3. CASE m \in Held(LbFor(k))
      <4>1. k < m
        BY <1>1, <3>3 DEF Pipeline, InOrder, AheadOfLB
      <4> QED
        BY <2>1, <4>1
    <3> QED
      BY <3>1, <3>2, <3>3
  <2>3. CASE m \notin Sent
    BY <1>1, <1>3, <2>1, <2>3 DEF Sent, Read
  <2> QED
    BY <2>2, <2>3
<1>5. ASSUME NEW m \in Judged, FlowOf(m) = FlowOf(k) PROVE m < k
  BY <1>1, <1>2, <1>5 DEF Pipeline, InOrder, AheadOfFP
<1> QED
  BY <1>4, <1>5

LEMMA VerdictsFpJudge ==
    ASSUME TypeOK, StopOrder, Pipeline, Verdicts, NEW f \in FP, FpJudge(f)
    PROVE  Verdicts'
<1> PICK k : k = Head(fpQ[f])
  OBVIOUS
<1> PICK e : e = MtStep(flows[f][FlowOf(k)], capture[k])
  OBVIOUS
<1>1. /\ k \in Sent /\ FpFor(k) = f /\ k \notin Judged /\ Judged' = Judged \cup {k}
  BY Judgement
<1>2. /\ \A m \in OfFlow(FlowOf(k)) \ Judged : k <= m
      /\ \A m \in Judged : FlowOf(m) = FlowOf(k) => m < k
  BY Turn
<1>3. /\ UNCHANGED readVars
      /\ flows' = [flows EXCEPT ![f][FlowOf(k)] = e]
      /\ \/ e.blocked /\ dropped' = dropped \cup {k} /\ forwarded' = forwarded
         \/ ~e.blocked /\ forwarded' = forwarded \cup {k} /\ dropped' = dropped
  BY DEF FpJudge
<1>4. UNCHANGED <<capture, before, simpleFlows>>
  BY <1>3 DEF readVars
<1>5. /\ k \in Read /\ Read \subseteq Nat /\ FlowOf(k) \in Flow /\ capture[k] \in Packet /\ k \in OfFlow(FlowOf(k))
      /\ flows \in [FP -> [Flow -> FlowEntry]] /\ simpleFlows \in [Flow -> SimpleEntry]
      /\ before[k] \in SimpleEntry /\ DOMAIN capture = Read
  <2>1. k \in Read /\ Read \subseteq Nat
    BY <1>1, Numbers DEF TypeOK
  <2>2. before \in Seq(SimpleEntry) /\ Len(before) = Len(capture) /\ capture \in Seq(Packet)
        /\ Len(capture) \in Nat
    BY DEF TypeOK, SimpleTypeOK, MainTypeOK
  <2>3. before[k] \in SimpleEntry /\ DOMAIN capture = Read
    BY <2>1, <2>2 DEF Read
  <2> QED
    BY <2>1, <2>3, Known DEF OfFlow, TypeOK, FpTypeOK, SimpleTypeOK
<1>6. AlikeFlow(FlowOf(k)) => SameEntry(e, After(k))
  <2> SUFFICES ASSUME AlikeFlow(FlowOf(k)) PROVE SameEntry(e, After(k))
    OBVIOUS
  <2>1. flows[f][FlowOf(k)] \in FlowEntry
    BY <1>5
  <2>2. SameEntry(flows[f][FlowOf(k)], before[k])
    BY <1>1, <1>2, <1>5 DEF Verdicts, InStep, FpFor, LbFor
  <2>3. Fits(before[k], FlowOf(k)) /\ FlowOf(k) = capture[k].flow
    BY <1>5 DEF Verdicts, Chained, FlowOf
  <2>4. Alike(capture[k])
    BY <1>5 DEF AlikeFlow
  <2> QED
    BY <1>5, <2>1, <2>2, <2>3, <2>4, StepsAlike DEF After
<1>7. Chained'
  BY <1>4 DEF Verdicts, Chained, Read, FlowOf, After
<1>8. SameVerdicts'
  <2>1. forwarded' \cap dropped' = {}
    BY <1>1, <1>3 DEF Verdicts, SameVerdicts, Judged
  <2>2. \A fl : AlikeFlow(fl)' = AlikeFlow(fl)
    BY <1>4 DEF AlikeFlow, FlowOf
  <2>3. \A m : FlowOf(m)' = FlowOf(m) /\ SimplyWritten(m)' = SimplyWritten(m)
    BY <1>4 DEF FlowOf, SimplyWritten
  <2>4. ASSUME NEW m \in Judged', AlikeFlow(FlowOf(m)) PROVE m \in forwarded' <=> SimplyWritten(m)
    <3>1. CASE m = k
      <4>1. e.blocked = After(k).blocked
        BY <1>6, <2>4, <3>1 DEF SameEntry
      <4>2. k \notin forwarded
        BY <1>1 DEF Judged
      <4> QED
        BY <1>3, <3>1, <4>1, <4>2 DEF After, SimplyWritten
    <3>2. CASE m # k
      <4>1. m \in Judged /\ (m \in forwarded' <=> m \in forwarded)
        BY <1>1, <1>3, <2>4, <3>2
      <4> QED
        BY <2>4, <4>1 DEF Verdicts, SameVerdicts
    <3> QED
      BY <3>1, <3>2
  <2> QED
    BY <2>1, <2>2, <2>3, <2>4 DEF SameVerdicts
<1>9. ASSUME NEW fl \in Flow, AlikeFlow(fl), NEW g, g = flows'[FpOf(LbOf(fl), fl)][fl]
      PROVE  /\ \A m \in OfFlow(fl) \ Judged' :
                    (\A i \in OfFlow(fl) \ Judged' : m <= i) => SameEntry(g, before[m])
             /\ OfFlow(fl) \subseteq Judged' => SameEntry(g, simpleFlows[fl])
  <2>1. FpOf(LbOf(fl), fl) \in FP
    BY Paths
  <2>2. CASE fl # FlowOf(k)
    <3>1. g = flows[FpOf(LbOf(fl), fl)][fl]
      BY <1>3, <1>5, <1>9, <2>1, <2>2
    <3>2. OfFlow(fl) \ Judged' = OfFlow(fl) \ Judged /\ (OfFlow(fl) \subseteq Judged' => OfFlow(fl) \subseteq Judged)
      BY <1>1, <2>2 DEF OfFlow
    <3> QED
      BY <1>9, <3>1, <3>2 DEF Verdicts, InStep
  <2>3. CASE fl = FlowOf(k)
    <3>1. g = e
      BY <1>1, <1>3, <1>5, <1>9, <2>3 DEF FpFor, LbFor
    <3>2. SameEntry(g, After(k))
      BY <1>6, <1>9, <2>3, <3>1
    <3>3. \A i \in OfFlow(fl) : i \in Read /\ i \in Nat /\ FlowOf(i) = FlowOf(k)
      BY <1>5, <2>3 DEF OfFlow
    <3>4. \A i \in OfFlow(fl) : k < i => i \notin Judged'
      BY <1>1, <1>2, <1>5, <3>3
    <3>5. ASSUME NEW m \in OfFlow(fl) \ Judged', \A i \in OfFlow(fl) \ Judged' : m <= i
          PROVE  SameEntry(g, before[m])
      <4>1. k < m /\ m \in Read /\ FlowOf(k) = FlowOf(m)
        <5>1. m \in OfFlow(FlowOf(k)) \ Judged /\ m # k
          BY <1>1, <2>3, <3>5
        <5>2. k <= m /\ m \in Nat /\ k \in Nat
          BY <1>2, <1>5, <3>3, <3>5, <5>1
        <5> QED
          BY <3>3, <3>5, <5>1, <5>2
      <4>2. ASSUME NEW i \in Read, k < i, i < m PROVE FlowOf(i) # FlowOf(k)
        <5> SUFFICES ASSUME FlowOf(i) = FlowOf(k) PROVE FALSE
          OBVIOUS
        <5>1. i \in OfFlow(fl)
          BY <2>3 DEF OfFlow
        <5>2. m <= i /\ m \in Nat /\ i \in Nat
          BY <1>5, <3>4, <3>5, <4>1, <4>2, <5>1
        <5> QED
          BY <4>2, <5>2
      <4>3. before[m] = After(k)
        BY <1>5, <4>1, <4>2 DEF Verdicts, Chained
      <4> QED
        BY <3>2, <4>3
    <3>6. ASSUME OfFlow(fl) \subseteq Judged' PROVE SameEntry(g, simpleFlows[fl])
      <4>1. ASSUME NEW i \in Read, k < i PROVE FlowOf(i) # FlowOf(k)
        BY <2>3, <3>4, <3>6, <4>1 DEF OfFlow
      <4>2. simpleFlows[fl] = After(k)
        BY <1>5, <2>3, <4>1 DEF Verdicts, Chained
      <4> QED
        BY <3>2, <4>2
    <3> QED
      BY <3>5, <3>6
  <2> QED
    BY <2>2, <2>3
<1>10. InStep'
  <2>1. \A fl : AlikeFlow(fl)' = AlikeFlow(fl) /\ OfFlow(fl)' = OfFlow(fl)
    BY <1>4 DEF AlikeFlow, FlowOf, OfFlow, Read
  <2> QED
    BY <1>4, <1>9, <2>1 DEF InStep, LbOf, FpOf
<1> QED
  BY <1>7, <1>8, <1>10 DEF Verdicts

LEMMA VerdictsSame ==
    ASSUME Verdicts, UNCHANGED <<capture, before, simpleFlows, flows, forwarded, dropped>>
    PROVE  Verdicts'
<1>1. Chained'
  BY DEF Verdicts, Chained, Read, FlowOf, After
<1>2. \A fl : AlikeFlow(fl)' = AlikeFlow(fl) /\ OfFlow(fl)' = OfFlow(fl)
  BY DEF AlikeFlow, FlowOf, OfFlow, Read
<1>3. Judged' = Judged
  BY DEF Judged
<1>4. InStep'
  BY <1>2, <1>3 DEF Verdicts, InStep, LbOf, FpOf
<1>5. \A m : FlowOf(m)' = FlowOf(m) /\ SimplyWritten(m)' = SimplyWritten(m)
  BY DEF FlowOf, SimplyWritten
<1>6. SameVerdicts'
  BY <1>2, <1>3, <1>5 DEF Verdicts, SameVerdicts
<1> QED
  BY <1>1, <1>4, <1>6 DEF Verdicts

LEMMA VerdictsStep == TypeOK /\ StopOrder /\ Pipeline /\ Verdicts /\ [Next]_vars => Verdicts'
<1> SUFFICES ASSUME TypeOK, StopOrder, Pipeline, Verdicts, [Next]_vars PROVE Verdicts'
  OBVIOUS
<1>1. ASSUME NEW p \in Captured, ReadPacket(p) PROVE Verdicts'
  BY <1>1, VerdictsReadPacket
<1>2. ASSUME NEW f \in FP, FpJudge(f) PROVE Verdicts'
  BY <1>2, VerdictsFpJudge
<1>3. ASSUME UNCHANGED <<readVars, flows, forwarded, dropped>> PROVE Verdicts'
  BY <1>3, VerdictsSame DEF readVars
<1>4. CASE OpenFiles \/ EndOfCapture \/ PushToLB
  BY <1>3, <1>4 DEF OpenFiles, EndOfCapture, PushToLB, fpVars
<1>5. CASE SignalLB \/ JoinLB \/ SignalFP \/ JoinFP \/ CloseOutput \/ JoinOutput
  BY <1>3, <1>5 DEF SignalLB, JoinLB, SignalFP, JoinFP, CloseOutput, JoinOutput, fpVars
<1>6. ASSUME NEW l \in LB, Balancer(l) PROVE Verdicts'
  BY <1>3, <1>6 DEF Balancer, LbCheck, LbPop, LbPush, fpVars
<1>7. ASSUME NEW f \in FP, FpCheck(f) \/ FpPopNothing(f) \/ FpPush(f) PROVE Verdicts'
  BY <1>3, <1>7 DEF FpCheck, FpPopNothing, FpPush
<1>8. CASE Output
  BY <1>3, <1>8 DEF Output, OutCheck, OutPop, fpVars
<1>9. CASE UNCHANGED vars
  BY <1>3, <1>9 DEF vars, fpVars
<1> QED
  BY <1>1, <1>2, <1>4, <1>5, <1>6, <1>7, <1>8, <1>9 DEF Next, Main, FastPath, Ended

LEMMA InitVerdicts == Init => Verdicts
<1> SUFFICES ASSUME Init PROVE Verdicts
  OBVIOUS
<1>1. Read = {} /\ Judged = {}
  BY DEF Init, Read, Judged
<1>2. \A fl \in Flow : Fits(simpleFlows[fl], fl)
  BY DEF Init, Fits, NoSimpleEntry
<1>3. \A fl \in Flow : SameEntry(flows[FpOf(LbOf(fl), fl)][fl], simpleFlows[fl])
  BY Paths DEF Init, SameEntry, NoSimpleEntry, NoFlowEntry
<1>4. Chained
  BY <1>1, <1>2 DEF Chained
<1>5. InStep
  BY <1>1, <1>3 DEF InStep, OfFlow
<1>6. SameVerdicts
  BY <1>1 DEF SameVerdicts, Init
<1> QED
  BY <1>4, <1>5, <1>6 DEF Verdicts

LEMMA PrefixKept == TypeOK /\ Pipeline /\ Delivery /\ Verdicts => FileIsPrefix
<1> SUFFICES ASSUME TypeOK, Pipeline, Delivery, Verdicts, NEW j \in DOMAIN file,
                    NEW k, k = file[j], AlikeFlow(FlowOf(k))
             PROVE  /\ SimplyWritten(k)
                    /\ \A i \in 1..(j - 1) : FlowOf(file[i]) = FlowOf(k) => file[i] < k
                    /\ \A m \in 1..(k - 1) : FlowOf(m) = FlowOf(k) /\ SimplyWritten(m)
                                             => \E i \in 1..(j - 1) : file[i] = m
  BY DEF FileIsPrefix
<1>1. /\ file \in Seq(Read) /\ file \in Seq(Nat) /\ j \in Nat /\ j \in 1..Len(file) /\ Len(file) \in Nat
      /\ DOMAIN file = 1..Len(file) /\ k \in Read /\ k \in Nat /\ k \in In(file)
      /\ Len(capture) \in Nat /\ Read \subseteq Nat \ {NoId}
  <2>1. file \in Seq(Read) /\ file \in Seq(Nat)
    BY Numbers DEF TypeOK, OutTypeOK
  <2> QED
    BY <2>1, Numbers DEF In, TypeOK
<1>2. k \in forwarded /\ k \in Judged /\ k \in Sent
  BY <1>1 DEF Delivery, Judged, Pipeline, OnPath
<1>3. \A m : FlowOf(m) = FlowOf(k) => LbFor(m) = LbFor(k) /\ FpFor(m) = FpFor(k)
  BY DEF LbFor, FpFor
<1>4. SimplyWritten(k)
  BY <1>2 DEF Verdicts, SameVerdicts
<1>5. ASSUME NEW i \in 1..(j - 1), FlowOf(file[i]) = FlowOf(k) PROVE file[i] < k
  <2>1. i \in DOMAIN file /\ i < j
    BY <1>1
  <2> QED
    BY <1>3, <1>5, <2>1 DEF Delivery, InOrderByFP
<1>6. ASSUME NEW m \in 1..(k - 1), FlowOf(m) = FlowOf(k), SimplyWritten(m)
      PROVE  \E i \in 1..(j - 1) : file[i] = m
  <2>1. m \in Sent /\ m \in Read /\ m \in Nat /\ ~(k < m) /\ m # k
    BY <1>1, <1>2 DEF Sent, Read
  <2>2. m \in Judged
    <3>1. m \in Judged \/ m \in In(fpQ[FpFor(k)]) \/ m \in Held(LbFor(k))
      BY <1>3, <1>6, <2>1 DEF Pipeline, Somewhere
    <3>2. AheadOfLB(k) /\ AheadOfFP(k)
      BY <1>2 DEF Pipeline, InOrder
    <3> QED
      BY <2>1, <3>1, <3>2 DEF AheadOfLB, AheadOfFP
  <2>3. m \in forwarded
    BY <1>6, <2>2 DEF Verdicts, SameVerdicts
  <2>4. m \in In(file)
    <3>1. m \in In(file) \/ m \in In(outQ) \/ fpJob[FpFor(k)] = m
      BY <1>3, <1>6, <2>3 DEF Delivery
    <3>2. m \in In(outQ) => k < m
      BY <1>1, <1>3, <1>6 DEF Delivery
    <3>3. fpJob[FpFor(k)] = m => k < m
      <4>1. FpFor(k) \in FP /\ m # NoId
        BY <1>1, <2>1, PathOf DEF TypeOK
      <4> QED
        BY <1>1, <4>1 DEF Delivery
    <3> QED
      BY <2>1, <3>1, <3>2, <3>3
  <2>5. PICK i \in DOMAIN file : file[i] = m
    BY <2>4 DEF In
  <2>6. ~(j < i) /\ i # j
    BY <1>1, <1>3, <1>6, <2>1, <2>5 DEF Delivery, InOrderByFP
  <2>7. i \in 1..(j - 1)
    BY <1>1, <2>6
  <2> QED
    BY <2>5, <2>7
<1> QED
  BY <1>4, <1>5, <1>6

(* However many threads there are and however they are scheduled, the file   *)
(* has of every flow a prefix of what the program with one thread writes.    *)
THEOREM FileIsPrefixCorrect == Spec => []FileIsPrefix
<1>1. TypeOK /\ StopOrder /\ Pipeline /\ Delivery /\ Verdicts /\ [Next]_vars
      => TypeOK' /\ StopOrder' /\ Pipeline' /\ Delivery' /\ Verdicts'
  BY TypeStep, StopOrderStep, PipelineStep, DeliveryStep, VerdictsStep
<1> QED
  BY InitType, InitStopOrder, InitPipeline, InitDelivery, InitVerdicts, <1>1, PrefixKept, PTL DEF Spec
=============================================================================
