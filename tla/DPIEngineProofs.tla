--------------------------- MODULE DPIEngineProofs ---------------------------
(* What holds of the engine for any number of balancers and fast paths, any  *)
(* queue size and any capture: its types, the order in which stop() takes    *)
(* the pipeline down, and the way of every packet: no packet disappears or   *)
(* is doubled, a flow keeps its order (FlowFilter), and a quiet stop loses   *)
(* nothing.                                                                  *)
EXTENDS DPIEngine, Integers, FiniteSetTheorems, TLAPS

LEMMA PoolSize == NumLBs * FpsPerLB \in Nat \ {0}
  BY EngineAssumption DEF EngineAssumption

LEMMA Ids == 0 \in LB /\ 0 \in FP /\ LB \subseteq Nat /\ FP \subseteq Nat
  BY PoolSize, EngineAssumption DEF EngineAssumption, LB, FP

LEMMA TakeOne ==
    ASSUME NEW S, NEW s \in Seq(S), s # <<>>
    PROVE  /\ Head(s) \in S /\ Tail(s) \in Seq(S)
           /\ Len(Tail(s)) = Len(s) - 1 /\ Len(s) \in Nat
  OBVIOUS

LEMMA PutOne ==
    ASSUME NEW S, NEW s \in Seq(S), NEW e \in S
    PROVE  /\ Append(s, e) \in Seq(S)
           /\ Len(Append(s, e)) = Len(s) + 1 /\ Len(s) \in Nat
  OBVIOUS

LEMMA MainTypeStep == TypeOK /\ [Next]_vars => MainTypeOK'
<1> SUFFICES ASSUME TypeOK, [Next]_vars PROVE MainTypeOK'
  OBVIOUS
<1> USE EngineAssumption DEF EngineAssumption, TypeOK, MainTypeOK, vars, mainVars, readerVars, lbVars, fpVars, outVars, flags
<1>1. ASSUME UNCHANGED mainVars PROVE MainTypeOK'
  BY <1>1
<1>2. CASE ProcessFile
  BY <1>2, Ids DEF ProcessFile, MainPc
<1>3. CASE JoinReader
  BY <1>3, Ids DEF JoinReader, MainPc
<1>4. CASE Stop
  <2>1. Quiet \in BOOLEAN
    BY DEF Quiet
  <2> QED
    BY <1>4, <2>1, Ids DEF Stop, MainPc
<1>5. CASE SignalLB
  BY <1>5, Ids DEF SignalLB, MainPc
<1>6. CASE JoinLB
  BY <1>6, Ids DEF JoinLB, MainPc
<1>7. CASE SignalFP
  BY <1>7, Ids DEF SignalFP, MainPc
<1>8. CASE JoinFP
  BY <1>8, Ids DEF JoinFP, MainPc
<1>9. CASE CloseOutput
  BY <1>9, Ids DEF CloseOutput, MainPc
<1>10. CASE JoinOutput
  BY <1>10, Ids DEF JoinOutput, MainPc
<1>11. CASE Main
  BY <1>11, <1>2, <1>3, <1>4, <1>5, <1>6, <1>7, <1>8, <1>9, <1>10 DEF Main
<1>12. CASE Reader
  BY <1>12, <1>1 DEF Reader, OpenInput, WriteHeader, EndOfCapture, ReaderPush, ReadPacket
<1>13. ASSUME NEW l \in LB, LoadBalancer(l) PROVE MainTypeOK'
  BY <1>13, <1>1 DEF LoadBalancer, LbCheck, LbCrash, LbPop, LbPush
<1>14. ASSUME NEW f \in FP, FastPath(f) PROVE MainTypeOK'
  BY <1>14, <1>1 DEF FastPath, FpCheck, FpPop, FpDrop, FpForward, FpPush
<1>15. CASE OutputThread
  BY <1>15, <1>1 DEF OutputThread, OutCheck, OutPop
<1> QED
  BY <1>1, <1>11, <1>12, <1>13, <1>14, <1>15 DEF Next

LEMMA ReaderTypeStep == TypeOK /\ [Next]_vars => ReaderTypeOK'
<1> SUFFICES ASSUME TypeOK, [Next]_vars PROVE ReaderTypeOK'
  OBVIOUS
<1> USE EngineAssumption DEF EngineAssumption, TypeOK, ReaderTypeOK, vars, mainVars, readerVars, lbVars, fpVars, outVars, flags
<1>1. ASSUME UNCHANGED readerVars PROVE ReaderTypeOK'
  BY <1>1
<1>2. CASE ProcessFile
  BY <1>2 DEF ProcessFile, Packet, NoPacket
<1>3. CASE OpenInput
  BY <1>3 DEF OpenInput, Packet, NoPacket
<1>4. CASE WriteHeader
  BY <1>4 DEF WriteHeader, Packet, NoPacket
<1>5. CASE EndOfCapture
  BY <1>5 DEF EndOfCapture, Packet, NoPacket
<1>6. CASE ReaderPush
  BY <1>6 DEF ReaderPush, Packet, NoPacket
<1>7. ASSUME NEW fl \in Flow, ReadPacket(fl) PROVE ReaderTypeOK'
  BY <1>7 DEF ReadPacket, Packet, NoPacket
<1>8. CASE Main
  BY <1>8, <1>1, <1>2 DEF Main, JoinReader, Stop, SignalLB, JoinLB, SignalFP, JoinFP, CloseOutput, JoinOutput
<1>9. CASE Reader
  BY <1>9, <1>3, <1>4, <1>5, <1>6, <1>7 DEF Reader
<1>10. ASSUME NEW l \in LB, LoadBalancer(l) PROVE ReaderTypeOK'
  BY <1>10, <1>1 DEF LoadBalancer, LbCheck, LbCrash, LbPop, LbPush
<1>11. ASSUME NEW f \in FP, FastPath(f) PROVE ReaderTypeOK'
  BY <1>11, <1>1 DEF FastPath, FpCheck, FpPop, FpDrop, FpForward, FpPush
<1>12. CASE OutputThread
  BY <1>12, <1>1 DEF OutputThread, OutCheck, OutPop
<1> QED
  BY <1>1, <1>8, <1>9, <1>10, <1>11, <1>12 DEF Next

LEMMA LbTypeStep == TypeOK /\ [Next]_vars => LbTypeOK'
<1> SUFFICES ASSUME TypeOK, [Next]_vars PROVE LbTypeOK'
  OBVIOUS
<1> USE EngineAssumption DEF EngineAssumption, TypeOK, LbTypeOK, vars, mainVars, readerVars, lbVars, fpVars, outVars, flags
<1>1. ASSUME UNCHANGED lbVars PROVE LbTypeOK'
  BY <1>1
<1>2. CASE ProcessFile
  BY <1>2 DEF ProcessFile, QueueTypeOK, Packet, NoPacket
<1>3. ASSUME NEW l \in LB, LbCheck(l) PROVE LbTypeOK'
  BY <1>3 DEF LbCheck, QueueTypeOK, Packet, NoPacket
<1>4. ASSUME NEW l \in LB, LbCrash(l) PROVE LbTypeOK'
  BY <1>4 DEF LbCrash, QueueTypeOK, Packet, NoPacket
<1>5. ASSUME NEW l \in LB, LbPop(l) PROVE LbTypeOK'
  <2>1. CASE lbQ[l] = <<>>
    BY <1>5, <2>1 DEF LbPop
  <2>2. CASE lbQ[l] # <<>>
    <3>1. Head(lbQ[l]) \in 1..MaxPackets
      BY <2>2, TakeOne DEF QueueTypeOK, Packet
    <3>2. Head(lbQ[l]) # 0
      BY <3>1
    <3>3. lbJob' = [lbJob EXCEPT ![l] = Head(lbQ[l])] /\ lbPc' = [lbPc EXCEPT ![l] = "push"]
      BY <1>5, <2>2 DEF LbPop
    <3>4. lbJob' \in [LB -> Packet \cup {NoPacket}]
      BY <3>1, <3>3 DEF Packet, NoPacket
    <3> QED
      BY <1>5, <2>2, <3>2, <3>3, <3>4 DEF LbPop, NoPacket
  <2> QED
    BY <2>1, <2>2
<1>6. ASSUME NEW l \in LB, LbPush(l) PROVE LbTypeOK'
  <2>1. PICK x : dispatched' = [dispatched EXCEPT ![x] = @ + 1]
    BY <1>6 DEF LbPush
  <2>2. \A f \in FP : dispatched'[f] \in Nat
    BY <2>1
  <2>3. dispatched' \in [FP -> Nat]
    BY <2>1, <2>2
  <2> QED
    BY <1>6, <2>3 DEF LbPush, NoPacket
<1>7. CASE Main
  BY <1>7, <1>1, <1>2 DEF Main, JoinReader, Stop, SignalLB, JoinLB, SignalFP, JoinFP, CloseOutput, JoinOutput
<1>8. CASE Reader
  BY <1>8, <1>1 DEF Reader, OpenInput, WriteHeader, EndOfCapture, ReaderPush, ReadPacket
<1>9. ASSUME NEW l \in LB, LoadBalancer(l) PROVE LbTypeOK'
  BY <1>9, <1>3, <1>4, <1>5, <1>6 DEF LoadBalancer
<1>10. ASSUME NEW f \in FP, FastPath(f) PROVE LbTypeOK'
  BY <1>10, <1>1 DEF FastPath, FpCheck, FpPop, FpDrop, FpForward, FpPush
<1>11. CASE OutputThread
  BY <1>11, <1>1 DEF OutputThread, OutCheck, OutPop
<1> QED
  BY <1>1, <1>7, <1>8, <1>9, <1>10, <1>11 DEF Next

LEMMA FpTypeStep == TypeOK /\ [Next]_vars => FpTypeOK'
<1> SUFFICES ASSUME TypeOK, [Next]_vars PROVE FpTypeOK'
  OBVIOUS
<1> USE EngineAssumption DEF EngineAssumption, TypeOK, FpTypeOK, vars, mainVars, readerVars, lbVars, fpVars, outVars, flags
<1>1. ASSUME UNCHANGED fpVars PROVE FpTypeOK'
  BY <1>1
<1>2. CASE ProcessFile
  BY <1>2 DEF ProcessFile, QueueTypeOK, Packet, NoPacket
<1>3. ASSUME NEW f \in FP, FpCheck(f) PROVE FpTypeOK'
  BY <1>3 DEF FpCheck, QueueTypeOK, Packet, NoPacket
<1>4. ASSUME NEW f \in FP, FpPop(f) PROVE FpTypeOK'
  <2>1. CASE fpQ[f] = <<>>
    BY <1>4, <2>1 DEF FpPop
  <2>2. CASE fpQ[f] # <<>>
    <3>1. Head(fpQ[f]) \in 1..MaxPackets
      BY <2>2, TakeOne DEF QueueTypeOK, Packet
    <3>2. Head(fpQ[f]) # 0
      BY <3>1
    <3>3. fpJob' = [fpJob EXCEPT ![f] = Head(fpQ[f])] /\ fpPc' = [fpPc EXCEPT ![f] = "handle"]
      BY <1>4, <2>2 DEF FpPop
    <3>4. fpJob' \in [FP -> Packet \cup {NoPacket}]
      BY <3>1, <3>3 DEF Packet, NoPacket
    <3> QED
      BY <1>4, <2>2, <3>2, <3>3, <3>4 DEF FpPop, NoPacket
  <2> QED
    BY <2>1, <2>2
<1>5. ASSUME NEW f \in FP, FpDrop(f) PROVE FpTypeOK'
  BY <1>5 DEF FpDrop, QueueTypeOK, Packet, NoPacket
<1>6. ASSUME NEW f \in FP, FpForward(f) PROVE FpTypeOK'
  BY <1>6 DEF FpForward, QueueTypeOK, Packet, NoPacket
<1>7. ASSUME NEW f \in FP, FpPush(f) PROVE FpTypeOK'
  BY <1>7 DEF FpPush, QueueTypeOK, Packet, NoPacket
<1>8. CASE Main
  BY <1>8, <1>1, <1>2 DEF Main, JoinReader, Stop, SignalLB, JoinLB, SignalFP, JoinFP, CloseOutput, JoinOutput
<1>9. CASE Reader
  BY <1>9, <1>1 DEF Reader, OpenInput, WriteHeader, EndOfCapture, ReaderPush, ReadPacket
<1>10. ASSUME NEW l \in LB, LoadBalancer(l) PROVE FpTypeOK'
  BY <1>10, <1>1 DEF LoadBalancer, LbCheck, LbCrash, LbPop, LbPush
<1>11. ASSUME NEW f \in FP, FastPath(f) PROVE FpTypeOK'
  BY <1>11, <1>3, <1>4, <1>5, <1>6, <1>7 DEF FastPath
<1>12. CASE OutputThread
  BY <1>12, <1>1 DEF OutputThread, OutCheck, OutPop
<1> QED
  BY <1>1, <1>8, <1>9, <1>10, <1>11, <1>12 DEF Next

LEMMA OutTypeStep == TypeOK /\ [Next]_vars => OutTypeOK'
<1> SUFFICES ASSUME TypeOK, [Next]_vars PROVE OutTypeOK'
  OBVIOUS
<1> USE EngineAssumption DEF EngineAssumption, TypeOK, OutTypeOK, vars, mainVars, readerVars, lbVars, fpVars, outVars, flags
<1>1. ASSUME UNCHANGED <<outVars, outFile, lost>> PROVE OutTypeOK'
  BY <1>1
<1>2. CASE ProcessFile
  BY <1>2 DEF ProcessFile, QueueTypeOK, ReaderTypeOK, LbTypeOK, FpTypeOK, Packet, NoPacket, Header
<1>3. CASE WriteHeader
  BY <1>3 DEF WriteHeader, QueueTypeOK, ReaderTypeOK, LbTypeOK, FpTypeOK, Packet, NoPacket, Header
<1>4. CASE ReaderPush
  BY <1>4 DEF ReaderPush, QueueTypeOK, ReaderTypeOK, LbTypeOK, FpTypeOK, Packet, NoPacket, Header
<1>5. ASSUME NEW l \in LB, LbPush(l) PROVE OutTypeOK'
  BY <1>5 DEF LbPush, QueueTypeOK, ReaderTypeOK, LbTypeOK, FpTypeOK, Packet, NoPacket, Header
<1>6. ASSUME NEW f \in FP, FpPush(f) PROVE OutTypeOK'
  BY <1>6 DEF FpPush, QueueTypeOK, ReaderTypeOK, LbTypeOK, FpTypeOK, Packet, NoPacket, Header
<1>7. CASE OutCheck
  BY <1>7 DEF OutCheck, QueueTypeOK, ReaderTypeOK, LbTypeOK, FpTypeOK, Packet, NoPacket, Header
<1>8. CASE OutPop
  <2>1. CASE outQ = <<>>
    BY <1>8, <2>1 DEF OutPop
  <2>2. CASE outQ # <<>>
    <3>1. Head(outQ) \in Packet
      BY <2>2, TakeOne DEF QueueTypeOK
    <3>2. outFile' = Append(outFile, Head(outQ)) /\ written' = written \cup {Head(outQ)}
      BY <1>8, <2>2 DEF OutPop
    <3>3. outFile' \in Seq(Packet \cup {Header})
      BY <3>1, <3>2, PutOne
    <3> QED
      BY <1>8, <3>1, <3>2, <3>3 DEF OutPop
  <2> QED
    BY <2>1, <2>2
<1>9. CASE Main
  BY <1>9, <1>1, <1>2 DEF Main, JoinReader, Stop, SignalLB, JoinLB, SignalFP, JoinFP, CloseOutput, JoinOutput
<1>10. CASE Reader
  BY <1>10, <1>1, <1>3, <1>4 DEF Reader, OpenInput, EndOfCapture, ReadPacket
<1>11. ASSUME NEW l \in LB, LoadBalancer(l) PROVE OutTypeOK'
  BY <1>11, <1>1, <1>5 DEF LoadBalancer, LbCheck, LbCrash, LbPop
<1>12. ASSUME NEW f \in FP, FastPath(f) PROVE OutTypeOK'
  BY <1>12, <1>1, <1>6 DEF FastPath, FpCheck, FpPop, FpDrop, FpForward
<1>13. CASE OutputThread
  BY <1>13, <1>7, <1>8 DEF OutputThread
<1> QED
  BY <1>1, <1>9, <1>10, <1>11, <1>12, <1>13 DEF Next

LEMMA FlagTypeStep == TypeOK /\ [Next]_vars => FlagTypeOK'
<1> SUFFICES ASSUME TypeOK, [Next]_vars PROVE FlagTypeOK'
  OBVIOUS
<1> USE EngineAssumption DEF EngineAssumption, TypeOK, FlagTypeOK, vars, mainVars, readerVars, lbVars, fpVars, outVars, flags
<1>1. ASSUME UNCHANGED flags PROVE FlagTypeOK'
  BY <1>1
<1>2. CASE ProcessFile
  BY <1>2 DEF ProcessFile, MainTypeOK
<1>3. CASE SignalLB
  BY <1>3 DEF SignalLB, MainTypeOK
<1>4. CASE SignalFP
  BY <1>4 DEF SignalFP, MainTypeOK
<1>5. CASE CloseOutput
  BY <1>5 DEF CloseOutput, MainTypeOK
<1>6. CASE Main
  BY <1>6, <1>1, <1>2, <1>3, <1>4, <1>5 DEF Main, JoinReader, Stop, JoinLB, JoinFP, JoinOutput
<1>7. CASE Reader
  BY <1>7, <1>1 DEF Reader, OpenInput, WriteHeader, EndOfCapture, ReaderPush, ReadPacket
<1>8. ASSUME NEW l \in LB, LoadBalancer(l) PROVE FlagTypeOK'
  BY <1>8, <1>1 DEF LoadBalancer, LbCheck, LbCrash, LbPop, LbPush
<1>9. ASSUME NEW f \in FP, FastPath(f) PROVE FlagTypeOK'
  BY <1>9, <1>1 DEF FastPath, FpCheck, FpPop, FpDrop, FpForward, FpPush
<1>10. CASE OutputThread
  BY <1>10, <1>1 DEF OutputThread, OutCheck, OutPop
<1> QED
  BY <1>1, <1>6, <1>7, <1>8, <1>9, <1>10 DEF Next

LEMMA QueueTypeStep == TypeOK /\ [Next]_vars => QueueTypeOK'
<1> SUFFICES ASSUME TypeOK, [Next]_vars PROVE QueueTypeOK'
  OBVIOUS
<1> USE EngineAssumption DEF EngineAssumption, TypeOK, QueueTypeOK, vars, mainVars, readerVars, lbVars, fpVars, outVars, flags
<1>1. ASSUME UNCHANGED <<lbQ, fpQ, outQ>> PROVE QueueTypeOK'
  BY <1>1
<1>2. CASE ReaderPush
  <2> DEFINE x == LbFor(capture[readerJob])
  <2>1. readerJob \in Packet
    BY <1>2 DEF ReaderPush, ReaderTypeOK, NoPacket
  <2>2. CASE lbQ' = lbQ
    BY <1>2, <2>2 DEF ReaderPush
  <2>3. ASSUME x \in DOMAIN lbQ, Len(lbQ[x]) < QueueSize, lbQ' = [lbQ EXCEPT ![x] = Append(@, readerJob)]
        PROVE  QueueTypeOK'
    <3>1. Append(lbQ[x], readerJob) \in Seq(Packet) /\ Len(Append(lbQ[x], readerJob)) <= QueueSize
      BY <2>1, <2>3, PutOne
    <3> QED
      BY <1>2, <2>3, <3>1 DEF ReaderPush
  <2>4. CASE x \notin DOMAIN lbQ /\ lbQ' = [lbQ EXCEPT ![x] = Append(@, readerJob)]
    BY <1>2, <2>4 DEF ReaderPush
  <2> QED
    BY <1>2, <2>2, <2>3, <2>4 DEF ReaderPush
<1>3. ASSUME NEW l \in LB, LbPop(l) PROVE QueueTypeOK'
  <2>1. CASE lbQ[l] = <<>>
    BY <1>3, <2>1 DEF LbPop
  <2>2. CASE lbQ[l] # <<>>
    <3>1. Tail(lbQ[l]) \in Seq(Packet) /\ Len(Tail(lbQ[l])) <= QueueSize
      BY <2>2, TakeOne
    <3> QED
      BY <1>3, <2>2, <3>1 DEF LbPop
  <2> QED
    BY <2>1, <2>2
<1>4. ASSUME NEW l \in LB, LbPush(l) PROVE QueueTypeOK'
  <2> DEFINE x == FpFor(l, capture[lbJob[l]])
  <2>1. lbJob[l] \in Packet
    BY <1>4 DEF LbPush, LbTypeOK, NoPacket
  <2>2. CASE fpQ' = fpQ
    BY <1>4, <2>2 DEF LbPush
  <2>3. ASSUME x \in DOMAIN fpQ, Len(fpQ[x]) < QueueSize, fpQ' = [fpQ EXCEPT ![x] = Append(@, lbJob[l])]
        PROVE  QueueTypeOK'
    <3>1. Append(fpQ[x], lbJob[l]) \in Seq(Packet) /\ Len(Append(fpQ[x], lbJob[l])) <= QueueSize
      BY <2>1, <2>3, PutOne
    <3> QED
      BY <1>4, <2>3, <3>1 DEF LbPush
  <2>4. CASE x \notin DOMAIN fpQ /\ fpQ' = [fpQ EXCEPT ![x] = Append(@, lbJob[l])]
    BY <1>4, <2>4 DEF LbPush
  <2> QED
    BY <1>4, <2>2, <2>3, <2>4 DEF LbPush
<1>5. ASSUME NEW f \in FP, FpPop(f) PROVE QueueTypeOK'
  <2>1. CASE fpQ[f] = <<>>
    BY <1>5, <2>1 DEF FpPop
  <2>2. CASE fpQ[f] # <<>>
    <3>1. Tail(fpQ[f]) \in Seq(Packet) /\ Len(Tail(fpQ[f])) <= QueueSize
      BY <2>2, TakeOne
    <3> QED
      BY <1>5, <2>2, <3>1 DEF FpPop
  <2> QED
    BY <2>1, <2>2
<1>6. ASSUME NEW f \in FP, FpPush(f) PROVE QueueTypeOK'
  <2>1. fpJob[f] \in Packet
    BY <1>6 DEF FpPush, FpTypeOK, NoPacket
  <2>2. CASE outQ' = outQ
    BY <1>6, <2>2 DEF FpPush
  <2>3. CASE Len(outQ) < QueueSize /\ outQ' = Append(outQ, fpJob[f])
    BY <1>6, <2>1, <2>3, PutOne DEF FpPush
  <2> QED
    BY <1>6, <2>2, <2>3 DEF FpPush
<1>7. CASE OutPop
  <2>1. CASE outQ = <<>>
    BY <1>7, <2>1 DEF OutPop
  <2>2. CASE outQ # <<>>
    <3>1. Tail(outQ) \in Seq(Packet) /\ Len(Tail(outQ)) <= QueueSize
      BY <2>2, TakeOne
    <3> QED
      BY <1>7, <2>2, <3>1 DEF OutPop
  <2> QED
    BY <2>1, <2>2
<1>8. CASE Main
  BY <1>8, <1>1 DEF Main, ProcessFile, JoinReader, Stop, SignalLB, JoinLB, SignalFP, JoinFP, CloseOutput, JoinOutput
<1>9. CASE Reader
  BY <1>9, <1>1, <1>2 DEF Reader, OpenInput, WriteHeader, EndOfCapture, ReadPacket
<1>10. ASSUME NEW l \in LB, LoadBalancer(l) PROVE QueueTypeOK'
  BY <1>10, <1>1, <1>3, <1>4 DEF LoadBalancer, LbCheck, LbCrash
<1>11. ASSUME NEW f \in FP, FastPath(f) PROVE QueueTypeOK'
  BY <1>11, <1>1, <1>5, <1>6 DEF FastPath, FpCheck, FpDrop, FpForward
<1>12. CASE OutputThread
  BY <1>12, <1>1, <1>7 DEF OutputThread, OutCheck
<1> QED
  BY <1>1, <1>8, <1>9, <1>10, <1>11, <1>12 DEF Next

(* Every variable keeps its type: no queue ever exceeds its capacity, and a  *)
(* thread holds a packet exactly where its code has one at hand.             *)
THEOREM TypeCorrect == Spec => []TypeOK
<1>1. Init => TypeOK
  <2> SUFFICES ASSUME Init PROVE TypeOK
    OBVIOUS
  <2> USE Ids, EngineAssumption DEF EngineAssumption, Init, Packet, NoPacket
  <2>1. MainTypeOK /\ ReaderTypeOK
    BY DEF MainTypeOK, ReaderTypeOK, MainPc
  <2>2. LbTypeOK /\ FpTypeOK
    BY DEF LbTypeOK, FpTypeOK
  <2>3. OutTypeOK /\ FlagTypeOK
    BY DEF OutTypeOK, FlagTypeOK
  <2>4. QueueTypeOK
    BY DEF QueueTypeOK
  <2> QED
    BY <2>1, <2>2, <2>3, <2>4 DEF TypeOK
<1>2. TypeOK /\ [Next]_vars => TypeOK'
  BY MainTypeStep, ReaderTypeStep, LbTypeStep, FpTypeStep, OutTypeStep, FlagTypeStep, QueueTypeStep
  DEF TypeOK
<1> QED
  BY <1>1, <1>2, PTL DEF Spec

(* Every packet on its way to a balancer has been read, so the balancer and  *)
(* the fast path chosen for it exist.                                        *)
JobsRead ==
    /\ readerPc = "push" => readerJob \in 1..Len(capture)
    /\ \A l \in LB : lbPc[l] = "push" => lbJob[l] \in 1..Len(capture)
    /\ \A l \in LB : \A i \in 1..Len(lbQ[l]) : lbQ[l][i] \in 1..Len(capture)

LEMMA Targets ==
    ASSUME NEW fl \in Flow, NEW l \in LB
    PROVE  LbFor(fl) \in LB /\ FpFor(l, fl) \in FP
<1> USE EngineAssumption DEF EngineAssumption
<1>1. Hash[fl] \in Nat
  OBVIOUS
<1>2. Hash[fl] % NumLBs \in 0..(NumLBs - 1) /\ Hash[fl] % FpsPerLB \in 0..(FpsPerLB - 1)
  BY <1>1
<1>3. l \in Nat /\ l + 1 <= NumLBs
  BY DEF LB
<1>4. (l * FpsPerLB) + FpsPerLB <= NumLBs * FpsPerLB /\ l * FpsPerLB \in Nat
  BY <1>3
<1>5. FpFor(l, fl) \in FP
  BY <1>2, <1>4, PoolSize DEF FpFor, FP
<1> QED
  BY <1>2, <1>5 DEF LbFor, LB

LEMMA ReaderTarget ==
    ASSUME TypeOK, JobsRead, readerPc = "push"
    PROVE  LbFor(capture[readerJob]) \in LB
<1>1. capture[readerJob] \in Flow
  BY DEF TypeOK, ReaderTypeOK, JobsRead
<1> QED
  BY <1>1, Ids, Targets

LEMMA LbTarget ==
    ASSUME TypeOK, JobsRead, NEW l \in LB, lbPc[l] = "push"
    PROVE  FpFor(l, capture[lbJob[l]]) \in FP
<1>1. capture[lbJob[l]] \in Flow
  BY DEF TypeOK, ReaderTypeOK, JobsRead
<1> QED
  BY <1>1, Targets

LEMMA JobsReadStep == TypeOK /\ JobsRead /\ [Next]_vars => JobsRead'
<1> SUFFICES ASSUME TypeOK, JobsRead, [Next]_vars PROVE JobsRead'
  OBVIOUS
<1> USE DEF TypeOK, ReaderTypeOK, LbTypeOK, QueueTypeOK, JobsRead,
            vars, mainVars, readerVars, lbVars, fpVars, outVars, flags
<1>1. ASSUME UNCHANGED <<readerVars, lbVars, lbQ>> PROVE JobsRead'
  BY <1>1
<1>2. CASE ProcessFile
  BY <1>2 DEF ProcessFile
<1>3. ASSUME NEW fl \in Flow, ReadPacket(fl) PROVE JobsRead'
  <2>1. Len(capture') = Len(capture) + 1 /\ Len(capture) \in Nat
    BY <1>3, PutOne DEF ReadPacket
  <2>2. 1..Len(capture) \subseteq 1..Len(capture')
    BY <2>1
  <2>3. readerJob' \in 1..Len(capture')
    BY <1>3, <2>1 DEF ReadPacket
  <2> QED
    BY <1>3, <2>2, <2>3 DEF ReadPacket
<1>4. CASE ReaderPush
  <2> DEFINE x == LbFor(capture[readerJob])
  <2>1. readerJob \in 1..Len(capture) /\ x \in LB
    BY <1>4, ReaderTarget DEF ReaderPush
  <2>2. CASE lbQ' = lbQ
    BY <1>4, <2>2 DEF ReaderPush
  <2>3. CASE lbQ' = [lbQ EXCEPT ![x] = Append(@, readerJob)]
    <3> HIDE DEF x
    <3>1. lbQ[x] \in Seq(Packet) /\ lbQ'[x] = Append(lbQ[x], readerJob)
      BY <2>1, <2>3
    <3>2. \A i \in 1..Len(lbQ'[x]) : lbQ'[x][i] \in 1..Len(capture)
      BY <2>1, <3>1
    <3>3. \A l \in LB \ {x} : lbQ'[l] = lbQ[l]
      BY <2>3
    <3> QED
      BY <1>4, <3>2, <3>3 DEF ReaderPush
  <2> QED
    BY <1>4, <2>2, <2>3 DEF ReaderPush
<1>5. ASSUME NEW l \in LB, LbPop(l) PROVE JobsRead'
  <2>1. CASE lbQ[l] = <<>>
    BY <1>5, <2>1 DEF LbPop
  <2>2. CASE lbQ[l] # <<>>
    <3>1. /\ lbQ[l] \in Seq(Packet) /\ Len(lbQ[l]) >= 1
          /\ lbQ'[l] = Tail(lbQ[l]) /\ lbJob'[l] = Head(lbQ[l])
      BY <1>5, <2>2 DEF LbPop
    <3>2. \A i \in 1..Len(lbQ'[l]) : lbQ'[l][i] \in 1..Len(capture)
      BY <3>1
    <3>3. lbJob'[l] \in 1..Len(capture)
      BY <3>1
    <3>4. \A k \in LB \ {l} : lbQ'[k] = lbQ[k] /\ lbJob'[k] = lbJob[k] /\ lbPc'[k] = lbPc[k]
      BY <1>5, <2>2 DEF LbPop
    <3> QED
      BY <1>5, <3>2, <3>3, <3>4 DEF LbPop
  <2> QED
    BY <2>1, <2>2
<1>6. ASSUME NEW l \in LB, LbPush(l) PROVE JobsRead'
  BY <1>6 DEF LbPush
<1>7. ASSUME NEW l \in LB, LbCheck(l) PROVE JobsRead'
  BY <1>7 DEF LbCheck
<1>8. CASE OpenInput \/ WriteHeader \/ EndOfCapture
  BY <1>8 DEF OpenInput, WriteHeader, EndOfCapture
<1>9. ASSUME NEW l \in LB, LbCrash(l) PROVE JobsRead'
  BY <1>9 DEF LbCrash
<1>10. CASE Main
  BY <1>10, <1>1, <1>2 DEF Main, JoinReader, Stop, SignalLB, JoinLB, SignalFP, JoinFP,
     CloseOutput, JoinOutput
<1>11. CASE Reader
  BY <1>11, <1>3, <1>4, <1>8 DEF Reader
<1>12. ASSUME NEW l \in LB, LoadBalancer(l) PROVE JobsRead'
  BY <1>12, <1>5, <1>6, <1>7, <1>9 DEF LoadBalancer
<1>13. ASSUME NEW f \in FP, FastPath(f) PROVE JobsRead'
  BY <1>13, <1>1 DEF FastPath, FpCheck, FpPop, FpDrop, FpForward, FpPush
<1>14. CASE OutputThread
  BY <1>14, <1>1 DEF OutputThread, OutCheck, OutPop
<1> QED
  BY <1>1, <1>10, <1>11, <1>12, <1>13, <1>14 DEF Next

(* stop() joins the threads in the order of the pipeline: past a join the    *)
(* threads joined are gone, in every call of processFile.                    *)
Reading == {"joinReader", "stop"}
StoppingLBs == {"signalLB", "joinLB"}
StoppingFPs == {"signalFP", "joinFP"}

Gone ==
    /\ mainPc # "joinReader" => readerPc = "off"
    /\ mainPc \in StoppingLBs => \A l \in LB : l < idx => lbPc[l] = "off"
    /\ mainPc \notin Reading \cup StoppingLBs => \A l \in LB : lbPc[l] = "off"
    /\ mainPc \in StoppingFPs => \A f \in FP : f < idx => fpPc[f] = "off"
    /\ mainPc \in {"closeOutput", "joinOutput", "idle"} => \A f \in FP : fpPc[f] = "off"

LEMMA LastOne ==
    ASSUME TypeOK
    PROVE  /\ \A l \in LB : mainPc = "joinLB" /\ (idx + 1 \notin LB \/ l < idx + 1) => l < idx \/ l = idx
           /\ \A f \in FP : mainPc = "joinFP" /\ (idx + 1 \notin FP \/ f < idx + 1) => f < idx \/ f = idx
<1>1. ASSUME NEW l \in LB, mainPc = "joinLB", idx + 1 \notin LB \/ l < idx + 1 PROVE l < idx \/ l = idx
  BY <1>1, EngineAssumption DEF EngineAssumption, TypeOK, MainTypeOK, LB
<1>2. ASSUME NEW f \in FP, mainPc = "joinFP", idx + 1 \notin FP \/ f < idx + 1 PROVE f < idx \/ f = idx
  <2> PICK n : n = NumLBs * FpsPerLB
    OBVIOUS
  <2>1. n \in Nat \ {0} /\ FP = 0..(n - 1)
    BY PoolSize DEF FP
  <2> QED
    BY <1>2, <2>1 DEF TypeOK, MainTypeOK
<1> QED
  BY <1>1, <1>2

LEMMA GoneStep == TypeOK /\ Gone /\ [Next]_vars => Gone'
<1> SUFFICES ASSUME TypeOK, Gone, [Next]_vars PROVE Gone'
  OBVIOUS
<1> USE DEF Gone, Reading, StoppingLBs, StoppingFPs, vars, mainVars, readerVars, lbVars, fpVars, outVars, flags
<1>1. ASSUME UNCHANGED <<mainPc, idx, readerPc, lbPc, fpPc>> PROVE Gone'
  BY <1>1
<1>2. CASE ProcessFile
  BY <1>2 DEF ProcessFile
<1>3. CASE JoinReader
  BY <1>3 DEF JoinReader
<1>4. CASE Stop
  <2>1. \A l \in LB : ~(l < 0)
    BY DEF LB
  <2> QED
    BY <1>4, <2>1 DEF Stop
<1>5. CASE SignalLB
  BY <1>5 DEF SignalLB
<1>6. CASE JoinLB
  <2>1. \A f \in FP : ~(f < 0)
    BY DEF FP
  <2> QED
    BY <1>6, <2>1, LastOne DEF JoinLB
<1>7. CASE SignalFP
  BY <1>7 DEF SignalFP
<1>8. CASE JoinFP
  BY <1>8, LastOne DEF JoinFP
<1>9. CASE CloseOutput
  BY <1>9 DEF CloseOutput
<1>10. CASE JoinOutput
  BY <1>10 DEF JoinOutput
<1>11. CASE Reader
  BY <1>11 DEF Reader, OpenInput, WriteHeader, EndOfCapture, ReaderPush, ReadPacket
<1>12. ASSUME NEW l \in LB, LoadBalancer(l) PROVE Gone'
  <2>1. /\ UNCHANGED <<mainPc, idx, readerPc, fpPc>>
        /\ \A k \in LB : lbPc[k] = "off" => lbPc'[k] = "off"
    BY <1>12 DEF LoadBalancer, LbCheck, LbCrash, LbPop, LbPush, TypeOK, LbTypeOK
  <2> QED
    BY <2>1
<1>13. ASSUME NEW f \in FP, FastPath(f) PROVE Gone'
  <2>1. /\ UNCHANGED <<mainPc, idx, readerPc, lbPc>>
        /\ \A g \in FP : fpPc[g] = "off" => fpPc'[g] = "off"
    BY <1>13 DEF FastPath, FpCheck, FpPop, FpDrop, FpForward, FpPush, TypeOK, FpTypeOK
  <2> QED
    BY <2>1
<1>14. CASE OutputThread
  BY <1>1, <1>14 DEF OutputThread, OutCheck, OutPop
<1> QED
  BY <1>1, <1>2, <1>3, <1>4, <1>5, <1>6, <1>7, <1>8, <1>9, <1>10, <1>11, <1>12, <1>13, <1>14 DEF Next, Main

(* What stop() may rely on during the first call of processFile: the reader  *)
(* is gone before a balancer's queue is shut down, the balancers before a    *)
(* fast path's, the fast paths before the output queue.                      *)
StopOrder ==
    FirstCall =>
    /\ lost = {}
    /\ files = 0 => mainPc = "idle"
    /\ mainPc \in Reading \/ files = 0 => \A l \in LB : ~lbClosed[l]
    /\ mainPc \in Reading \cup StoppingLBs \/ files = 0 => \A f \in FP : ~fpClosed[f]
    /\ mainPc \notin {"idle", "joinOutput"} \/ files = 0 => ~outClosed

LEMMA StopOrderStep == TypeOK /\ JobsRead /\ Gone /\ StopOrder /\ [Next]_vars => StopOrder'
<1> SUFFICES ASSUME TypeOK, JobsRead, Gone, StopOrder, [Next]_vars PROVE StopOrder'
  OBVIOUS
<1> USE DEF StopOrder, FirstCall, Reading, StoppingLBs, StoppingFPs,
            vars, mainVars, readerVars, lbVars, fpVars, outVars, flags
<1>1. ASSUME FirstCall => lost' = lost, UNCHANGED <<mainPc, files, flags>> PROVE StopOrder'
  BY <1>1
<1>2. CASE ProcessFile
  BY <1>2 DEF ProcessFile, TypeOK, MainTypeOK
<1>3. CASE JoinReader \/ Stop \/ JoinLB \/ JoinFP \/ JoinOutput
  BY <1>3 DEF JoinReader, Stop, JoinLB, JoinFP, JoinOutput
<1>4. CASE SignalLB
  BY <1>4 DEF SignalLB
<1>5. CASE SignalFP
  BY <1>5 DEF SignalFP
<1>6. CASE CloseOutput
  BY <1>6 DEF CloseOutput
<1>7. CASE ReaderPush
  <2>1. LbFor(capture[readerJob]) \in LB /\ mainPc = "joinReader"
    BY <1>7, ReaderTarget DEF ReaderPush, Gone
  <2> QED
    BY <1>1, <1>7, <2>1 DEF ReaderPush
<1>8. ASSUME NEW l \in LB, LbPush(l) PROVE StopOrder'
  <2>1. FpFor(l, capture[lbJob[l]]) \in FP /\ mainPc \in Reading \cup StoppingLBs
    BY <1>8, LbTarget DEF LbPush, Gone
  <2> QED
    BY <1>1, <1>8, <2>1 DEF LbPush
<1>9. ASSUME NEW f \in FP, FpPush(f) PROVE StopOrder'
  <2>1. mainPc \notin {"idle", "joinOutput"}
    BY <1>9 DEF FpPush, Gone
  <2> QED
    BY <1>1, <1>9, <2>1 DEF FpPush
<1>10. CASE OpenInput \/ WriteHeader \/ EndOfCapture \/ \E fl \in Flow : ReadPacket(fl)
  BY <1>1, <1>10 DEF OpenInput, WriteHeader, EndOfCapture, ReadPacket
<1>11. ASSUME NEW l \in LB, LbCheck(l) \/ LbPop(l) \/ LbCrash(l) PROVE StopOrder'
  BY <1>1, <1>11 DEF LbCheck, LbPop, LbCrash
<1>12. ASSUME NEW f \in FP, FpCheck(f) \/ FpPop(f) \/ FpDrop(f) \/ FpForward(f) PROVE StopOrder'
  BY <1>1, <1>12 DEF FpCheck, FpPop, FpDrop, FpForward
<1>13. CASE OutputThread
  BY <1>1, <1>13 DEF OutputThread, OutCheck, OutPop
<1>14. CASE UNCHANGED vars
  BY <1>1, <1>14
<1> QED
  BY <1>2, <1>3, <1>4, <1>5, <1>6, <1>7, <1>8, <1>9, <1>10, <1>11, <1>12, <1>13, <1>14
  DEF Next, Main, Reader, LoadBalancer, FastPath

LEMMA InitOrder == Init => JobsRead /\ Gone /\ StopOrder
  BY DEF Init, JobsRead, Gone, StopOrder, FirstCall, Reading, StoppingLBs, StoppingFPs

(* In the first call of processFile no push meets a queue that was shut      *)
(* down, for any number of threads (dpi_engine.cpp:91-105).                  *)
THEOREM NoPushAfterShutdownCorrect == Spec => []NoPushAfterShutdown
<1>1. StopOrder => NoPushAfterShutdown
  BY DEF StopOrder, NoPushAfterShutdown
<1> QED
  BY InitOrder, <1>1, JobsReadStep, GoneStep, StopOrderStep, TypeCorrect, PTL DEF Spec

-----------------------------------------------------------------------------
(* The way of a packet                                                       *)

In(q) == {q[i] : i \in DOMAIN q}
Increasing(q) == \A i, j \in DOMAIN q : i < j => q[i] < q[j]

Read == 1..Len(capture)
LbAt(k) == LbFor(capture[k])
FpAt(k) == FpFor(LbAt(k), capture[k])

(* A thread has a packet in its hands only where its code does. *)
Hands ==
    /\ readerPc = "push" => readerJob = Len(capture)
    /\ readerPc # "push" => readerJob = NoPacket
    /\ \A l \in LB : lbPc[l] # "push" => lbJob[l] = NoPacket
    /\ \A f \in FP : fpPc[f] \notin {"handle", "push"} => fpJob[f] = NoPacket

(* The packets the reader is done with, those balancer l has, those fast     *)
(* path f has still to judge, and those that were judged.                    *)
Sent == Read \ {readerJob}
Held(l) == In(lbQ[l]) \cup ({lbJob[l]} \ {NoPacket})
InHand(f) == {k \in {fpJob[f]} : fpPc[f] = "handle"}
Queued(f) == In(fpQ[f]) \cup InHand(f)
Judged == passed \cup dropped

(* Packet k is ahead of everything its balancer, or its fast path, has. *)
AheadOfLB(k) == \A m \in Held(LbAt(k)) : k < m
AheadOfFP(k) == \A m \in Queued(FpAt(k)) : k < m

OnPath ==
    /\ \A l \in LB : \A k \in Held(l) : k \in Sent /\ LbAt(k) = l
    /\ \A f \in FP : \A k \in Queued(f) : k \in Sent /\ FpAt(k) = f
    /\ Judged \subseteq Sent /\ lost \subseteq Sent

InLine ==
    /\ \A l \in LB : Increasing(lbQ[l]) /\ (lbJob[l] # NoPacket => \A k \in In(lbQ[l]) : lbJob[l] < k)
    /\ \A f \in FP : Increasing(fpQ[f]) /\ \A k \in InHand(f), m \in In(fpQ[f]) : k < m

InOrder ==
    /\ \A f \in FP : \A k \in Queued(f) : AheadOfLB(k)
    /\ \A k \in Judged : AheadOfLB(k) /\ AheadOfFP(k)

(* A packet that a closed queue refused before it was judged: the fast path  *)
(* has only earlier ones and no later one can reach it any more.             *)
NoneFollows(k) ==
    /\ \A m \in Queued(FpAt(k)) : m < k
    /\ fpClosed[FpAt(k)] \/ (lbClosed[LbAt(k)] /\ \A m \in Held(LbAt(k)) : m < k)

Refusals ==
    /\ \A k \in lost : k \notin Held(LbAt(k))
    /\ \A k \in lost \ Judged : NoneFollows(k)

Somewhere ==
    \A k \in Sent : k \in Judged \/ k \in Queued(FpAt(k)) \/ k \in Held(LbAt(k)) \/ k \in lost

Flowing == OnPath /\ InOrder /\ Refusals /\ Somewhere
Pipeline == InLine /\ Flowing

(* Behind the fast paths: what was forwarded is in a hand, in the queue or   *)
(* written, those of one fast path in order, unless the output queue was     *)
(* closed before it could be pushed; then no later one comes.                *)
Outgoing(f) == {k \in {fpJob[f]} : fpPc[f] = "push"}
Out == written \cup In(outQ)

InOrderByFP(q) == \A i, j \in DOMAIN q : i < j /\ FpAt(q[i]) = FpAt(q[j]) => q[i] < q[j]

Apart ==
    /\ Out \subseteq passed
    /\ \A f \in FP : \A k \in Outgoing(f) : k \in passed /\ FpAt(k) = f /\ k \notin lost
    /\ passed \cap dropped = {} /\ lost \cap dropped = {}

OutInOrder ==
    /\ InOrderByFP(outQ)
    /\ \A k \in written, m \in In(outQ) : FpAt(k) = FpAt(m) => k < m
    /\ \A f \in FP : \A k \in Outgoing(f), m \in Out : FpAt(m) = f => m < k
    /\ \A k \in lost \cap passed : outClosed /\ \A m \in Out : FpAt(m) = FpAt(k) => m < k

Delivered == \A k \in passed : k \in Out \/ k \in Outgoing(FpAt(k)) \/ k \in lost

Delivery == Apart /\ OutInOrder /\ Delivered

(* After a quiet stop nothing moves any more. *)
Silent == FirstCall /\ quietStop => Quiet /\ readerPc = "off" /\ files = 1

-----------------------------------------------------------------------------
(* Sequences of packets and the path of a packet                             *)

LEMMA InAppend ==
    ASSUME NEW S, NEW q \in Seq(S), NEW e
    PROVE  In(Append(q, e)) = In(q) \cup {e}
<1>1. /\ Len(q) \in Nat /\ DOMAIN Append(q, e) = 1..(Len(q) + 1) /\ DOMAIN q = 1..Len(q)
      /\ \A i \in 1..Len(q) : Append(q, e)[i] = q[i]
      /\ Append(q, e)[Len(q) + 1] = e
  OBVIOUS
<1> QED
  BY <1>1 DEF In

LEMMA InTail ==
    ASSUME NEW S, NEW q \in Seq(S), q # <<>>
    PROVE  In(q) = {Head(q)} \cup In(Tail(q))
<1>1. /\ Len(q) \in Nat \ {0} /\ DOMAIN q = 1..Len(q) /\ DOMAIN Tail(q) = 1..(Len(q) - 1)
      /\ \A i \in 1..(Len(q) - 1) : Tail(q)[i] = q[i + 1]
      /\ Head(q) = q[1]
  OBVIOUS
<1>2. ASSUME NEW i \in DOMAIN q PROVE q[i] \in {Head(q)} \cup In(Tail(q))
  <2>1. CASE i = 1
    BY <1>1, <2>1
  <2>2. CASE i # 1
    <3>1. i - 1 \in 1..(Len(q) - 1) /\ (i - 1) + 1 = i
      BY <1>1, <2>2
    <3> QED
      BY <1>1, <3>1 DEF In
  <2> QED
    BY <2>1, <2>2
<1>3. ASSUME NEW i \in DOMAIN Tail(q) PROVE Tail(q)[i] \in In(q)
  <2>1. i + 1 \in 1..Len(q)
    BY <1>1
  <2> QED
    BY <1>1, <2>1 DEF In
<1>4. Head(q) \in In(q)
  BY <1>1 DEF In
<1> QED
  BY <1>2, <1>3, <1>4 DEF In

LEMMA IncreasingTail ==
    ASSUME NEW q \in Seq(Nat), q # <<>>, Increasing(q)
    PROVE  Increasing(Tail(q)) /\ \A k \in In(Tail(q)) : Head(q) < k
<1>1. /\ Len(q) \in Nat \ {0} /\ DOMAIN q = 1..Len(q) /\ DOMAIN Tail(q) = 1..(Len(q) - 1)
      /\ \A i \in 1..(Len(q) - 1) : Tail(q)[i] = q[i + 1]
      /\ Head(q) = q[1]
  OBVIOUS
<1>2. Increasing(Tail(q))
  <2> SUFFICES ASSUME NEW i \in 1..(Len(q) - 1), NEW j \in 1..(Len(q) - 1), i < j
               PROVE  Tail(q)[i] < Tail(q)[j]
    BY <1>1 DEF Increasing
  <2>1. i + 1 \in 1..Len(q) /\ j + 1 \in 1..Len(q) /\ i + 1 < j + 1
    BY <1>1
  <2> QED
    BY <1>1, <2>1 DEF Increasing
<1>3. ASSUME NEW i \in 1..(Len(q) - 1) PROVE Head(q) < Tail(q)[i]
  <2>1. i + 1 \in 1..Len(q) /\ 1 \in 1..Len(q) /\ 1 < i + 1
    BY <1>1
  <2> QED
    BY <1>1, <2>1 DEF Increasing
<1> QED
  BY <1>1, <1>2, <1>3 DEF In

LEMMA IncreasingAppend ==
    ASSUME NEW q \in Seq(Nat), Increasing(q), NEW e \in Nat, \A k \in In(q) : k < e
    PROVE  Increasing(Append(q, e))
<1>1. /\ Len(q) \in Nat /\ DOMAIN Append(q, e) = 1..(Len(q) + 1) /\ DOMAIN q = 1..Len(q)
      /\ \A i \in 1..Len(q) : Append(q, e)[i] = q[i]
      /\ Append(q, e)[Len(q) + 1] = e
  OBVIOUS
<1> SUFFICES ASSUME NEW i \in 1..(Len(q) + 1), NEW j \in 1..(Len(q) + 1), i < j
             PROVE  Append(q, e)[i] < Append(q, e)[j]
  BY <1>1 DEF Increasing
<1>2. i \in 1..Len(q) /\ q[i] \in In(q)
  BY <1>1 DEF In
<1> QED
  BY <1>1, <1>2 DEF Increasing

LEMMA Wider ==
    ASSUME NEW S, NEW T, S \subseteq T, NEW q \in Seq(S)
    PROVE  q \in Seq(T)
  OBVIOUS

LEMMA Elements == ASSUME NEW q \in Seq(Packet) PROVE q \in Seq(Nat) /\ In(q) \subseteq Packet
<1>1. Packet \subseteq Nat
  BY EngineAssumption DEF EngineAssumption, Packet
<1>2. q \in Seq(Nat)
  BY <1>1, Wider
<1>3. In(q) \subseteq Packet
  BY DEF In
<1> QED
  BY <1>2, <1>3

LEMMA Numbers ==
    ASSUME ReaderTypeOK
    PROVE  /\ Len(capture) \in Nat /\ Read \subseteq Nat \ {NoPacket} /\ Read \subseteq Packet
           /\ Packet \subseteq Nat \ {NoPacket} /\ Sent \subseteq Read
  BY EngineAssumption DEF EngineAssumption, ReaderTypeOK, Read, Sent, NoPacket, Packet

(* Where a packet goes is settled when it is read. *)
LEMMA SamePath ==
    ASSUME NEW k, capture'[k] = capture[k]
    PROVE  LbAt(k)' = LbAt(k) /\ FpAt(k)' = FpAt(k)
<1>1. LbAt(k)' = LbAt(k)
  BY DEF LbAt, LbFor
<1> QED
  BY <1>1 DEF FpAt, FpFor

LEMMA PathOf ==
    ASSUME ReaderTypeOK, NEW k \in Read
    PROVE  LbAt(k) \in LB /\ FpAt(k) \in FP
<1>1. capture[k] \in Flow
  BY DEF ReaderTypeOK, Read
<1>2. LbAt(k) \in LB
  BY <1>1, Ids, Targets DEF LbAt
<1> QED
  BY <1>1, <1>2, Targets DEF FpAt

LEMMA Blocks ==
    ASSUME NEW s \in Nat \ {0}, NEW a \in Nat, NEW b \in Nat, NEW r \in 0..(s - 1), a < b
    PROVE  (a * s) + r < b * s
<1>1. a * s \in Nat /\ b * s \in Nat /\ (a + 1) * s = (a * s) + s
  OBVIOUS
<1>2. a + 1 \in Nat /\ a + 1 <= b
  OBVIOUS
<1>3. (a + 1) * s <= b * s
  BY <1>2
<1> QED
  BY <1>1, <1>3

(* The packets of a fast path come through one balancer. *)
LEMMA OneBalancer ==
    ASSUME ReaderTypeOK, NEW k \in Read, NEW m \in Read, FpAt(k) = FpAt(m)
    PROVE  LbAt(k) = LbAt(m)
<1>1. PICK a, b, r, t : /\ a = LbAt(k) /\ b = LbAt(m)
                        /\ r = Hash[capture[k]] % FpsPerLB /\ t = Hash[capture[m]] % FpsPerLB
  OBVIOUS
<1>2. a \in Nat /\ b \in Nat /\ r \in 0..(FpsPerLB - 1) /\ t \in 0..(FpsPerLB - 1) /\ FpsPerLB \in Nat \ {0}
  <2>1. Hash[capture[k]] \in Nat /\ Hash[capture[m]] \in Nat /\ FpsPerLB \in Nat \ {0}
    BY EngineAssumption DEF EngineAssumption, ReaderTypeOK, Read
  <2>2. a \in Nat /\ b \in Nat
    BY <1>1, PathOf, Ids
  <2> QED
    BY <1>1, <2>1, <2>2
<1>3. (a * FpsPerLB) + r = (b * FpsPerLB) + t
  BY <1>1 DEF FpAt, FpFor
<1>4. a * FpsPerLB \in Nat /\ b * FpsPerLB \in Nat
  BY <1>2
<1>5. ~(a < b)
  <2> SUFFICES ASSUME a < b PROVE FALSE
    OBVIOUS
  <2>1. (a * FpsPerLB) + r < b * FpsPerLB
    BY <1>2, Blocks
  <2> QED
    BY <1>2, <1>3, <1>4, <2>1
<1>6. ~(b < a)
  <2> SUFFICES ASSUME b < a PROVE FALSE
    OBVIOUS
  <2>1. (b * FpsPerLB) + t < a * FpsPerLB
    BY <1>2, Blocks
  <2> QED
    BY <1>2, <1>3, <1>4, <2>1
<1> QED
  BY <1>1, <1>2, <1>5, <1>6

-----------------------------------------------------------------------------
(* Proof of Hands                                                            *)

LEMMA HandsStep == TypeOK /\ Gone /\ Hands /\ [Next]_vars => Hands'
<1> SUFFICES ASSUME TypeOK, Gone, Hands, [Next]_vars PROVE Hands'
  OBVIOUS
<1> USE DEF Hands, vars, mainVars, readerVars, lbVars, fpVars, outVars, flags
<1>1. ASSUME UNCHANGED <<readerPc, readerJob, capture, lbPc, lbJob, fpPc, fpJob>> PROVE Hands'
  BY <1>1
<1>2. CASE ProcessFile
  <2>1. /\ readerPc = "off" /\ \A l \in LB : lbPc[l] = "off"
        /\ \A f \in FP : fpPc[f] = "off"
    BY <1>2 DEF ProcessFile, Gone, Reading, StoppingLBs
  <2> QED
    BY <1>2, <2>1 DEF ProcessFile
<1>3. CASE Main
  BY <1>1, <1>2, <1>3 DEF Main, JoinReader, Stop, SignalLB, JoinLB, SignalFP, JoinFP, CloseOutput, JoinOutput
<1>4. ASSUME NEW fl \in Flow, ReadPacket(fl) PROVE Hands'
  BY <1>4 DEF ReadPacket
<1>5. CASE Reader
  BY <1>4, <1>5 DEF Reader, OpenInput, WriteHeader, EndOfCapture, ReaderPush
<1>6. ASSUME NEW l \in LB, LoadBalancer(l) PROVE Hands'
  BY <1>6 DEF LoadBalancer, LbCheck, LbCrash, LbPop, LbPush, TypeOK, LbTypeOK
<1>7. ASSUME NEW f \in FP, FastPath(f) PROVE Hands'
  BY <1>7 DEF FastPath, FpCheck, FpPop, FpDrop, FpForward, FpPush, TypeOK, FpTypeOK
<1>8. CASE OutputThread
  BY <1>1, <1>8 DEF OutputThread, OutCheck, OutPop
<1> QED
  BY <1>1, <1>3, <1>5, <1>6, <1>7, <1>8 DEF Next

-----------------------------------------------------------------------------
(* Proof of Pipeline: what a step does to the packets a balancer has, to     *)
(* those a fast path has, to the judged and to the lost ones, and then what  *)
(* each action is of these.                                                  *)

LEMMA Located ==
    ASSUME TypeOK, OnPath
    PROVE  /\ Sent \subseteq Nat /\ \A m \in Sent : LbAt(m) \in LB /\ FpAt(m) \in FP
           /\ \A k, m \in Sent : FpAt(k) = FpAt(m) => LbAt(k) = LbAt(m)
           /\ \A l \in LB : Held(l) \subseteq Sent
           /\ \A f \in FP : Queued(f) \subseteq Sent
           /\ Judged \subseteq Sent /\ lost \subseteq Sent
<1>1. Sent \subseteq Read /\ Sent \subseteq Nat
  BY Numbers DEF TypeOK
<1>2. \A m \in Sent : LbAt(m) \in LB /\ FpAt(m) \in FP
  BY <1>1, PathOf DEF TypeOK
<1>3. \A k, m \in Sent : FpAt(k) = FpAt(m) => LbAt(k) = LbAt(m)
  BY <1>1, OneBalancer DEF TypeOK
<1> QED
  BY <1>1, <1>2, <1>3 DEF OnPath

(* A step that moves no packet, except to lose one already judged. *)
LEMMA FlowingSame ==
    ASSUME TypeOK, Flowing, \A k \in Read : capture'[k] = capture[k], Sent' = Sent,
           \A l \in LB : Held(l)' = Held(l), \A f \in FP : Queued(f)' = Queued(f),
           Judged' = Judged, lost \subseteq lost', lost' \subseteq lost \cup Judged,
           \A l \in LB : lbClosed[l] => lbClosed'[l], \A f \in FP : fpClosed[f] => fpClosed'[f]
    PROVE  Flowing'
<1>1. \A k \in Sent : LbAt(k)' = LbAt(k) /\ FpAt(k)' = FpAt(k)
  BY SamePath, Numbers DEF TypeOK
<1>2. \A k \in Sent : LbAt(k) \in LB /\ FpAt(k) \in FP
  BY Located DEF Flowing
<1>3. OnPath'
  BY <1>1 DEF Flowing, OnPath
<1>4. \A k \in Sent : (AheadOfLB(k) => AheadOfLB(k)') /\ (AheadOfFP(k) => AheadOfFP(k)')
  BY <1>1, <1>2 DEF AheadOfLB, AheadOfFP
<1>5. InOrder'
  BY <1>4 DEF Flowing, OnPath, InOrder
<1>6. \A k \in Sent : NoneFollows(k) => NoneFollows(k)'
  BY <1>1, <1>2 DEF NoneFollows
<1>7. Refusals'
  <2>1. ASSUME NEW k \in lost' PROVE k \notin Held(LbAt(k))'
    <3>1. k \in Sent /\ Held(LbAt(k))' = Held(LbAt(k))
      BY <1>1, <1>2, <2>1 DEF Flowing, OnPath
    <3>2. CASE k \in lost
      BY <3>1, <3>2 DEF Flowing, Refusals
    <3>3. CASE k \in Judged
      <4>1. \A m \in Held(LbAt(k)) : k < m
        BY <3>3 DEF Flowing, InOrder, AheadOfLB
      <4>2. k \in Nat
        BY <3>1, Located DEF Flowing
      <4> QED
        BY <3>1, <4>1, <4>2
    <3> QED
      BY <2>1, <3>2, <3>3
  <2>2. ASSUME NEW k \in lost' \ Judged PROVE NoneFollows(k)'
    BY <1>6 DEF Flowing, OnPath, Refusals
  <2> QED
    BY <2>1, <2>2 DEF Refusals
<1>8. Somewhere'
  BY <1>1, <1>2 DEF Flowing, Somewhere
<1> QED
  BY <1>3, <1>5, <1>7, <1>8 DEF Flowing

(* Packet k, the last one read, reaches its balancer. *)
LEMMA FlowingSend ==
    ASSUME TypeOK, Flowing, capture' = capture, UNCHANGED flags, lost' = lost, Judged' = Judged,
           \A f \in FP : Queued(f)' = Queued(f),
           NEW k \in Read, NEW l \in LB, l = LbAt(k), ~lbClosed[l],
           Sent' = Sent \cup {k}, k \notin Sent, \A m \in Sent : m < k,
           Held(l)' = Held(l) \cup {k}, \A j \in LB : j # l => Held(j)' = Held(j)
    PROVE  Flowing'
<1>1. \A m : LbAt(m)' = LbAt(m) /\ FpAt(m)' = FpAt(m)
  BY SamePath
<1>2. /\ Sent \subseteq Nat /\ \A m \in Sent : LbAt(m) \in LB /\ FpAt(m) \in FP
      /\ \A f \in FP : Queued(f) \subseteq Sent
      /\ Judged \subseteq Sent /\ lost \subseteq Sent
  BY Located DEF Flowing
<1>3. OnPath'
  BY <1>1 DEF Flowing, OnPath
<1>4. \A m \in Sent : AheadOfLB(m) => AheadOfLB(m)'
  BY <1>1, <1>2 DEF AheadOfLB
<1>5. \A m \in Sent : AheadOfFP(m) => AheadOfFP(m)'
  BY <1>1, <1>2 DEF AheadOfFP
<1>6. InOrder'
  BY <1>2, <1>4, <1>5 DEF Flowing, InOrder
<1>7. Refusals'
  <2>1. \A m \in lost : m \notin Held(LbAt(m))'
    BY <1>1, <1>2 DEF Flowing, Refusals
  <2>2. ASSUME NEW m \in lost \ Judged PROVE NoneFollows(m)'
    <3> PICK a, f : a = LbAt(m) /\ f = FpAt(m)
      OBVIOUS
    <3>1. NoneFollows(m) /\ a \in LB /\ f \in FP
      BY <1>2 DEF Flowing, Refusals
    <3>2. Queued(f)' = Queued(f)
      BY <3>1
    <3>3. a # l => Held(a)' = Held(a)
      BY <3>1
    <3>4. fpClosed' = fpClosed /\ lbClosed' = lbClosed
      BY DEF flags
    <3> QED
      BY <1>1, <3>1, <3>2, <3>3, <3>4 DEF NoneFollows
  <2> QED
    BY <1>1, <2>1, <2>2 DEF Refusals
<1>8. Somewhere'
  BY <1>1, <1>2 DEF Flowing, Somewhere
<1> QED
  BY <1>3, <1>6, <1>7, <1>8 DEF Flowing

(* The closed queue of its balancer refuses packet k. *)
LEMMA FlowingRefuse ==
    ASSUME TypeOK, Flowing, capture' = capture, UNCHANGED flags, Judged' = Judged,
           \A j \in LB : Held(j)' = Held(j), \A f \in FP : Queued(f)' = Queued(f),
           NEW k \in Read, lbClosed[LbAt(k)], lost' = lost \cup {k},
           Sent' = Sent \cup {k}, k \notin Sent, \A m \in Sent : m < k
    PROVE  Flowing'
<1>1. \A m : LbAt(m)' = LbAt(m) /\ FpAt(m)' = FpAt(m)
  BY SamePath
<1>2. /\ \A m \in Sent \cup {k} : LbAt(m) \in LB /\ FpAt(m) \in FP
      /\ \A l \in LB : Held(l) \subseteq Sent
      /\ \A f \in FP : Queued(f) \subseteq Sent
      /\ Judged \subseteq Sent /\ lost \subseteq Sent
  BY Located, PathOf DEF Flowing, TypeOK
<1>3. OnPath'
  BY <1>1 DEF Flowing, OnPath
<1>4. \A m \in Sent : (AheadOfLB(m) => AheadOfLB(m)') /\ (AheadOfFP(m) => AheadOfFP(m)')
  BY <1>1, <1>2 DEF AheadOfLB, AheadOfFP
<1>5. InOrder'
  BY <1>2, <1>4 DEF Flowing, InOrder
<1>6. NoneFollows(k)'
  BY <1>1, <1>2 DEF NoneFollows, flags
<1>7. \A m \in Sent : NoneFollows(m) => NoneFollows(m)'
  BY <1>1, <1>2 DEF NoneFollows, flags
<1>8. Refusals'
  BY <1>1, <1>2, <1>6, <1>7 DEF Flowing, Refusals
<1>9. Somewhere'
  BY <1>1, <1>2 DEF Flowing, Somewhere
<1> QED
  BY <1>3, <1>5, <1>8, <1>9 DEF Flowing

(* Balancer l gives packet k, its first, to a fast path that still takes it. *)
LEMMA FlowingPush ==
    ASSUME TypeOK, Flowing, capture' = capture, UNCHANGED flags, lost' = lost, Judged' = Judged,
           Sent' = Sent,
           NEW l \in LB, NEW k \in Held(l), NEW f \in FP, f = FpAt(k), ~fpClosed[f],
           Held(l) = Held(l)' \cup {k}, \A m \in Held(l)' : k < m,
           \A j \in LB : j # l => Held(j)' = Held(j),
           Queued(f)' = Queued(f) \cup {k}, \A g \in FP : g # f => Queued(g)' = Queued(g)
    PROVE  Flowing'
<1>1. \A m : LbAt(m)' = LbAt(m) /\ FpAt(m)' = FpAt(m)
  BY SamePath
<1>2. /\ Sent \subseteq Nat /\ \A m \in Sent : LbAt(m) \in LB /\ FpAt(m) \in FP
      /\ Judged \subseteq Sent /\ lost \subseteq Sent
      /\ \A g \in FP : Queued(g) \subseteq Sent
  BY Located DEF Flowing
<1>3. k \in Sent /\ LbAt(k) = l /\ k \in Nat
  BY <1>2 DEF Flowing, OnPath
<1>4. \A m \in Sent : FpAt(m) = f => LbAt(m) = l
  BY <1>3, Located DEF Flowing
<1>5. \A j \in LB : Held(j)' \subseteq Held(j)
  OBVIOUS
<1>6. OnPath'
  <2>1. \A j \in LB : \A m \in Held(j)' : m \in Sent /\ LbAt(m) = j
    BY <1>5 DEF Flowing, OnPath
  <2>2. \A g \in FP : \A m \in Queued(g)' : m \in Sent /\ FpAt(m) = g
    BY <1>3 DEF Flowing, OnPath
  <2> QED
    BY <1>1, <1>2, <2>1, <2>2 DEF OnPath
<1>7. \A m \in Sent : AheadOfLB(m) => AheadOfLB(m)'
  BY <1>1, <1>2, <1>5 DEF AheadOfLB
<1>8. AheadOfLB(k)'
  BY <1>1, <1>3 DEF AheadOfLB
<1>9. ASSUME NEW m \in Judged PROVE AheadOfFP(m)'
  <2> PICK g : g = FpAt(m)
    OBVIOUS
  <2>1. m \in Sent /\ g \in FP /\ AheadOfLB(m) /\ AheadOfFP(m)
    BY <1>2, <1>9 DEF Flowing, InOrder
  <2>2. g = f => m < k
    BY <1>4, <2>1 DEF AheadOfLB
  <2>3. g # f => Queued(g)' = Queued(g)
    BY <2>1
  <2> QED
    BY <1>1, <2>1, <2>2, <2>3 DEF AheadOfFP
<1>10. InOrder'
  <2>1. ASSUME NEW g \in FP, NEW m \in Queued(g)' PROVE AheadOfLB(m)'
    <3>1. m = k \/ m \in Queued(g)
      BY <2>1
    <3>2. m \in Queued(g) => m \in Sent /\ AheadOfLB(m)
      BY DEF Flowing, OnPath, InOrder
    <3> QED
      BY <1>7, <1>8, <3>1, <3>2
  <2>2. ASSUME NEW m \in Judged PROVE AheadOfLB(m)'
    BY <1>2, <1>7 DEF Flowing, InOrder
  <2> QED
    BY <1>9, <2>1, <2>2 DEF InOrder
<1>11. Refusals'
  <2>1. \A m \in lost : m \notin Held(LbAt(m))'
    BY <1>1, <1>2, <1>5 DEF Flowing, Refusals
  <2>2. ASSUME NEW m \in lost \ Judged PROVE NoneFollows(m)'
    <3> PICK a, g : a = LbAt(m) /\ g = FpAt(m)
      OBVIOUS
    <3>1. NoneFollows(m) /\ a \in LB /\ g \in FP /\ m \in Sent
      BY <1>2 DEF Flowing, Refusals
    <3>2. fpClosed' = fpClosed /\ lbClosed' = lbClosed
      BY DEF flags
    <3>3. Held(a)' \subseteq Held(a)
      BY <1>5, <3>1
    <3>4. CASE g # f
      <4>1. Queued(g)' = Queued(g)
        BY <3>1, <3>4
      <4> QED
        BY <1>1, <3>1, <3>2, <3>3, <4>1 DEF NoneFollows
    <3>5. CASE g = f
      <4>1. a = l /\ \A n \in Held(a) : n < m
        BY <1>4, <3>1, <3>5 DEF NoneFollows
      <4>2. k < m
        BY <4>1
      <4> QED
        BY <1>1, <3>1, <3>2, <3>3, <3>5, <4>2 DEF NoneFollows
    <3> QED
      BY <3>4, <3>5
  <2> QED
    BY <2>1, <2>2 DEF Refusals
<1>12. Somewhere'
  <2> SUFFICES ASSUME NEW m \in Sent
               PROVE  m \in Judged \/ m \in Queued(FpAt(m))' \/ m \in Held(LbAt(m))' \/ m \in lost
    BY <1>1 DEF Somewhere
  <2> PICK a, g : a = LbAt(m) /\ g = FpAt(m)
    OBVIOUS
  <2>1. a \in LB /\ g \in FP
    BY <1>2
  <2>2. m \in Judged \/ m \in Queued(g) \/ m \in Held(a) \/ m \in lost
    BY DEF Flowing, Somewhere
  <2>3. Held(a) \subseteq Held(a)' \cup {k} /\ Queued(g) \subseteq Queued(g)'
    BY <2>1
  <2>4. m = k => m \in Queued(g)'
    OBVIOUS
  <2> QED
    BY <1>1, <2>2, <2>3, <2>4
<1> QED
  BY <1>6, <1>10, <1>11, <1>12 DEF Flowing

(* Balancer l loses packet k, its first, to the closed queue of a fast path. *)
LEMMA FlowingLose ==
    ASSUME TypeOK, Flowing, capture' = capture, UNCHANGED flags, Judged' = Judged, Sent' = Sent,
           NEW l \in LB, NEW k \in Held(l), fpClosed[FpAt(k)], lost' = lost \cup {k},
           Held(l) = Held(l)' \cup {k}, \A m \in Held(l)' : k < m,
           \A j \in LB : j # l => Held(j)' = Held(j),
           \A f \in FP : Queued(f)' = Queued(f)
    PROVE  Flowing'
<1>1. \A m : LbAt(m)' = LbAt(m) /\ FpAt(m)' = FpAt(m)
  BY SamePath
<1>2. /\ Sent \subseteq Nat /\ \A m \in Sent : LbAt(m) \in LB /\ FpAt(m) \in FP
      /\ Judged \subseteq Sent /\ lost \subseteq Sent
      /\ \A g \in FP : Queued(g) \subseteq Sent
  BY Located DEF Flowing
<1>3. k \in Sent /\ LbAt(k) = l /\ k \in Nat
  BY <1>2 DEF Flowing, OnPath
<1>4. \A j \in LB : Held(j)' \subseteq Held(j)
  OBVIOUS
<1>5. OnPath'
  <2>1. \A j \in LB : \A m \in Held(j)' : m \in Sent /\ LbAt(m) = j
    BY <1>4 DEF Flowing, OnPath
  <2>2. \A g \in FP : \A m \in Queued(g)' : m \in Sent /\ FpAt(m) = g
    BY DEF Flowing, OnPath
  <2> QED
    BY <1>1, <1>2, <1>3, <2>1, <2>2 DEF OnPath
<1>6. \A m \in Sent : (AheadOfLB(m) => AheadOfLB(m)') /\ (AheadOfFP(m) => AheadOfFP(m)')
  BY <1>1, <1>2, <1>4 DEF AheadOfLB, AheadOfFP
<1>7. InOrder'
  BY <1>2, <1>6 DEF Flowing, InOrder
<1>8. NoneFollows(k)'
  <2>1. \A m \in Queued(FpAt(k)) : m < k
    <3> SUFFICES ASSUME NEW m \in Queued(FpAt(k)) PROVE m < k
      OBVIOUS
    <3>1. m \in Sent /\ FpAt(m) = FpAt(k) /\ AheadOfLB(m)
      BY <1>2, <1>3 DEF Flowing, OnPath, InOrder
    <3>2. LbAt(m) = l
      BY <1>3, <3>1, Located DEF Flowing
    <3> QED
      BY <3>1, <3>2 DEF AheadOfLB
  <2>2. FpAt(k) \in FP /\ fpClosed' = fpClosed
    BY <1>2, <1>3 DEF flags
  <2> QED
    BY <1>1, <2>1, <2>2 DEF NoneFollows
<1>9. \A m \in Sent : NoneFollows(m) => NoneFollows(m)'
  BY <1>1, <1>2, <1>4 DEF NoneFollows, flags
<1>10. \A m \in lost' : m \notin Held(LbAt(m))'
  BY <1>1, <1>2, <1>3, <1>4 DEF Flowing, Refusals
<1>11. Refusals'
  BY <1>1, <1>2, <1>8, <1>9, <1>10 DEF Flowing, Refusals
<1>12. Somewhere'
  <2> SUFFICES ASSUME NEW m \in Sent
               PROVE  m \in Judged \/ m \in Queued(FpAt(m))' \/ m \in Held(LbAt(m))' \/ m \in lost'
    BY <1>1 DEF Somewhere
  <2> PICK a, g : a = LbAt(m) /\ g = FpAt(m)
    OBVIOUS
  <2>1. a \in LB /\ g \in FP
    BY <1>2
  <2>2. m \in Judged \/ m \in Queued(g) \/ m \in Held(a) \/ m \in lost
    BY DEF Flowing, Somewhere
  <2>3. Held(a) \subseteq Held(a)' \cup {k} /\ Queued(g) = Queued(g)'
    BY <2>1
  <2> QED
    BY <1>1, <2>2, <2>3
<1> QED
  BY <1>5, <1>7, <1>11, <1>12 DEF Flowing

(* Fast path f judges packet k, its first. *)
LEMMA FlowingJudge ==
    ASSUME TypeOK, Flowing, capture' = capture, UNCHANGED flags, lost' = lost, Sent' = Sent,
           \A j \in LB : Held(j)' = Held(j),
           NEW f \in FP, NEW k \in Queued(f), Judged' = Judged \cup {k},
           Queued(f) = Queued(f)' \cup {k}, \A m \in Queued(f)' : k < m,
           \A g \in FP : g # f => Queued(g)' = Queued(g)
    PROVE  Flowing'
<1>1. \A m : LbAt(m)' = LbAt(m) /\ FpAt(m)' = FpAt(m)
  BY SamePath
<1>2. /\ Sent \subseteq Nat /\ \A m \in Sent : LbAt(m) \in LB /\ FpAt(m) \in FP
      /\ Judged \subseteq Sent /\ lost \subseteq Sent
  BY Located DEF Flowing
<1>3. k \in Sent /\ FpAt(k) = f /\ AheadOfLB(k)
  BY DEF Flowing, OnPath, InOrder
<1>4. \A g \in FP : Queued(g)' \subseteq Queued(g)
  OBVIOUS
<1>5. OnPath'
  <2>1. \A j \in LB : \A m \in Held(j)' : m \in Sent /\ LbAt(m) = j
    BY DEF Flowing, OnPath
  <2>2. \A g \in FP : \A m \in Queued(g)' : m \in Sent /\ FpAt(m) = g
    BY <1>4 DEF Flowing, OnPath
  <2> QED
    BY <1>1, <1>2, <1>3, <2>1, <2>2 DEF OnPath
<1>6. \A m \in Sent : (AheadOfLB(m) => AheadOfLB(m)') /\ (AheadOfFP(m) => AheadOfFP(m)')
  BY <1>1, <1>2, <1>4 DEF AheadOfLB, AheadOfFP
<1>7. AheadOfFP(k)'
  BY <1>1, <1>3 DEF AheadOfFP
<1>8. InOrder'
  <2>1. ASSUME NEW g \in FP, NEW m \in Queued(g)' PROVE AheadOfLB(m)'
    <3>1. m \in Queued(g) /\ m \in Sent
      BY <1>4, <2>1 DEF Flowing, OnPath
    <3> QED
      BY <1>6, <3>1 DEF Flowing, InOrder
  <2>2. \A m \in Judged : AheadOfLB(m)' /\ AheadOfFP(m)'
    BY <1>2, <1>6 DEF Flowing, InOrder
  <2> QED
    BY <1>3, <1>6, <1>7, <2>1, <2>2 DEF InOrder
<1>9. \A m \in Sent : NoneFollows(m) => NoneFollows(m)'
  BY <1>1, <1>2, <1>4 DEF NoneFollows, flags
<1>10. Refusals'
  BY <1>1, <1>2, <1>9 DEF Flowing, Refusals
<1>11. Somewhere'
  <2> SUFFICES ASSUME NEW m \in Sent
               PROVE  m \in Judged' \/ m \in Queued(FpAt(m))' \/ m \in Held(LbAt(m))' \/ m \in lost
    BY <1>1 DEF Somewhere
  <2> PICK a, g : a = LbAt(m) /\ g = FpAt(m)
    OBVIOUS
  <2>1. a \in LB /\ g \in FP
    BY <1>2
  <2>2. m \in Judged \/ m \in Queued(g) \/ m \in Held(a) \/ m \in lost
    BY DEF Flowing, Somewhere
  <2>3. Held(a)' = Held(a) /\ Queued(g) \subseteq Queued(g)' \cup {k}
    BY <2>1
  <2> QED
    BY <1>1, <2>2, <2>3
<1> QED
  BY <1>5, <1>8, <1>10, <1>11 DEF Flowing

LEMMA Stores ==
    ASSUME TypeOK
    PROVE  /\ lbQ \in [LB -> Seq(Packet)] /\ fpQ \in [FP -> Seq(Packet)] /\ outQ \in Seq(Packet)
           /\ lbJob \in [LB -> Packet \cup {NoPacket}] /\ fpJob \in [FP -> Packet \cup {NoPacket}]
           /\ \A l \in LB : lbQ[l] \in Seq(Nat) /\ In(lbQ[l]) \subseteq Packet
           /\ \A f \in FP : fpQ[f] \in Seq(Nat) /\ In(fpQ[f]) \subseteq Packet
           /\ outQ \in Seq(Nat) /\ In(outQ) \subseteq Packet
           /\ fpPc \in [FP -> {"off", "check", "pop", "handle", "push"}]
           /\ NoPacket \notin Packet /\ Packet \subseteq Nat
<1>1. /\ lbQ \in [LB -> Seq(Packet)] /\ fpQ \in [FP -> Seq(Packet)] /\ outQ \in Seq(Packet)
      /\ lbJob \in [LB -> Packet \cup {NoPacket}] /\ fpJob \in [FP -> Packet \cup {NoPacket}]
      /\ fpPc \in [FP -> {"off", "check", "pop", "handle", "push"}]
  BY DEF TypeOK, QueueTypeOK, LbTypeOK, FpTypeOK
<1>2. \A l \in LB : lbQ[l] \in Seq(Nat) /\ In(lbQ[l]) \subseteq Packet
  BY <1>1, Elements
<1>3. \A f \in FP : fpQ[f] \in Seq(Nat) /\ In(fpQ[f]) \subseteq Packet
  BY <1>1, Elements
<1>4. outQ \in Seq(Nat) /\ In(outQ) \subseteq Packet
  BY <1>1, Elements
<1>5. NoPacket \notin Packet /\ Packet \subseteq Nat
  BY Numbers DEF TypeOK
<1> QED
  BY <1>1, <1>2, <1>3, <1>4, <1>5

LEMMA PipelineSame ==
    ASSUME TypeOK, Pipeline, \A k \in Read : capture'[k] = capture[k], Sent' = Sent,
           UNCHANGED <<lbQ, lbJob, fpQ>>, \A f \in FP : InHand(f)' = InHand(f),
           UNCHANGED <<passed, dropped>>, lost \subseteq lost', lost' \subseteq lost \cup Judged,
           \A l \in LB : lbClosed[l] => lbClosed'[l], \A f \in FP : fpClosed[f] => fpClosed'[f]
    PROVE  Pipeline'
<1>1. (\A l \in LB : Held(l)' = Held(l)) /\ (\A f \in FP : Queued(f)' = Queued(f)) /\ Judged' = Judged
  BY DEF Held, Queued, Judged
<1>2. InLine'
  BY DEF Pipeline, InLine
<1>3. Flowing'
  BY <1>1, FlowingSame DEF Pipeline
<1> QED
  BY <1>2, <1>3 DEF Pipeline

LEMMA PipelineReaderPush ==
    ASSUME TypeOK, JobsRead, Hands, Pipeline, ReaderPush
    PROVE  Pipeline'
<1> PICK k : k = readerJob
  OBVIOUS
<1> PICK l : l = LbAt(k)
  OBVIOUS
<1>1. /\ capture' = capture /\ UNCHANGED <<lbJob, fpPc, fpJob, fpQ, passed, dropped, flags>>
      /\ k = Len(capture) /\ k \in Read /\ k \in Nat /\ k # NoPacket /\ readerJob' = NoPacket
  BY Numbers DEF ReaderPush, lbVars, fpVars, Hands, JobsRead, TypeOK, Read
<1>2. /\ Sent' = Sent \cup {k} /\ k \notin Sent /\ \A m \in Sent : m < k
  BY <1>1, Numbers DEF Sent, Read, TypeOK
<1>3. l \in LB
  BY <1>1, PathOf DEF TypeOK
<1>4. (\A f \in FP : InHand(f)' = InHand(f) /\ Queued(f)' = Queued(f)) /\ Judged' = Judged
  BY <1>1 DEF InHand, Queued, Judged
<1>5. CASE lbClosed[l] /\ lost' = lost \cup {k} /\ lbQ' = lbQ
  <2>1. \A j \in LB : Held(j)' = Held(j)
    BY <1>1, <1>5 DEF Held
  <2>2. Flowing'
    BY <1>1, <1>2, <1>4, <1>5, <2>1, FlowingRefuse DEF Pipeline
  <2>3. InLine'
    BY <1>1, <1>4, <1>5 DEF Pipeline, InLine
  <2> QED
    BY <2>2, <2>3 DEF Pipeline
<1>6. CASE ~lbClosed[l] /\ lost' = lost /\ lbQ' = [lbQ EXCEPT ![l] = Append(lbQ[l], k)]
  <2>1. lbQ \in [LB -> Seq(Packet)] /\ lbQ[l] \in Seq(Packet) /\ lbQ[l] \in Seq(Nat)
    BY <1>3, Stores
  <2>2. In(Append(lbQ[l], k)) = In(lbQ[l]) \cup {k}
    BY <2>1, InAppend
  <2>3. lbQ'[l] = Append(lbQ[l], k) /\ \A j \in LB : j # l => lbQ'[j] = lbQ[j]
    BY <1>3, <1>6, <2>1
  <2>4. Held(l)' = Held(l) \cup {k}
    BY <1>1, <2>2, <2>3 DEF Held
  <2>5. \A j \in LB : j # l => Held(j)' = Held(j)
    BY <1>1, <2>3 DEF Held
  <2>6. Flowing'
    BY <1>1, <1>2, <1>3, <1>4, <1>6, <2>4, <2>5, FlowingSend DEF Pipeline
  <2>7. \A m \in Held(l) : m < k
    BY <1>2, <1>3, Located DEF Pipeline, Flowing
  <2>8. Increasing(Append(lbQ[l], k))
    BY <1>1, <1>3, <2>1, <2>7, IncreasingAppend DEF Pipeline, InLine, Held
  <2>9. lbJob[l] # NoPacket => lbJob[l] < k
    BY <2>7 DEF Held
  <2>10. InLine'
    <3>1. ASSUME NEW j \in LB
          PROVE  /\ Increasing(lbQ'[j])
                 /\ lbJob[j] # NoPacket => \A m \in In(lbQ'[j]) : lbJob[j] < m
      <4>1. CASE j = l
        BY <2>2, <2>3, <2>8, <2>9, <4>1 DEF Pipeline, InLine
      <4>2. CASE j # l
        BY <2>3, <4>2 DEF Pipeline, InLine
      <4> QED
        BY <4>1, <4>2
    <3> QED
      BY <1>1, <1>4, <3>1 DEF Pipeline, InLine
  <2> QED
    BY <2>6, <2>10 DEF Pipeline
<1> QED
  BY <1>5, <1>6 DEF ReaderPush, LbAt

LEMMA PipelineLbPop ==
    ASSUME TypeOK, Hands, Pipeline, NEW l \in LB, LbPop(l)
    PROVE  Pipeline'
<1>1. /\ capture' = capture /\ Sent' = Sent /\ lbJob[l] = NoPacket
      /\ UNCHANGED <<fpQ, fpPc, fpJob, passed, dropped, lost, flags>>
  BY DEF LbPop, readerVars, fpVars, Sent, Read, Hands
<1>2. (\A f \in FP : InHand(f)' = InHand(f) /\ Queued(f)' = Queued(f)) /\ Judged' = Judged
  BY <1>1 DEF InHand, Queued, Judged
<1>3. CASE UNCHANGED <<lbQ, lbJob>>
  BY <1>1, <1>2, <1>3, PipelineSame DEF flags
<1>4. CASE lbQ[l] # <<>> /\ lbJob' = [lbJob EXCEPT ![l] = Head(lbQ[l])] /\ lbQ' = [lbQ EXCEPT ![l] = Tail(lbQ[l])]
  <2> PICK k : k = Head(lbQ[l])
    OBVIOUS
  <2>1. /\ lbQ \in [LB -> Seq(Packet)] /\ lbQ[l] \in Seq(Packet) /\ lbQ[l] \in Seq(Nat)
        /\ lbJob \in [LB -> Packet \cup {NoPacket}]
    BY Stores
  <2>2. In(lbQ[l]) = {k} \cup In(Tail(lbQ[l])) /\ k # NoPacket
    BY <1>4, <2>1, InTail, TakeOne, Stores
  <2>3. /\ lbQ'[l] = Tail(lbQ[l]) /\ \A j \in LB : j # l => lbQ'[j] = lbQ[j]
        /\ lbJob'[l] = k /\ \A j \in LB : j # l => lbJob'[j] = lbJob[j]
    BY <1>4, <2>1
  <2>4. \A j \in LB : Held(j)' = Held(j)
    <3>1. Held(l)' = Held(l)
      BY <1>1, <2>2, <2>3 DEF Held
    <3>2. \A j \in LB : j # l => Held(j)' = Held(j)
      BY <2>3 DEF Held
    <3> QED
      BY <3>1, <3>2
  <2>5. Flowing'
    BY <1>1, <1>2, <2>4, FlowingSame DEF Pipeline, flags
  <2>6. Increasing(Tail(lbQ[l])) /\ \A m \in In(Tail(lbQ[l])) : k < m
    BY <1>4, <2>1, IncreasingTail DEF Pipeline, InLine
  <2>7. InLine'
    <3>1. ASSUME NEW j \in LB
          PROVE  /\ Increasing(lbQ'[j])
                 /\ lbJob'[j] # NoPacket => \A m \in In(lbQ'[j]) : lbJob'[j] < m
      <4>1. CASE j = l
        BY <2>3, <2>6, <4>1
      <4>2. CASE j # l
        BY <2>3, <4>2 DEF Pipeline, InLine
      <4> QED
        BY <4>1, <4>2
    <3> QED
      BY <1>1, <1>2, <3>1 DEF Pipeline, InLine
  <2> QED
    BY <2>5, <2>7 DEF Pipeline
<1> QED
  BY <1>3, <1>4 DEF LbPop

LEMMA PipelineLbPush ==
    ASSUME TypeOK, Hands, Pipeline, NEW l \in LB, LbPush(l)
    PROVE  Pipeline'
<1> PICK k : k = lbJob[l]
  OBVIOUS
<1> PICK f : f = FpAt(k)
  OBVIOUS
<1>1. /\ capture' = capture /\ Sent' = Sent
      /\ UNCHANGED <<lbQ, fpPc, fpJob, passed, dropped, flags>>
      /\ lbJob' = [lbJob EXCEPT ![l] = NoPacket]
  BY DEF LbPush, readerVars, fpVars, Sent, Read
<1>2. lbJob \in [LB -> Packet \cup {NoPacket}] /\ fpQ \in [FP -> Seq(Packet)] /\ k # NoPacket
  BY Stores DEF LbPush, TypeOK, LbTypeOK
<1>3. /\ Held(l) = Held(l)' \cup {k} /\ Held(l)' = In(lbQ[l]) /\ k \in Held(l)
      /\ \A j \in LB : j # l => Held(j)' = Held(j)
  BY <1>1, <1>2 DEF Held
<1>4. \A m \in In(lbQ[l]) : k < m
  BY <1>2 DEF Pipeline, InLine
<1>5. k \in Sent /\ LbAt(k) = l /\ f \in FP /\ f = FpFor(l, capture[k]) /\ k \in Nat /\ Sent \subseteq Nat
  BY <1>3, Located DEF Pipeline, Flowing, OnPath, FpAt
<1>6. (\A g \in FP : InHand(g)' = InHand(g)) /\ Judged' = Judged
  BY <1>1 DEF InHand, Judged
<1>7. CASE fpClosed[f] /\ lost' = lost \cup {k} /\ fpQ' = fpQ
  <2>1. \A g \in FP : Queued(g)' = Queued(g)
    BY <1>6, <1>7 DEF Queued
  <2>2. Flowing'
    BY <1>1, <1>3, <1>4, <1>6, <1>7, <2>1, FlowingLose DEF Pipeline
  <2>3. InLine'
    <3>1. \A j \in LB : lbJob'[j] # NoPacket => lbJob'[j] = lbJob[j]
      BY <1>1, <1>2
    <3> QED
      BY <1>1, <1>6, <1>7, <3>1 DEF Pipeline, InLine
  <2> QED
    BY <2>2, <2>3 DEF Pipeline
<1>8. CASE ~fpClosed[f] /\ lost' = lost /\ fpQ' = [fpQ EXCEPT ![f] = Append(fpQ[f], k)]
  <2>1. fpQ[f] \in Seq(Packet) /\ fpQ[f] \in Seq(Nat)
    BY <1>5, Stores
  <2>2. In(Append(fpQ[f], k)) = In(fpQ[f]) \cup {k}
    BY <2>1, InAppend
  <2>3. fpQ'[f] = Append(fpQ[f], k) /\ \A g \in FP : g # f => fpQ'[g] = fpQ[g]
    BY <1>2, <1>5, <1>8
  <2>4. Queued(f)' = Queued(f) \cup {k}
    BY <1>5, <1>6, <2>2, <2>3 DEF Queued
  <2>5. \A g \in FP : g # f => Queued(g)' = Queued(g)
    BY <1>6, <2>3 DEF Queued
  <2>6. Flowing'
    <3>1. Flowing /\ k \in Held(l) /\ \A m \in Held(l)' : k < m
      BY <1>3, <1>4 DEF Pipeline
    <3>2. \A j \in LB : j # l => Held(j)' = Held(j)
      BY <1>3
    <3>3. capture' = capture /\ Sent' = Sent /\ UNCHANGED flags /\ Judged' = Judged
      BY <1>1, <1>6
    <3>4. Held(l) = Held(l)' \cup {k}
      BY <1>3
    <3> QED
      BY <1>5, <1>8, <2>4, <2>5, <3>1, <3>2, <3>3, <3>4, FlowingPush
  <2>7. \A m \in Queued(f) : m < k
    <3> SUFFICES ASSUME NEW m \in Queued(f) PROVE m < k
      OBVIOUS
    <3>1. m \in Sent /\ FpAt(m) = f /\ AheadOfLB(m)
      BY <1>5 DEF Pipeline, Flowing, OnPath, InOrder
    <3>2. LbAt(m) = l
      BY <1>5, <3>1, Located DEF Pipeline, Flowing
    <3> QED
      BY <1>3, <3>1, <3>2 DEF AheadOfLB
  <2>8. Increasing(Append(fpQ[f], k))
    BY <1>5, <2>1, <2>7, IncreasingAppend DEF Pipeline, InLine, Queued
  <2>9. InLine'
    <3>1. ASSUME NEW g \in FP
          PROVE  Increasing(fpQ'[g]) /\ \A m \in InHand(g), n \in In(fpQ'[g]) : m < n
      <4>1. CASE g = f
        BY <2>2, <2>3, <2>7, <2>8, <4>1 DEF Pipeline, InLine, Queued
      <4>2. CASE g # f
        BY <2>3, <4>2 DEF Pipeline, InLine
      <4> QED
        BY <4>1, <4>2
    <3>2. \A j \in LB : lbJob'[j] # NoPacket => lbJob'[j] = lbJob[j]
      BY <1>1, <1>2
    <3> QED
      BY <1>1, <1>6, <3>1, <3>2 DEF Pipeline, InLine
  <2> QED
    BY <2>6, <2>9 DEF Pipeline
<1> QED
  BY <1>5, <1>7, <1>8 DEF LbPush

LEMMA PipelineFpPop ==
    ASSUME TypeOK, Hands, Pipeline, NEW f \in FP, FpPop(f)
    PROVE  Pipeline'
<1>1. /\ capture' = capture /\ Sent' = Sent /\ InHand(f) = {}
      /\ UNCHANGED <<lbQ, lbJob, passed, dropped, lost, flags>>
  BY DEF FpPop, readerVars, lbVars, Sent, Read, InHand
<1>2. (\A l \in LB : Held(l)' = Held(l)) /\ Judged' = Judged
  BY <1>1 DEF Held, Judged
<1>3. fpPc \in [FP -> {"off", "check", "pop", "handle", "push"}] /\ fpJob \in [FP -> Packet \cup {NoPacket}]
  BY Stores
<1>4. CASE UNCHANGED <<fpQ, fpJob>> /\ fpPc' = [fpPc EXCEPT ![f] = "check"]
  <2>1. \A g \in FP : InHand(g)' = InHand(g)
    BY <1>1, <1>3, <1>4 DEF InHand, FpPop
  <2> QED
    BY <1>1, <1>4, <2>1, PipelineSame DEF flags
<1>5. CASE /\ fpQ[f] # <<>> /\ fpJob' = [fpJob EXCEPT ![f] = Head(fpQ[f])]
           /\ fpQ' = [fpQ EXCEPT ![f] = Tail(fpQ[f])] /\ fpPc' = [fpPc EXCEPT ![f] = "handle"]
  <2> PICK k : k = Head(fpQ[f])
    OBVIOUS
  <2>1. fpQ \in [FP -> Seq(Packet)] /\ fpQ[f] \in Seq(Packet) /\ fpQ[f] \in Seq(Nat)
    BY Stores
  <2>2. In(fpQ[f]) = {k} \cup In(Tail(fpQ[f]))
    BY <1>5, <2>1, InTail
  <2>3. fpQ'[f] = Tail(fpQ[f]) /\ \A g \in FP : g # f => fpQ'[g] = fpQ[g]
    BY <1>5, <2>1
  <2>4. InHand(f)' = {k} /\ \A g \in FP : g # f => InHand(g)' = InHand(g)
    BY <1>3, <1>5 DEF InHand
  <2>5. \A g \in FP : Queued(g)' = Queued(g)
    <3>1. Queued(f)' = Queued(f)
      BY <1>1, <2>2, <2>3, <2>4 DEF Queued
    <3>2. \A g \in FP : g # f => Queued(g)' = Queued(g)
      BY <2>3, <2>4 DEF Queued
    <3> QED
      BY <3>1, <3>2
  <2>6. Flowing'
    BY <1>1, <1>2, <2>5, FlowingSame DEF Pipeline, flags
  <2>7. Increasing(Tail(fpQ[f])) /\ \A m \in In(Tail(fpQ[f])) : k < m
    BY <1>5, <2>1, IncreasingTail DEF Pipeline, InLine
  <2>8. InLine'
    <3>1. ASSUME NEW g \in FP
          PROVE  Increasing(fpQ'[g]) /\ \A m \in InHand(g)', n \in In(fpQ'[g]) : m < n
      <4>1. CASE g = f
        BY <2>3, <2>4, <2>7, <4>1
      <4>2. CASE g # f
        BY <2>3, <2>4, <4>2 DEF Pipeline, InLine
      <4> QED
        BY <4>1, <4>2
    <3> QED
      BY <1>1, <3>1 DEF Pipeline, InLine
  <2> QED
    BY <2>6, <2>8 DEF Pipeline
<1> QED
  BY <1>4, <1>5 DEF FpPop

(* What a judgement is in these terms. *)
LEMMA Judgement ==
    ASSUME TypeOK, Pipeline, NEW f \in FP, FpDrop(f) \/ FpForward(f), NEW k, k = fpJob[f]
    PROVE  /\ k \in Queued(f) /\ k \in Sent /\ FpAt(k) = f /\ k \notin Judged /\ k \notin lost
           /\ Judged' = Judged \cup {k} /\ InHand(f)' = {}
           /\ Queued(f) = Queued(f)' \cup {k} /\ \A m \in Queued(f)' : k < m
           /\ \A g \in FP : g # f => InHand(g)' = InHand(g) /\ Queued(g)' = Queued(g)
<1>1. fpPc[f] = "handle" /\ fpQ' = fpQ
  BY DEF FpDrop, FpForward
<1>2. InHand(f) = {k} /\ k \in Queued(f)
  BY <1>1 DEF InHand, Queued
<1>3. k \in Sent /\ FpAt(k) = f /\ k \in Nat
  BY <1>2, Located DEF Pipeline, Flowing, OnPath
<1>4. k \notin Judged
  <2> SUFFICES ASSUME k \in Judged PROVE FALSE
    OBVIOUS
  <2>1. k < k
    BY <1>2, <1>3 DEF Pipeline, Flowing, InOrder, AheadOfFP
  <2> QED
    BY <1>3, <2>1
<1>5. k \notin lost
  <2> SUFFICES ASSUME k \in lost PROVE FALSE
    OBVIOUS
  <2>1. k < k
    BY <1>2, <1>3, <1>4 DEF Pipeline, Flowing, Refusals, NoneFollows
  <2> QED
    BY <1>3, <2>1
<1>6. Judged' = Judged \cup {k}
  BY DEF FpDrop, FpForward, Judged
<1>7. fpPc \in [FP -> {"off", "check", "pop", "handle", "push"}] /\ fpJob \in [FP -> Packet \cup {NoPacket}]
  BY Stores
<1>8. /\ fpPc'[f] # "handle"
      /\ \A g \in FP : g # f => fpPc'[g] = fpPc[g] /\ fpJob'[g] = fpJob[g]
  BY <1>7 DEF FpDrop, FpForward
<1>9. InHand(f)' = {} /\ \A g \in FP : g # f => InHand(g)' = InHand(g)
  BY <1>8 DEF InHand
<1>10. Queued(f)' = In(fpQ[f]) /\ \A g \in FP : g # f => Queued(g)' = Queued(g)
  BY <1>1, <1>9 DEF Queued
<1>11. Queued(f) = In(fpQ[f]) \cup {k} /\ \A m \in In(fpQ[f]) : k < m
  BY <1>2 DEF Queued, Pipeline, InLine
<1> QED
  BY <1>2, <1>3, <1>4, <1>5, <1>6, <1>9, <1>10, <1>11

LEMMA PipelineFpJudge ==
    ASSUME TypeOK, Pipeline, NEW f \in FP, FpDrop(f) \/ FpForward(f)
    PROVE  Pipeline'
<1> PICK k : k = fpJob[f]
  OBVIOUS
<1>1. /\ capture' = capture /\ Sent' = Sent
      /\ UNCHANGED <<lbQ, lbJob, fpQ, lost, flags>>
  BY DEF FpDrop, FpForward, readerVars, lbVars, Sent, Read
<1>2. \A l \in LB : Held(l)' = Held(l)
  BY <1>1 DEF Held
<1>3. /\ k \in Queued(f) /\ Judged' = Judged \cup {k} /\ InHand(f)' = {}
      /\ Queued(f) = Queued(f)' \cup {k} /\ \A m \in Queued(f)' : k < m
  BY Judgement
<1>4. \A g \in FP : g # f => InHand(g)' = InHand(g) /\ Queued(g)' = Queued(g)
  BY Judgement
<1>5. Flowing'
  BY <1>1, <1>2, <1>3, <1>4, FlowingJudge DEF Pipeline
<1>6. InLine'
  <2>1. ASSUME NEW g \in FP PROVE InHand(g)' \subseteq InHand(g)
    BY <1>3, <1>4
  <2> QED
    BY <1>1, <2>1 DEF Pipeline, InLine
<1> QED
  BY <1>5, <1>6 DEF Pipeline

LEMMA PipelineStep ==
    TypeOK /\ JobsRead /\ Gone /\ Hands /\ Pipeline /\ Apart /\ [Next]_vars => Pipeline'
<1> SUFFICES ASSUME TypeOK, JobsRead, Gone, Hands, Pipeline, Apart, [Next]_vars PROVE Pipeline'
  OBVIOUS
<1>0. \A f \in FP : fpPc' = fpPc /\ fpJob' = fpJob => InHand(f)' = InHand(f)
  BY DEF InHand
<1>1. ASSUME UNCHANGED <<readerVars, fpVars, flags, lbQ, lbJob, fpQ, lost>> PROVE Pipeline'
  BY <1>0, <1>1, PipelineSame DEF readerVars, fpVars, flags, Sent, Read
<1>2. ASSUME UNCHANGED <<capture, readerJob, lbQ, lbJob, fpQ, passed, dropped, lost>>,
             \A f \in FP : InHand(f)' = InHand(f),
             \A l \in LB : lbClosed[l] => lbClosed'[l], \A f \in FP : fpClosed[f] => fpClosed'[f]
      PROVE  Pipeline'
  BY <1>2, PipelineSame DEF Sent, Read
<1>3. CASE ProcessFile
  <2>1. \A f \in FP : fpPc[f] = "off" /\ fpPc'[f] = "check"
    BY <1>3 DEF ProcessFile, Gone
  <2>2. \A f \in FP : InHand(f)' = InHand(f)
    BY <2>1 DEF InHand
  <2> QED
    BY <1>2, <1>3, <2>2 DEF ProcessFile
<1>4. CASE SignalLB \/ SignalFP \/ CloseOutput
  <2>1. (\A l \in LB : lbClosed[l] => lbClosed'[l]) /\ (\A f \in FP : fpClosed[f] => fpClosed'[f])
    BY <1>4 DEF SignalLB, SignalFP, CloseOutput, TypeOK, FlagTypeOK
  <2>2. UNCHANGED <<readerVars, fpVars, lbQ, lbJob, fpQ, lost>>
    BY <1>4 DEF SignalLB, SignalFP, CloseOutput, lbVars
  <2> QED
    BY <1>0, <1>2, <2>1, <2>2 DEF readerVars, fpVars
<1>5. CASE JoinReader \/ Stop \/ JoinLB \/ JoinFP \/ JoinOutput
  BY <1>1, <1>5 DEF JoinReader, Stop, JoinLB, JoinFP, JoinOutput, lbVars
<1>6. CASE ReaderPush
  BY <1>6, PipelineReaderPush
<1>7. ASSUME NEW fl \in Flow, ReadPacket(fl) PROVE Pipeline'
  <2>1. Len(capture') = Len(capture) + 1 /\ Len(capture) \in Nat /\ \A k \in Read : capture'[k] = capture[k]
    BY <1>7 DEF ReadPacket, TypeOK, ReaderTypeOK, Read
  <2>2. readerJob = NoPacket /\ readerJob' = Len(capture) + 1
    BY <1>7, <2>1 DEF ReadPacket, Hands
  <2>3. Sent' = Sent
    BY <2>1, <2>2 DEF Sent, Read, NoPacket
  <2>4. UNCHANGED <<fpVars, flags, lbQ, lbJob, fpQ, lost>>
    BY <1>7 DEF ReadPacket, lbVars
  <2> QED
    BY <1>0, <2>1, <2>3, <2>4, PipelineSame DEF fpVars, flags
<1>8. CASE OpenInput \/ WriteHeader \/ EndOfCapture
  <2>1. UNCHANGED <<capture, readerJob, fpVars, flags, lbQ, lbJob, fpQ, lost>>
    BY <1>8 DEF OpenInput, WriteHeader, EndOfCapture, lbVars
  <2> QED
    BY <1>0, <1>2, <2>1 DEF fpVars, flags
<1>9. ASSUME NEW l \in LB, LbPop(l) PROVE Pipeline'
  BY <1>9, PipelineLbPop
<1>10. ASSUME NEW l \in LB, LbPush(l) PROVE Pipeline'
  BY <1>10, PipelineLbPush
<1>11. ASSUME NEW l \in LB, LbCheck(l) \/ LbCrash(l) PROVE Pipeline'
  BY <1>1, <1>11 DEF LbCheck, LbCrash
<1>12. ASSUME NEW f \in FP, FpPop(f) PROVE Pipeline'
  BY <1>12, PipelineFpPop
<1>13. ASSUME NEW f \in FP, FpDrop(f) \/ FpForward(f) PROVE Pipeline'
  BY <1>13, PipelineFpJudge
<1>14. ASSUME NEW f \in FP, FpCheck(f) PROVE Pipeline'
  <2>1. \A g \in FP : InHand(g)' = InHand(g)
    BY <1>14, Stores DEF FpCheck, InHand
  <2> QED
    BY <1>2, <1>14, <2>1 DEF FpCheck, readerVars, lbVars, flags
<1>15. ASSUME NEW f \in FP, FpPush(f) PROVE Pipeline'
  <2>1. \A g \in FP : InHand(g)' = InHand(g)
    BY <1>15, Stores DEF FpPush, InHand
  <2>2. /\ capture' = capture /\ Sent' = Sent
        /\ UNCHANGED <<lbQ, lbJob, fpQ, passed, dropped, flags>>
    BY <1>15 DEF FpPush, readerVars, lbVars, Sent, Read
  <2>3. lost \subseteq lost' /\ lost' \subseteq lost \cup Judged
    <3>1. fpJob[f] \in Outgoing(f)
      BY <1>15 DEF FpPush, Outgoing
    <3>2. fpJob[f] \in Judged
      BY <3>1 DEF Apart, Judged
    <3>3. lost' = lost \/ lost' = lost \cup {fpJob[f]}
      BY <1>15 DEF FpPush
    <3> QED
      BY <3>2, <3>3
  <2> QED
    BY <2>1, <2>2, <2>3, PipelineSame DEF flags
<1>16. CASE OutputThread
  BY <1>1, <1>16 DEF OutputThread, OutCheck, OutPop, lbVars
<1>17. CASE UNCHANGED vars
  BY <1>1, <1>17 DEF vars, lbVars
<1> QED
  BY <1>3, <1>4, <1>5, <1>6, <1>7, <1>8, <1>9, <1>10, <1>11, <1>12, <1>13, <1>14, <1>15, <1>16, <1>17
     DEF Next, Main, Reader, LoadBalancer, FastPath

LEMMA InitPipeline == Init => Hands /\ Pipeline /\ Delivery /\ Silent
<1> SUFFICES ASSUME Init PROVE Hands /\ Pipeline /\ Delivery /\ Silent
  OBVIOUS
<1>1. In(<<>>) = {} /\ Increasing(<<>>) /\ InOrderByFP(<<>>)
  BY DEF In, Increasing, InOrderByFP
<1>2. /\ \A l \in LB : lbQ[l] = <<>> /\ lbJob[l] = NoPacket
      /\ \A f \in FP : fpQ[f] = <<>> /\ fpPc[f] = "off" /\ fpJob[f] = NoPacket
      /\ outQ = <<>> /\ passed = {} /\ dropped = {} /\ written = {} /\ lost = {}
      /\ capture = <<>> /\ quietStop = FALSE /\ readerPc = "off" /\ readerJob = NoPacket
  BY DEF Init
<1>3. /\ \A l \in LB : Held(l) = {}
      /\ \A f \in FP : InHand(f) = {} /\ Queued(f) = {} /\ Outgoing(f) = {}
      /\ Judged = {} /\ Sent = {} /\ Out = {}
  BY <1>1, <1>2 DEF Held, InHand, Queued, Outgoing, Judged, Sent, Read, Out
<1>4. Hands
  BY <1>2 DEF Hands
<1>5. Pipeline
  BY <1>1, <1>2, <1>3 DEF Pipeline, Flowing, OnPath, InLine, InOrder, Refusals, Somewhere
<1>6. Delivery
  BY <1>1, <1>2, <1>3 DEF Delivery, Apart, OutInOrder, Delivered
<1> QED
  BY <1>2, <1>4, <1>5, <1>6 DEF Silent

-----------------------------------------------------------------------------
(* Proof of Delivery                                                         *)

LEMMA ByFPTail ==
    ASSUME NEW q \in Seq(Nat), q # <<>>, InOrderByFP(q)
    PROVE  /\ InOrderByFP(Tail(q))
           /\ \A m \in In(Tail(q)) : FpAt(Head(q)) = FpAt(m) => Head(q) < m
<1>1. /\ Len(q) \in Nat \ {0} /\ DOMAIN q = 1..Len(q) /\ DOMAIN Tail(q) = 1..(Len(q) - 1)
      /\ \A i \in 1..(Len(q) - 1) : Tail(q)[i] = q[i + 1]
      /\ Head(q) = q[1]
  OBVIOUS
<1>2. InOrderByFP(Tail(q))
  <2> SUFFICES ASSUME NEW i \in 1..(Len(q) - 1), NEW j \in 1..(Len(q) - 1), i < j,
                      FpAt(Tail(q)[i]) = FpAt(Tail(q)[j])
               PROVE  Tail(q)[i] < Tail(q)[j]
    BY <1>1 DEF InOrderByFP
  <2>1. i + 1 \in 1..Len(q) /\ j + 1 \in 1..Len(q) /\ i + 1 < j + 1
    BY <1>1
  <2>2. Tail(q)[i] = q[i + 1] /\ Tail(q)[j] = q[j + 1]
    BY <1>1
  <2> QED
    BY <1>1, <2>1, <2>2 DEF InOrderByFP
<1>3. ASSUME NEW i \in 1..(Len(q) - 1), FpAt(Head(q)) = FpAt(Tail(q)[i]) PROVE Head(q) < Tail(q)[i]
  <2>1. i + 1 \in 1..Len(q) /\ 1 \in 1..Len(q) /\ 1 < i + 1
    BY <1>1
  <2>2. Tail(q)[i] = q[i + 1] /\ Head(q) = q[1]
    BY <1>1
  <2> QED
    BY <1>1, <1>3, <2>1, <2>2 DEF InOrderByFP
<1> QED
  BY <1>1, <1>2, <1>3 DEF In

LEMMA ByFPAppend ==
    ASSUME NEW q \in Seq(Nat), InOrderByFP(q), NEW e \in Nat,
           \A m \in In(q) : FpAt(m) = FpAt(e) => m < e
    PROVE  InOrderByFP(Append(q, e))
<1>1. /\ Len(q) \in Nat /\ DOMAIN Append(q, e) = 1..(Len(q) + 1) /\ DOMAIN q = 1..Len(q)
      /\ \A i \in 1..Len(q) : Append(q, e)[i] = q[i]
      /\ Append(q, e)[Len(q) + 1] = e
  OBVIOUS
<1> SUFFICES ASSUME NEW i \in 1..(Len(q) + 1), NEW j \in 1..(Len(q) + 1), i < j,
                    FpAt(Append(q, e)[i]) = FpAt(Append(q, e)[j])
             PROVE  Append(q, e)[i] < Append(q, e)[j]
  BY <1>1 DEF InOrderByFP
<1>2. i \in 1..Len(q) /\ q[i] \in In(q) /\ Append(q, e)[i] = q[i]
  BY <1>1 DEF In
<1>3. CASE j = Len(q) + 1
  BY <1>1, <1>2, <1>3
<1>4. CASE j # Len(q) + 1
  <2>1. j \in 1..Len(q) /\ Append(q, e)[j] = q[j]
    BY <1>1, <1>4
  <2> QED
    BY <1>1, <1>2, <2>1 DEF InOrderByFP
<1> QED
  BY <1>3, <1>4

LEMMA Landed ==
    ASSUME TypeOK, Pipeline, Delivery
    PROVE  /\ passed \subseteq Read /\ lost \subseteq Read /\ Out \subseteq Read /\ Judged \subseteq Read
           /\ Read \subseteq Nat /\ \A m \in Read : FpAt(m) \in FP
<1>1. Sent \subseteq Read /\ Read \subseteq Nat
  BY Numbers DEF TypeOK
<1>2. Judged \subseteq Read /\ lost \subseteq Read /\ passed \subseteq Read
  BY <1>1 DEF Pipeline, Flowing, OnPath, Judged
<1>3. Out \subseteq Read
  BY <1>2 DEF Delivery, Apart
<1>4. \A m \in Read : FpAt(m) \in FP
  BY PathOf DEF TypeOK
<1> QED
  BY <1>1, <1>2, <1>3, <1>4

(* A step that leaves the packets behind the fast paths alone, except to     *)
(* lose one not judged yet.                                                  *)
LEMMA DeliverySame ==
    ASSUME TypeOK, Pipeline, Delivery, \A k \in Read : capture'[k] = capture[k],
           UNCHANGED <<written, outQ, passed, dropped>>, \A f \in FP : Outgoing(f)' = Outgoing(f),
           lost \subseteq lost', \A k \in lost' \ lost : k \notin Judged,
           outClosed => outClosed'
    PROVE  Delivery'
<1>1. \A k \in Read : FpAt(k)' = FpAt(k)
  BY SamePath
<1>2. /\ passed \subseteq Read /\ lost \subseteq Read /\ Out \subseteq Read /\ Judged \subseteq Read
      /\ \A m \in Read : FpAt(m) \in FP
  BY Landed
<1>3. Out' = Out /\ In(outQ) \subseteq Out /\ written \subseteq Out
  BY DEF Out
<1>4. \A f \in FP : \A k \in Outgoing(f) : k \in passed /\ k \in Read /\ FpAt(k) = f /\ k \notin lost
  BY <1>2 DEF Delivery, Apart
<1>5. \A f \in FP : \A k \in Outgoing(f) : k \notin lost'
  BY <1>4 DEF Judged
<1>6. Apart'
  <2>1. lost' \cap dropped = {}
    BY DEF Delivery, Apart, Judged
  <2>2. \A f \in FP : \A k \in Outgoing(f)' : k \in passed /\ FpAt(k)' = f /\ k \notin lost'
    BY <1>1, <1>4, <1>5
  <2> QED
    BY <1>3, <2>1, <2>2 DEF Delivery, Apart
<1>7. InOrderByFP(outQ)'
  <2>1. \A i \in DOMAIN outQ : outQ[i] \in Read
    BY <1>2, <1>3 DEF In
  <2> QED
    BY <1>1, <2>1 DEF Delivery, OutInOrder, InOrderByFP
<1>8. \A k \in written, m \in In(outQ) : FpAt(k)' = FpAt(m)' => k < m
  BY <1>1, <1>2, <1>3 DEF Delivery, OutInOrder
<1>9. \A f \in FP : \A k \in Outgoing(f)', m \in Out : FpAt(m)' = f => m < k
  BY <1>1, <1>2 DEF Delivery, OutInOrder
<1>10. lost' \cap passed = lost \cap passed
  BY DEF Judged
<1>11. \A k \in lost' \cap passed : outClosed' /\ \A m \in Out : FpAt(m)' = FpAt(k)' => m < k
  BY <1>1, <1>2, <1>10 DEF Delivery, OutInOrder
<1>12. OutInOrder'
  BY <1>3, <1>7, <1>8, <1>9, <1>11 DEF OutInOrder
<1>13. Delivered'
  BY <1>1, <1>2, <1>3 DEF Delivery, Delivered
<1> QED
  BY <1>6, <1>12, <1>13 DEF Delivery

LEMMA DeliveryFpDrop ==
    ASSUME TypeOK, Pipeline, Delivery, NEW f \in FP, FpDrop(f)
    PROVE  Delivery'
<1> PICK k : k = fpJob[f]
  OBVIOUS
<1>1. k \notin Judged /\ k \notin lost
  BY Judgement
<1>2. /\ capture' = capture /\ UNCHANGED <<written, outQ, passed, lost, flags>>
      /\ dropped' = dropped \cup {k} /\ fpPc[f] = "handle"
  BY DEF FpDrop, readerVars, outVars
<1>3. \A g \in FP : Outgoing(g)' = Outgoing(g)
  BY <1>2, Stores DEF FpDrop, Outgoing
<1>4. \A m : FpAt(m)' = FpAt(m)
  BY <1>2, SamePath
<1>5. Out' = Out /\ outQ' = outQ /\ In(outQ)' = In(outQ) /\ outClosed' = outClosed
  BY <1>2 DEF Out, flags
<1>6. Apart'
  BY <1>1, <1>2, <1>3, <1>4, <1>5 DEF Delivery, Apart, Judged
<1>7. InOrderByFP(outQ)'
  BY <1>4, <1>5 DEF Delivery, OutInOrder, InOrderByFP
<1>8. OutInOrder'
  BY <1>2, <1>3, <1>4, <1>5, <1>7 DEF Delivery, OutInOrder
<1>9. Delivered'
  <2>1. passed \subseteq Read /\ \A m \in Read : FpAt(m) \in FP
    BY Landed
  <2> QED
    BY <1>2, <1>3, <1>4, <1>5, <2>1 DEF Delivery, Delivered
<1> QED
  BY <1>6, <1>8, <1>9 DEF Delivery

LEMMA DeliveryFpForward ==
    ASSUME TypeOK, Pipeline, Delivery, NEW f \in FP, FpForward(f)
    PROVE  Delivery'
<1> PICK k : k = fpJob[f]
  OBVIOUS
<1>1. k \notin Judged /\ k \notin lost /\ FpAt(k) = f /\ k \in Queued(f)
  BY Judgement
<1>2. /\ capture' = capture /\ UNCHANGED <<written, outQ, dropped, lost, flags>>
      /\ passed' = passed \cup {k} /\ fpPc[f] = "handle"
  BY DEF FpForward, readerVars, outVars
<1>3. Outgoing(f)' = {k} /\ \A g \in FP : g # f => Outgoing(g)' = Outgoing(g)
  BY <1>2, Stores DEF FpForward, Outgoing
<1>4. \A m : FpAt(m)' = FpAt(m)
  BY <1>2, SamePath
<1>5. Out' = Out /\ outQ' = outQ /\ In(outQ)' = In(outQ) /\ outClosed' = outClosed
  BY <1>2 DEF Out, flags
<1>6. \A m \in Out : FpAt(m) = f => m < k
  BY <1>1 DEF Delivery, Apart, Judged, Pipeline, Flowing, InOrder, AheadOfFP
<1>7. Apart'
  <2>1. passed' \cap dropped = {} /\ Out \subseteq passed'
    BY <1>1, <1>2 DEF Delivery, Apart, Judged
  <2>2. ASSUME NEW g \in FP, NEW m \in Outgoing(g)' PROVE m \in passed' /\ FpAt(m) = g /\ m \notin lost
    BY <1>1, <1>2, <1>3, <2>2 DEF Delivery, Apart
  <2> QED
    BY <1>2, <1>4, <1>5, <2>1, <2>2 DEF Delivery, Apart
<1>8. InOrderByFP(outQ)'
  BY <1>4, <1>5 DEF Delivery, OutInOrder, InOrderByFP
<1>9. OutInOrder'
  <2>1. ASSUME NEW g \in FP, NEW a \in Outgoing(g)', NEW m \in Out, FpAt(m) = g PROVE m < a
    <3>1. CASE g = f
      BY <1>3, <1>6, <2>1, <3>1
    <3>2. CASE g # f
      BY <1>3, <2>1, <3>2 DEF Delivery, OutInOrder
    <3> QED
      BY <3>1, <3>2
  <2>2. lost \cap passed' = lost \cap passed
    BY <1>1, <1>2
  <2> QED
    BY <1>2, <1>4, <1>5, <1>8, <2>1, <2>2 DEF Delivery, OutInOrder
<1>10. Delivered'
  <2>1. passed \subseteq Read /\ \A m \in Read : FpAt(m) \in FP
    BY Landed
  <2>2. Outgoing(f) = {}
    BY <1>2 DEF Outgoing
  <2>3. ASSUME NEW m \in passed, NEW g \in FP, g = FpAt(m) PROVE m \in Out \/ m \in Outgoing(g)' \/ m \in lost
    <3>1. m \in Out \/ m \in Outgoing(g) \/ m \in lost
      BY <2>3 DEF Delivery, Delivered
    <3> QED
      BY <1>3, <2>2, <3>1
  <2> QED
    BY <1>1, <1>2, <1>3, <1>4, <1>5, <2>1, <2>3 DEF Delivered
<1> QED
  BY <1>7, <1>9, <1>10 DEF Delivery

LEMMA DeliveryFpPush ==
    ASSUME TypeOK, Pipeline, Delivery, NEW f \in FP, FpPush(f)
    PROVE  Delivery'
<1> PICK k : k = fpJob[f]
  OBVIOUS
<1>1. /\ capture' = capture /\ UNCHANGED <<written, passed, dropped, flags>> /\ fpPc[f] = "push"
  BY DEF FpPush, readerVars, outVars
<1>2. Outgoing(f) = {k} /\ Outgoing(f)' = {} /\ \A g \in FP : g # f => Outgoing(g)' = Outgoing(g)
  BY <1>1, Stores DEF FpPush, Outgoing
<1>3. \A m : FpAt(m)' = FpAt(m)
  BY <1>1, SamePath
<1>4. k \in passed /\ FpAt(k) = f /\ k \notin lost /\ \A m \in Out : FpAt(m) = f => m < k
  BY <1>2 DEF Delivery, Apart, OutInOrder
<1>5. /\ passed \subseteq Read /\ Read \subseteq Nat /\ \A m \in Read : FpAt(m) \in FP
      /\ outQ \in Seq(Packet) /\ outQ \in Seq(Nat) /\ outClosed' = outClosed
  BY <1>1, Landed, Stores DEF flags
<1>6. CASE outClosed /\ lost' = lost \cup {k} /\ outQ' = outQ
  <2>1. Out' = Out /\ In(outQ)' = In(outQ)
    BY <1>1, <1>6 DEF Out
  <2>2. Apart'
    <3>1. k \notin dropped
      BY <1>4 DEF Delivery, Apart
    <3>2. ASSUME NEW g \in FP, NEW m \in Outgoing(g)' PROVE m \in passed /\ FpAt(m) = g /\ m \notin lost'
      <4>1. g # f /\ m \in Outgoing(g)
        BY <1>2, <3>2
      <4>2. m \in passed /\ FpAt(m) = g /\ m \notin lost
        BY <4>1 DEF Delivery, Apart
      <4> QED
        BY <1>4, <1>6, <4>1, <4>2
    <3> QED
      BY <1>1, <1>3, <1>6, <2>1, <3>1, <3>2 DEF Delivery, Apart
  <2>3. InOrderByFP(outQ)'
    BY <1>3, <1>6 DEF Delivery, OutInOrder, InOrderByFP
  <2>4. OutInOrder'
    <3>1. \A g \in FP : \A a \in Outgoing(g)', m \in Out : FpAt(m) = g => m < a
      BY <1>2 DEF Delivery, OutInOrder
    <3>2. \A a \in lost' \cap passed : outClosed /\ \A m \in Out : FpAt(m) = FpAt(a) => m < a
      BY <1>4, <1>6 DEF Delivery, OutInOrder
    <3> QED
      BY <1>1, <1>3, <1>5, <2>1, <2>3, <3>1, <3>2 DEF Delivery, OutInOrder
  <2>5. Delivered'
    <3>1. ASSUME NEW m \in passed, NEW g \in FP, g = FpAt(m) PROVE m \in Out \/ m \in Outgoing(g)' \/ m \in lost'
      <4>1. m \in Out \/ m \in Outgoing(g) \/ m \in lost
        BY <3>1 DEF Delivery, Delivered
      <4> QED
        BY <1>2, <1>6, <4>1
    <3> QED
      BY <1>1, <1>3, <1>5, <2>1, <3>1 DEF Delivered
  <2> QED
    BY <2>2, <2>4, <2>5 DEF Delivery
<1>7. CASE ~outClosed /\ lost' = lost /\ outQ' = Append(outQ, k)
  <2>1. Out' = Out \cup {k} /\ In(outQ)' = In(outQ) \cup {k} /\ In(outQ) \subseteq Out
    <3>1. In(Append(outQ, k)) = In(outQ) \cup {k}
      BY <1>5, InAppend
    <3> QED
      BY <1>1, <1>7, <3>1 DEF Out
  <2>2. Apart'
    <3>1. ASSUME NEW g \in FP, NEW m \in Outgoing(g)' PROVE m \in passed /\ FpAt(m) = g /\ m \notin lost
      <4>1. m \in Outgoing(g)
        BY <1>2, <3>1
      <4> QED
        BY <4>1 DEF Delivery, Apart
    <3> QED
      BY <1>1, <1>3, <1>4, <1>7, <2>1, <3>1 DEF Delivery, Apart
  <2>3. InOrderByFP(outQ)'
    <3>1. k \in Nat /\ \A m \in In(outQ) : FpAt(m) = FpAt(k) => m < k
      BY <1>4, <1>5, <2>1
    <3>2. InOrderByFP(Append(outQ, k))
      BY <1>5, <3>1, ByFPAppend DEF Delivery, OutInOrder
    <3> QED
      BY <1>3, <1>7, <3>2 DEF InOrderByFP
  <2>4. \A a \in written, b \in In(outQ)' : FpAt(a) = FpAt(b) => a < b
    <3>1. \A a \in written : FpAt(a) = f => a < k
      BY <1>4 DEF Out
    <3> QED
      BY <1>4, <2>1, <3>1 DEF Delivery, OutInOrder
  <2>5. ASSUME NEW g \in FP, NEW a \in Outgoing(g)', NEW m \in Out', FpAt(m) = g PROVE m < a
    <3>1. g # f /\ a \in Outgoing(g) /\ m \in Out
      BY <1>2, <1>4, <2>1, <2>5
    <3> QED
      BY <2>5, <3>1 DEF Delivery, OutInOrder
  <2>6. lost \cap passed = {}
    BY <1>7 DEF Delivery, OutInOrder
  <2>7. OutInOrder'
    BY <1>1, <1>3, <1>7, <2>3, <2>4, <2>5, <2>6 DEF OutInOrder
  <2>8. Delivered'
    <3>1. ASSUME NEW m \in passed, NEW g \in FP, g = FpAt(m) PROVE m \in Out' \/ m \in Outgoing(g)' \/ m \in lost
      <4>1. m \in Out \/ m \in Outgoing(g) \/ m \in lost
        BY <3>1 DEF Delivery, Delivered
      <4> QED
        BY <1>2, <2>1, <4>1
    <3> QED
      BY <1>1, <1>3, <1>5, <1>7, <3>1 DEF Delivered
  <2> QED
    BY <2>2, <2>7, <2>8 DEF Delivery
<1> QED
  BY <1>6, <1>7 DEF FpPush

LEMMA DeliveryOutPop ==
    ASSUME TypeOK, Pipeline, Delivery, OutPop
    PROVE  Delivery'
<1>1. capture' = capture /\ UNCHANGED <<fpPc, fpJob, passed, dropped, lost, flags>>
  BY DEF OutPop, fpVars, readerVars
<1>2. (\A f \in FP : Outgoing(f)' = Outgoing(f)) /\ outClosed' = outClosed
  BY <1>1 DEF Outgoing, flags
<1>3. CASE UNCHANGED <<outQ, written>>
  BY <1>1, <1>2, <1>3, DeliverySame
<1>4. CASE outQ # <<>> /\ outQ' = Tail(outQ) /\ written' = written \cup {Head(outQ)}
  <2> PICK k : k = Head(outQ)
    OBVIOUS
  <2>1. outQ \in Seq(Packet) /\ outQ \in Seq(Nat)
    BY Stores
  <2>2. \A m : FpAt(m)' = FpAt(m)
    BY <1>1, SamePath
  <2>3. In(outQ) = {k} \cup In(outQ)'
    <3>1. In(outQ) = {k} \cup In(Tail(outQ))
      BY <1>4, <2>1, InTail
    <3> QED
      BY <1>4, <3>1
  <2>4. Out' = Out
    BY <1>4, <2>3 DEF Out
  <2>5. InOrderByFP(Tail(outQ)) /\ \A m \in In(outQ)' : FpAt(k) = FpAt(m) => k < m
    <3>1. InOrderByFP(Tail(outQ)) /\ \A m \in In(Tail(outQ)) : FpAt(k) = FpAt(m) => k < m
      BY <1>4, <2>1, ByFPTail DEF Delivery, OutInOrder
    <3>2. In(outQ)' = In(Tail(outQ))
      BY <1>4
    <3> QED
      BY <3>1, <3>2
  <2>6. InOrderByFP(outQ)'
    BY <1>4, <2>2, <2>5 DEF InOrderByFP
  <2>7. \A a \in written', b \in In(outQ)' : FpAt(a) = FpAt(b) => a < b
    BY <1>4, <2>3, <2>5 DEF Delivery, OutInOrder
  <2>8. Apart'
    BY <1>1, <1>2, <2>2, <2>4 DEF Delivery, Apart
  <2>9. OutInOrder'
    BY <1>1, <1>2, <2>2, <2>4, <2>6, <2>7 DEF Delivery, OutInOrder
  <2>10. Delivered'
    <3>1. passed \subseteq Read /\ \A m \in Read : FpAt(m) \in FP
      BY Landed
    <3> QED
      BY <1>1, <1>2, <2>2, <2>4, <3>1 DEF Delivery, Delivered
  <2> QED
    BY <2>8, <2>9, <2>10 DEF Delivery
<1> QED
  BY <1>3, <1>4 DEF OutPop

(* What a push refused before the fast paths adds to lost is not judged. *)
LEMMA RefusedUnjudged ==
    ASSUME TypeOK, JobsRead, Hands, Pipeline,
           ReaderPush \/ \E l \in LB : LbPush(l)
    PROVE  lost \subseteq lost' /\ \A k \in lost' \ lost : k \notin Judged
<1>1. CASE ReaderPush
  <2>1. lost' = lost \/ lost' = lost \cup {readerJob}
    BY <1>1 DEF ReaderPush
  <2>2. readerJob \notin Judged
    BY DEF Pipeline, Flowing, OnPath, Sent
  <2> QED
    BY <2>1, <2>2
<1>2. ASSUME NEW l \in LB, LbPush(l) PROVE lost \subseteq lost' /\ \A k \in lost' \ lost : k \notin Judged
  <2> PICK k : k = lbJob[l]
    OBVIOUS
  <2>1. lost' = lost \/ lost' = lost \cup {k}
    BY <1>2 DEF LbPush
  <2>2. k \in Held(l)
    BY <1>2 DEF LbPush, TypeOK, LbTypeOK, Held
  <2>3. k \in Nat /\ LbAt(k) = l
    BY <2>2, Located DEF Pipeline, Flowing, OnPath
  <2>4. k \notin Judged
    <3> SUFFICES ASSUME k \in Judged PROVE FALSE
      OBVIOUS
    <3>1. k < k
      BY <2>2, <2>3 DEF Pipeline, Flowing, InOrder, AheadOfLB
    <3> QED
      BY <2>3, <3>1
  <2> QED
    BY <2>1, <2>4
<1> QED
  BY <1>1, <1>2

LEMMA DeliveryStep ==
    TypeOK /\ JobsRead /\ Gone /\ Hands /\ Pipeline /\ Delivery /\ [Next]_vars => Delivery'
<1> SUFFICES ASSUME TypeOK, JobsRead, Gone, Hands, Pipeline, Delivery, [Next]_vars PROVE Delivery'
  OBVIOUS
<1>0. \A f \in FP : fpPc' = fpPc /\ fpJob' = fpJob => Outgoing(f)' = Outgoing(f)
  BY DEF Outgoing
<1>1. ASSUME UNCHANGED <<capture, written, outQ, passed, dropped, lost>>,
             \A f \in FP : Outgoing(f)' = Outgoing(f), outClosed => outClosed'
      PROVE  Delivery'
  BY <1>1, DeliverySame
<1>2. ASSUME UNCHANGED <<capture, outVars, outQ, fpVars, lost>>, outClosed => outClosed'
      PROVE  Delivery'
  BY <1>0, <1>1, <1>2 DEF outVars, fpVars
<1>3. CASE ProcessFile
  <2>1. \A f \in FP : fpPc[f] = "off" /\ fpPc'[f] = "check"
    BY <1>3 DEF ProcessFile, Gone
  <2>2. \A f \in FP : Outgoing(f)' = Outgoing(f)
    BY <2>1 DEF Outgoing
  <2> QED
    BY <1>1, <1>3, <2>2 DEF ProcessFile
<1>4. CASE SignalLB \/ SignalFP \/ CloseOutput
  BY <1>2, <1>4 DEF SignalLB, SignalFP, CloseOutput, readerVars
<1>5. CASE JoinReader \/ Stop \/ JoinLB \/ JoinFP \/ JoinOutput
  BY <1>2, <1>5 DEF JoinReader, Stop, JoinLB, JoinFP, JoinOutput, readerVars, flags
<1>6. CASE ReaderPush \/ \E l \in LB : LbPush(l)
  <2>1. lost \subseteq lost' /\ \A k \in lost' \ lost : k \notin Judged
    BY <1>6, RefusedUnjudged
  <2>2. capture' = capture /\ UNCHANGED <<outVars, outQ, fpVars>> /\ outClosed' = outClosed
    BY <1>6 DEF ReaderPush, LbPush, readerVars, flags
  <2> QED
    BY <1>0, <2>1, <2>2, DeliverySame DEF outVars, fpVars
<1>7. ASSUME NEW fl \in Flow, ReadPacket(fl) PROVE Delivery'
  <2>1. \A k \in Read : capture'[k] = capture[k]
    BY <1>7 DEF ReadPacket, TypeOK, ReaderTypeOK, Read
  <2>2. UNCHANGED <<outVars, outQ, fpVars, lost>> /\ outClosed' = outClosed
    BY <1>7 DEF ReadPacket, flags
  <2> QED
    BY <1>0, <2>1, <2>2, DeliverySame DEF outVars, fpVars
<1>8. CASE OpenInput \/ WriteHeader \/ EndOfCapture
  BY <1>2, <1>8 DEF OpenInput, WriteHeader, EndOfCapture, flags
<1>9. ASSUME NEW l \in LB, LbCheck(l) \/ LbPop(l) \/ LbCrash(l) PROVE Delivery'
  BY <1>2, <1>9 DEF LbCheck, LbPop, LbCrash, readerVars, flags
<1>10. ASSUME NEW f \in FP, FpCheck(f) \/ FpPop(f) PROVE Delivery'
  <2>1. \A g \in FP : Outgoing(g)' = Outgoing(g)
    BY <1>10, Stores DEF FpCheck, FpPop, Outgoing
  <2>2. UNCHANGED <<capture, written, outQ, passed, dropped, lost>> /\ outClosed' = outClosed
    BY <1>10 DEF FpCheck, FpPop, readerVars, outVars, flags
  <2> QED
    BY <1>1, <2>1, <2>2
<1>11. ASSUME NEW f \in FP, FpDrop(f) PROVE Delivery'
  BY <1>11, DeliveryFpDrop
<1>12. ASSUME NEW f \in FP, FpForward(f) PROVE Delivery'
  BY <1>12, DeliveryFpForward
<1>13. ASSUME NEW f \in FP, FpPush(f) PROVE Delivery'
  BY <1>13, DeliveryFpPush
<1>14. CASE OutPop
  BY <1>14, DeliveryOutPop
<1>15. CASE OutCheck
  BY <1>0, <1>1, <1>15 DEF OutCheck, readerVars, fpVars, flags
<1>16. CASE UNCHANGED vars
  BY <1>2, <1>16 DEF vars, readerVars, flags
<1> QED
  BY <1>3, <1>4, <1>5, <1>6, <1>7, <1>8, <1>9, <1>10, <1>11, <1>12, <1>13, <1>14, <1>15, <1>16
     DEF Next, Main, Reader, LoadBalancer, FastPath, OutputThread

-----------------------------------------------------------------------------
(* Proof of Silent                                                           *)

LEMMA SilentStep == TypeOK /\ Gone /\ StopOrder /\ Silent /\ [Next]_vars => Silent'
<1> SUFFICES ASSUME TypeOK, Gone, StopOrder, Silent, [Next]_vars PROVE Silent'
  OBVIOUS
<1> USE DEF Silent, FirstCall, vars, mainVars, readerVars, lbVars, fpVars, outVars, flags
<1>1. ASSUME UNCHANGED <<files, quietStop, readerPc, lbQ, lbJob, fpQ, fpJob, outQ>> PROVE Silent'
  BY <1>1 DEF Quiet
<1>2. CASE ProcessFile
  BY <1>2 DEF ProcessFile, TypeOK, MainTypeOK
<1>3. CASE Stop
  <2>1. readerPc = "off" /\ files # 0 /\ files \in Nat
    BY <1>3 DEF Stop, Gone, StopOrder, TypeOK, MainTypeOK
  <2>2. Quiet' = Quiet
    BY <1>3 DEF Stop, Quiet
  <2> QED
    BY <1>3, <2>1, <2>2 DEF Stop
<1>4. CASE JoinReader \/ SignalLB \/ JoinLB \/ SignalFP \/ JoinFP \/ CloseOutput \/ JoinOutput
  BY <1>1, <1>4 DEF JoinReader, SignalLB, JoinLB, SignalFP, JoinFP, CloseOutput, JoinOutput
<1>5. CASE Reader
  <2>1. readerPc # "off" /\ UNCHANGED mainVars
    BY <1>5 DEF Reader, OpenInput, WriteHeader, EndOfCapture, ReaderPush, ReadPacket
  <2> QED
    BY <2>1
<1>6. ASSUME NEW l \in LB, LoadBalancer(l), FirstCall, quietStop PROVE Silent'
  <2>1. lbQ[l] = <<>> /\ lbJob[l] = NoPacket
    BY <1>6 DEF Quiet
  <2>2. lbPc[l] # "push"
    BY <2>1 DEF TypeOK, LbTypeOK
  <2> QED
    BY <1>1, <1>6, <2>1, <2>2 DEF LoadBalancer, LbCheck, LbCrash, LbPop, LbPush
<1>7. ASSUME NEW f \in FP, FastPath(f), FirstCall, quietStop PROVE Silent'
  <2>1. fpQ[f] = <<>> /\ fpJob[f] = NoPacket
    BY <1>7 DEF Quiet
  <2>2. fpPc[f] \notin {"handle", "push"}
    BY <2>1 DEF TypeOK, FpTypeOK
  <2> QED
    BY <1>1, <1>7, <2>1, <2>2 DEF FastPath, FpCheck, FpPop, FpDrop, FpForward, FpPush
<1>8. ASSUME OutputThread, FirstCall, quietStop PROVE Silent'
  <2>1. outQ = <<>>
    BY <1>8 DEF Quiet
  <2> QED
    BY <1>1, <1>8, <2>1 DEF OutputThread, OutCheck, OutPop
<1>9. ASSUME NEW l \in LB, LoadBalancer(l) PROVE UNCHANGED <<files, quietStop>>
  BY <1>9 DEF LoadBalancer, LbCheck, LbCrash, LbPop, LbPush
<1>10. ASSUME NEW f \in FP, FastPath(f) PROVE UNCHANGED <<files, quietStop>>
  BY <1>10 DEF FastPath, FpCheck, FpPop, FpDrop, FpForward, FpPush
<1>11. ASSUME OutputThread PROVE UNCHANGED <<files, quietStop>>
  BY <1>11 DEF OutputThread, OutCheck, OutPop
<1>12. CASE UNCHANGED vars
  BY <1>1, <1>12
<1> QED
  BY <1>2, <1>3, <1>4, <1>5, <1>6, <1>7, <1>8, <1>9, <1>10, <1>11, <1>12 DEF Next, Main

-----------------------------------------------------------------------------
(* What the pipeline guarantees                                              *)

Passage == TypeOK /\ JobsRead /\ Gone /\ StopOrder /\ Hands /\ Pipeline /\ Delivery /\ Silent

LEMMA PassageCorrect == Spec => []Passage
<1>1. Init => JobsRead /\ Gone /\ StopOrder /\ Hands /\ Pipeline /\ Delivery /\ Silent
  BY InitOrder, InitPipeline
<1>2. TypeOK /\ JobsRead /\ Gone /\ Hands /\ Pipeline /\ Delivery /\ [Next]_vars => Pipeline'
  BY PipelineStep DEF Delivery
<1>3. JobsRead /\ Gone /\ StopOrder /\ Hands /\ Pipeline /\ Delivery /\ Silent /\ TypeOK /\ [Next]_vars
      => (JobsRead /\ Gone /\ StopOrder /\ Hands /\ Pipeline /\ Delivery /\ Silent)'
  BY <1>2, JobsReadStep, GoneStep, StopOrderStep, HandsStep, DeliveryStep, SilentStep
<1> QED
  BY <1>1, <1>3, TypeCorrect, PTL DEF Spec, Passage

(* When everything has drained by the time stop() is called, which is what   *)
(* the sleeps of waitForCompletion hope for (dpi_engine.cpp:159), every      *)
(* packet was judged and every forwarded one is in the file, for any number  *)
(* of threads and any queue size.                                            *)
THEOREM QuietStopLosesNothingCorrect == Spec => []QuietStopLosesNothing
<1>1. ASSUME Passage PROVE QuietStopLosesNothing
  <2> SUFFICES ASSUME FirstCall, quietStop PROVE Judged = Read /\ written = passed
    BY DEF QuietStopLosesNothing, Judged, Read
  <2>1. Quiet /\ readerPc = "off" /\ lost = {}
    BY <1>1 DEF Passage, Silent, StopOrder
  <2>2. In(<<>>) = {}
    BY DEF In
  <2>3. (\A l \in LB : Held(l) = {}) /\ (\A f \in FP : Queued(f) = {} /\ Outgoing(f) = {})
    <3>1. ASSUME NEW l \in LB PROVE Held(l) = {}
      BY <2>1, <2>2 DEF Quiet, Held
    <3>2. ASSUME NEW f \in FP PROVE fpPc[f] \notin {"handle", "push"} /\ fpQ[f] = <<>>
      BY <1>1, <2>1 DEF Quiet, Passage, TypeOK, FpTypeOK
    <3>3. ASSUME NEW f \in FP PROVE Queued(f) = {} /\ Outgoing(f) = {}
      BY <2>2, <3>2 DEF Queued, InHand, Outgoing
    <3> QED
      BY <3>1, <3>3
  <2>4. Sent = Read
    <3>1. readerJob = NoPacket /\ NoPacket \notin Read
      BY <1>1, <2>1, Numbers DEF Passage, Hands, TypeOK
    <3> QED
      BY <3>1 DEF Sent
  <2>5. Read \subseteq Judged
    <3> SUFFICES ASSUME NEW k \in Read PROVE k \in Judged
      OBVIOUS
    <3>1. LbAt(k) \in LB /\ FpAt(k) \in FP
      BY <1>1, PathOf DEF Passage, TypeOK
    <3>2. k \in Judged \/ k \in Queued(FpAt(k)) \/ k \in Held(LbAt(k))
      BY <1>1, <2>1, <2>4 DEF Passage, Pipeline, Flowing, Somewhere
    <3> QED
      BY <2>3, <3>1, <3>2
  <2>6. Judged \subseteq Read /\ passed \subseteq Read /\ \A m \in Read : FpAt(m) \in FP
    BY <1>1, Landed DEF Passage
  <2>7. Out = written
    BY <2>1, <2>2 DEF Out, Quiet
  <2>8. \A k \in passed : k \in Out
    <3> SUFFICES ASSUME NEW k \in passed, NEW f \in FP, f = FpAt(k) PROVE k \in Out
      BY <2>6
    <3>1. k \in Out \/ k \in Outgoing(f) \/ k \in lost
      BY <1>1 DEF Passage, Delivery, Delivered
    <3> QED
      BY <2>1, <2>3, <3>1
  <2>9. Out \subseteq passed
    BY <1>1 DEF Passage, Delivery, Apart
  <2> QED
    BY <2>5, <2>6, <2>7, <2>8, <2>9
<1> QED
  BY <1>1, PassageCorrect, PTL

(* What is judged, and what is written, comes after everything earlier of    *)
(* its flow: one flow has one balancer and one fast path.                    *)
LEMMA SameFlow ==
    ASSUME ReaderTypeOK, Hands, NEW k \in Sent, NEW q \in Filter!Earlier(k)
    PROVE  /\ q \in Sent /\ q < k /\ q \in Nat /\ k \in Nat
           /\ LbAt(q) = LbAt(k) /\ FpAt(q) = FpAt(k)
<1>1. Len(capture) \in Nat /\ k \in 1..Len(capture)
  BY Numbers DEF Sent, Read
<1>2. q \in 1..(k - 1) /\ capture[q] = capture[k]
  BY DEF Filter!Earlier
<1>3. q \in Read /\ q < k /\ q \in Nat /\ k \in Nat /\ q # Len(capture)
  BY <1>1, <1>2 DEF Read
<1>4. q # readerJob
  BY <1>3, Numbers DEF Hands
<1>5. LbAt(q) = LbAt(k)
  BY <1>2 DEF LbAt
<1>6. FpAt(q) = FpAt(k)
  BY <1>2, <1>5 DEF FpAt
<1> QED
  BY <1>3, <1>4, <1>5, <1>6 DEF Sent

LEMMA JudgedInOrder ==
    ASSUME TypeOK, Hands, Pipeline, NEW f \in FP, FpDrop(f) \/ FpForward(f), NEW k, k = fpJob[f]
    PROVE  Filter!Earlier(k) \subseteq Judged
<1> SUFFICES ASSUME NEW q \in Filter!Earlier(k), q \notin Judged PROVE FALSE
  OBVIOUS
<1>1. /\ k \in Queued(f) /\ k \in Sent /\ FpAt(k) = f
      /\ Queued(f) = Queued(f)' \cup {k} /\ \A m \in Queued(f)' : k < m
  BY Judgement
<1>2. /\ q \in Sent /\ q < k /\ q \in Nat /\ k \in Nat
      /\ LbAt(q) = LbAt(k) /\ FpAt(q) = f
  BY <1>1, SameFlow DEF TypeOK
<1>3. q \notin Queued(f)
  BY <1>1, <1>2
<1>4. q \notin Held(LbAt(q))
  <2>1. \A m \in Held(LbAt(k)) : k < m
    BY <1>1 DEF Pipeline, Flowing, InOrder, AheadOfLB
  <2>2. ~(k < q)
    BY <1>2
  <2> QED
    BY <1>2, <2>1, <2>2
<1>5. q \notin lost
  <2>1. q \in lost => k < q
    BY <1>1, <1>2 DEF Pipeline, Flowing, Refusals, NoneFollows
  <2> QED
    BY <1>2, <2>1
<1> QED
  BY <1>2, <1>3, <1>4, <1>5 DEF Pipeline, Flowing, Somewhere

LEMMA JudgeStep ==
    ASSUME TypeOK, Hands, Pipeline, NEW f \in FP, FpDrop(f) \/ FpForward(f)
    PROVE  \E k \in Filter!Packets : Filter!Judge(k)
<1> PICK k : k = fpJob[f]
  OBVIOUS
<1>1. k \in Sent /\ k \notin Judged
  BY Judgement
<1>2. k \in Filter!Packets
  BY <1>1 DEF Sent, Read, Filter!Packets
<1>3. Filter!Judged = Judged
  BY DEF Judged, Filter!Judged
<1>4. Filter!Earlier(k) \subseteq Judged
  BY JudgedInOrder
<1>5. UNCHANGED <<capture, written>>
  BY DEF FpDrop, FpForward, readerVars, outVars
<1>6. \/ passed' = passed \cup {k} /\ UNCHANGED dropped
      \/ dropped' = dropped \cup {k} /\ UNCHANGED passed
  BY DEF FpDrop, FpForward
<1>7. Filter!Judge(k)
  BY <1>1, <1>3, <1>4, <1>5, <1>6 DEF Filter!Judge
<1> QED
  BY <1>2, <1>7

LEMMA WriteStep ==
    ASSUME TypeOK, Hands, Pipeline, Delivery, OutPop, outQ # <<>>
    PROVE  \E k \in Filter!Packets : Filter!Write(k)
<1> PICK k : k = Head(outQ)
  OBVIOUS
<1>1. /\ written' = written \cup {k}
      /\ UNCHANGED <<capture, passed, dropped>>
  BY DEF OutPop, readerVars, fpVars
<1>2. outQ \in Seq(Packet) /\ outQ \in Seq(Nat)
  BY Stores
<1>3. In(outQ) = {k} \cup In(Tail(outQ))
  BY <1>2, InTail
<1>4. \A m \in In(Tail(outQ)) : FpAt(k) = FpAt(m) => k < m
  BY <1>2, ByFPTail DEF Delivery, OutInOrder
<1>5. k \in In(outQ) /\ k \in Out /\ k \in passed
  BY <1>3 DEF Out, Delivery, Apart
<1>6. k \in Sent /\ passed \subseteq Sent /\ Sent \subseteq Nat /\ \A m \in Sent : FpAt(m) \in FP
  BY <1>5, Located DEF Pipeline, Flowing, Judged
<1>7. k \in Filter!Packets
  BY <1>6 DEF Sent, Read, Filter!Packets
<1>8. k \notin written
  <2>1. k \in written => k < k
    BY <1>5 DEF Delivery, OutInOrder
  <2> QED
    BY <1>6, <2>1
<1>9. ASSUME NEW q \in Filter!Earlier(k), q \in passed, q \notin written PROVE FALSE
  <2>1. q < k /\ q \in Nat /\ k \in Nat /\ FpAt(q) = FpAt(k) /\ q \in Sent
    BY <1>6, <1>9, SameFlow DEF TypeOK
  <2>2. ~(k < q) /\ q # k
    BY <2>1
  <2> PICK f : f = FpAt(k)
    OBVIOUS
  <2>3. f \in FP /\ FpAt(q) = f
    BY <1>6, <2>1
  <2>4. q \notin In(outQ)
    BY <1>3, <1>4, <2>1, <2>2
  <2>5. q \notin Outgoing(f)
    BY <1>5, <2>2, <2>3 DEF Delivery, OutInOrder
  <2>6. q \notin lost
    <3>1. q \in lost => k < q
      BY <1>5, <1>9, <2>1 DEF Delivery, OutInOrder
    <3> QED
      BY <2>2, <3>1
  <2> QED
    BY <1>9, <2>3, <2>4, <2>5, <2>6 DEF Delivery, Delivered, Out
<1>10. Filter!Earlier(k) \cap passed \subseteq written
  BY <1>9
<1>11. Filter!Write(k)
  BY <1>1, <1>5, <1>8, <1>10 DEF Filter!Write
<1> QED
  BY <1>7, <1>11

(* For any number of balancers and fast paths, any queue size and any hash   *)
(* the pipeline implements FlowFilter: the packets of a flow are judged and  *)
(* written in capture order, each at most once, also while stop() takes the  *)
(* threads down and in later calls of processFile.                           *)
THEOREM FlowFilterImplemented == Spec => ImplementsFlowFilter
<1>1. Init => Filter!Init
  BY DEF Init, Filter!Init
<1>2. ASSUME Passage, [Next]_vars PROVE [Filter!Next]_(Filter!vars)
  <2> USE DEF vars, mainVars, readerVars, lbVars, fpVars, outVars, flags
  <2>1. ASSUME UNCHANGED <<capture, passed, dropped, written>> PROVE UNCHANGED Filter!vars
    BY <2>1 DEF Filter!vars
  <2>2. CASE Main
    BY <2>1, <2>2 DEF Main, ProcessFile, JoinReader, Stop, SignalLB, JoinLB, SignalFP, JoinFP,
       CloseOutput, JoinOutput
  <2>3. ASSUME NEW fl \in Flow, ReadPacket(fl) PROVE Filter!Next
    BY <2>3 DEF ReadPacket, Filter!Next, Filter!Arrive
  <2>4. CASE OpenInput \/ WriteHeader \/ EndOfCapture \/ ReaderPush
    BY <2>1, <2>4 DEF OpenInput, WriteHeader, EndOfCapture, ReaderPush
  <2>5. ASSUME NEW l \in LB, LoadBalancer(l) PROVE UNCHANGED Filter!vars
    BY <2>1, <2>5 DEF LoadBalancer, LbCheck, LbCrash, LbPop, LbPush
  <2>6. ASSUME NEW f \in FP, FpDrop(f) \/ FpForward(f) PROVE Filter!Next
    BY <1>2, <2>6, JudgeStep DEF Passage, Filter!Next
  <2>7. ASSUME NEW f \in FP, FpCheck(f) \/ FpPop(f) \/ FpPush(f) PROVE UNCHANGED Filter!vars
    BY <2>1, <2>7 DEF FpCheck, FpPop, FpPush
  <2>8. CASE OutCheck
    BY <2>1, <2>8 DEF OutCheck
  <2>9. CASE OutPop /\ outQ = <<>>
    BY <2>1, <2>9 DEF OutPop
  <2>10. CASE OutPop /\ outQ # <<>>
    BY <1>2, <2>10, WriteStep DEF Passage, Filter!Next
  <2>11. CASE UNCHANGED vars
    BY <2>1, <2>11
  <2> QED
    BY <1>2, <2>2, <2>3, <2>4, <2>5, <2>6, <2>7, <2>8, <2>9, <2>10, <2>11
       DEF Next, Reader, FastPath, OutputThread
<1> QED
  BY <1>1, <1>2, PassageCorrect, PTL DEF Spec, ImplementsFlowFilter, Filter!Spec

-----------------------------------------------------------------------------
(* Conservation: the places of Where, each empty or with one packet          *)

InLbQ(p) == {w \in {"lbQ"} \X LB \X (1..QueueSize) : w[3] \in DOMAIN lbQ[w[2]] /\ lbQ[w[2]][w[3]] = p}
InLb(p) == {w \in {"lb"} \X LB : lbJob[w[2]] = p}
InFpQ(p) == {w \in {"fpQ"} \X FP \X (1..QueueSize) : w[3] \in DOMAIN fpQ[w[2]] /\ fpQ[w[2]][w[3]] = p}
InFp(p) == {w \in {"fp"} \X FP : fpJob[w[2]] = p}
InOutQ(p) == {w \in {"outQ"} \X (1..QueueSize) : w[2] \in DOMAIN outQ /\ outQ[w[2]] = p}
AtEnd(p) ==
    {w \in {"file"} : p \in written} \cup {w \in {"dropped"} : p \in dropped} \cup {w \in {"lost"} : p \in lost}

IsOne(S) == \E x : S = {x}

LEMMA WhereIs ==
    ASSUME NEW p
    PROVE  Where(p) = {w \in {"reader"} : readerJob = p} \cup InLbQ(p) \cup InLb(p) \cup InFpQ(p)
                      \cup InFp(p) \cup InOutQ(p) \cup AtEnd(p)
  BY DEF Where, InLbQ, InLb, InFpQ, InFp, InOutQ, AtEnd

(* A number is at most once in a sequence in order. *)
LEMMA Place ==
    ASSUME NEW q \in Seq(Nat), Len(q) <= QueueSize, NEW p \in In(q),
           \A i, j \in DOMAIN q : i < j => q[i] # p \/ q[j] # p
    PROVE  \E n \in 1..QueueSize : \A i : i \in DOMAIN q /\ q[i] = p <=> i = n
<1>1. DOMAIN q = 1..Len(q) /\ Len(q) \in Nat /\ 1..Len(q) \subseteq 1..QueueSize
  BY EngineAssumption DEF EngineAssumption
<1>2. PICK n \in DOMAIN q : q[n] = p
  BY DEF In
<1>3. \A i \in DOMAIN q : q[i] = p => i = n
  <2> SUFFICES ASSUME NEW i \in DOMAIN q, q[i] = p PROVE i = n
    OBVIOUS
  <2>1. ~(i < n) /\ ~(n < i)
    BY <1>2
  <2> QED
    BY <1>1, <2>1
<1> QED
  BY <1>1, <1>2, <1>3

LEMMA PlaceInOrder ==
    ASSUME NEW q \in Seq(Nat), Increasing(q), NEW p
    PROVE  \A i, j \in DOMAIN q : i < j => q[i] # p \/ q[j] # p
<1>1. \A i \in DOMAIN q : q[i] \in Nat
  OBVIOUS
<1> QED
  BY <1>1 DEF Increasing

LEMMA LbQPlaces ==
    ASSUME TypeOK, Pipeline, NEW p
    PROVE  /\ (\A l \in LB : p \notin In(lbQ[l])) => InLbQ(p) = {}
           /\ \A l \in LB : p \in In(lbQ[l]) /\ (\A j \in LB : j # l => p \notin In(lbQ[j])) => IsOne(InLbQ(p))
<1>1. \A j \in LB : \A i \in DOMAIN lbQ[j] : lbQ[j][i] \in In(lbQ[j])
  BY DEF In
<1>2. ASSUME \A l \in LB : p \notin In(lbQ[l]) PROVE InLbQ(p) = {}
  BY <1>1, <1>2 DEF InLbQ
<1>3. ASSUME NEW l \in LB, p \in In(lbQ[l]), \A j \in LB : j # l => p \notin In(lbQ[j])
      PROVE  IsOne(InLbQ(p))
  <2>1. lbQ[l] \in Seq(Nat) /\ Len(lbQ[l]) <= QueueSize /\ Increasing(lbQ[l])
    BY Stores DEF TypeOK, QueueTypeOK, Pipeline, InLine
  <2>2. PICK n \in 1..QueueSize : \A i : i \in DOMAIN lbQ[l] /\ lbQ[l][i] = p <=> i = n
    BY <1>3, <2>1, Place, PlaceInOrder
  <2>3. InLbQ(p) = {<<"lbQ", l, n>>}
    BY <1>1, <1>3, <2>2 DEF InLbQ
  <2> QED
    BY <2>3 DEF IsOne
<1> QED
  BY <1>2, <1>3

LEMMA FpQPlaces ==
    ASSUME TypeOK, Pipeline, NEW p
    PROVE  /\ (\A f \in FP : p \notin In(fpQ[f])) => InFpQ(p) = {}
           /\ \A f \in FP : p \in In(fpQ[f]) /\ (\A g \in FP : g # f => p \notin In(fpQ[g])) => IsOne(InFpQ(p))
<1>1. \A g \in FP : \A i \in DOMAIN fpQ[g] : fpQ[g][i] \in In(fpQ[g])
  BY DEF In
<1>2. ASSUME \A f \in FP : p \notin In(fpQ[f]) PROVE InFpQ(p) = {}
  BY <1>1, <1>2 DEF InFpQ
<1>3. ASSUME NEW f \in FP, p \in In(fpQ[f]), \A g \in FP : g # f => p \notin In(fpQ[g])
      PROVE  IsOne(InFpQ(p))
  <2>1. fpQ[f] \in Seq(Nat) /\ Len(fpQ[f]) <= QueueSize /\ Increasing(fpQ[f])
    BY Stores DEF TypeOK, QueueTypeOK, Pipeline, InLine
  <2>2. PICK n \in 1..QueueSize : \A i : i \in DOMAIN fpQ[f] /\ fpQ[f][i] = p <=> i = n
    BY <1>3, <2>1, Place, PlaceInOrder
  <2>3. InFpQ(p) = {<<"fpQ", f, n>>}
    BY <1>1, <1>3, <2>2 DEF InFpQ
  <2> QED
    BY <2>3 DEF IsOne
<1> QED
  BY <1>2, <1>3

LEMMA OutQPlaces ==
    ASSUME TypeOK, Delivery, NEW p
    PROVE  /\ p \notin In(outQ) => InOutQ(p) = {}
           /\ p \in In(outQ) => IsOne(InOutQ(p))
<1>1. \A i \in DOMAIN outQ : outQ[i] \in In(outQ)
  BY DEF In
<1>2. ASSUME p \notin In(outQ) PROVE InOutQ(p) = {}
  BY <1>1, <1>2 DEF InOutQ
<1>3. ASSUME p \in In(outQ) PROVE IsOne(InOutQ(p))
  <2>1. outQ \in Seq(Nat) /\ Len(outQ) <= QueueSize /\ InOrderByFP(outQ)
    BY Stores DEF TypeOK, QueueTypeOK, Delivery, OutInOrder
  <2>2. \A i, j \in DOMAIN outQ : i < j => outQ[i] # p \/ outQ[j] # p
    <3>1. \A i \in DOMAIN outQ : outQ[i] \in Nat
      BY <2>1
    <3> QED
      BY <2>1, <3>1 DEF InOrderByFP
  <2>3. PICK n \in 1..QueueSize : \A i : i \in DOMAIN outQ /\ outQ[i] = p <=> i = n
    BY <1>3, <2>1, <2>2, Place
  <2>4. InOutQ(p) = {<<"outQ", n>>}
    BY <2>3 DEF InOutQ
  <2> QED
    BY <2>4 DEF IsOne
<1> QED
  BY <1>2, <1>3

LEMMA HandPlaces ==
    ASSUME NEW p
    PROVE  /\ (\A l \in LB : lbJob[l] # p) => InLb(p) = {}
           /\ \A l \in LB : lbJob[l] = p /\ (\A j \in LB : j # l => lbJob[j] # p) => IsOne(InLb(p))
           /\ (\A f \in FP : fpJob[f] # p) => InFp(p) = {}
           /\ \A f \in FP : fpJob[f] = p /\ (\A g \in FP : g # f => fpJob[g] # p) => IsOne(InFp(p))
<1>1. (\A l \in LB : lbJob[l] # p) => InLb(p) = {}
  BY DEF InLb
<1>2. ASSUME NEW l \in LB, lbJob[l] = p, \A j \in LB : j # l => lbJob[j] # p PROVE IsOne(InLb(p))
  <2>1. InLb(p) = {<<"lb", l>>}
    BY <1>2 DEF InLb
  <2> QED
    BY <2>1 DEF IsOne
<1>3. (\A f \in FP : fpJob[f] # p) => InFp(p) = {}
  BY DEF InFp
<1>4. ASSUME NEW f \in FP, fpJob[f] = p, \A g \in FP : g # f => fpJob[g] # p PROVE IsOne(InFp(p))
  <2>1. InFp(p) = {<<"fp", f>>}
    BY <1>4 DEF InFp
  <2> QED
    BY <2>1 DEF IsOne
<1> QED
  BY <1>1, <1>2, <1>3, <1>4

LEMMA EndPlaces ==
    ASSUME NEW p
    PROVE  /\ p \notin written \cup dropped \cup lost => AtEnd(p) = {}
           /\ p \in written /\ p \notin dropped \cup lost => IsOne(AtEnd(p))
           /\ p \in dropped /\ p \notin written \cup lost => IsOne(AtEnd(p))
           /\ p \in lost /\ p \notin written \cup dropped => IsOne(AtEnd(p))
<1>1. p \notin written \cup dropped \cup lost => AtEnd(p) = {}
  BY DEF AtEnd
<1>2. p \in written /\ p \notin dropped \cup lost => AtEnd(p) = {"file"}
  BY DEF AtEnd
<1>3. p \in dropped /\ p \notin written \cup lost => AtEnd(p) = {"dropped"}
  BY DEF AtEnd
<1>4. p \in lost /\ p \notin written \cup dropped => AtEnd(p) = {"lost"}
  BY DEF AtEnd
<1> QED
  BY <1>1, <1>2, <1>3, <1>4 DEF IsOne

(* The stages of a packet exclude each other. *)
LEMMA Exclusive ==
    ASSUME Passage, NEW p \in Sent, NEW l, l = LbAt(p), NEW f, f = FpAt(p)
    PROVE  /\ l \in LB /\ f \in FP
           /\ \A j \in LB : j # l => p \notin Held(j)
           /\ \A g \in FP : g # f => p \notin Queued(g) /\ p \notin Outgoing(g)
           /\ p \in Held(l) => p \notin Queued(f) /\ p \notin Judged /\ p \notin lost
           /\ p \in Queued(f) => p \notin Judged /\ p \notin lost
           /\ p \in dropped => p \notin passed /\ p \notin lost
           /\ p \in Outgoing(f) => p \in passed /\ p \notin Out /\ p \notin lost
           /\ p \in Out => p \in passed /\ p \notin lost
           /\ p \in In(outQ) => p \notin written
<1> USE DEF Passage
<1>1. p \in Nat /\ l \in LB /\ f \in FP
  BY Located DEF Pipeline, Flowing
<1>2. ~(p < p)
  BY <1>1
<1>3. \A j \in LB : j # l => p \notin Held(j)
  BY DEF Pipeline, Flowing, OnPath
<1>4. \A g \in FP : g # f => p \notin Queued(g) /\ p \notin Outgoing(g)
  BY DEF Pipeline, Flowing, OnPath, Delivery, Apart
<1>5. p \in Held(l) => p \notin Queued(f) /\ p \notin Judged
  BY <1>1, <1>2 DEF Pipeline, Flowing, InOrder, AheadOfLB
<1>6. p \in Held(l) => p \notin lost
  BY DEF Pipeline, Flowing, Refusals
<1>7. p \in Queued(f) => p \notin Judged
  BY <1>2 DEF Pipeline, Flowing, InOrder, AheadOfFP
<1>8. p \in Queued(f) => p \notin lost
  BY <1>2, <1>7 DEF Pipeline, Flowing, Refusals, NoneFollows
<1>9. p \in dropped => p \notin passed /\ p \notin lost
  BY DEF Delivery, Apart
<1>10. p \in Outgoing(f) => p \in passed /\ p \notin Out /\ p \notin lost
  BY <1>1, <1>2 DEF Delivery, Apart, OutInOrder
<1>11. p \in Out => p \in passed /\ p \notin lost
  BY <1>2 DEF Delivery, Apart, OutInOrder
<1>12. p \in In(outQ) => p \notin written
  BY <1>2 DEF Delivery, OutInOrder
<1> QED
  BY <1>1, <1>3, <1>4, <1>5, <1>6, <1>7, <1>8, <1>9, <1>10, <1>11, <1>12

(* What a thread has in its hands, in these terms. *)
LEMMA InHands ==
    ASSUME Passage, NEW p \in Read
    PROVE  /\ p # NoPacket /\ ~(p < p)
           /\ \A l \in LB : p \in Held(l) <=> p \in In(lbQ[l]) \/ lbJob[l] = p
           /\ \A l \in LB : ~(p \in In(lbQ[l]) /\ lbJob[l] = p)
           /\ \A f \in FP : p \in In(fpQ[f]) => p \in Queued(f)
           /\ \A f \in FP : fpJob[f] = p => p \in Queued(f) \/ p \in Outgoing(f)
           /\ \A f \in FP : p \in Queued(f) => p \in In(fpQ[f]) \/ fpJob[f] = p
           /\ \A f \in FP : p \in Outgoing(f) => fpJob[f] = p
           /\ \A f \in FP : p \in In(fpQ[f]) /\ fpJob[f] = p => p \in Outgoing(f)
<1> USE DEF Passage
<1>1. p \in Nat /\ p # NoPacket /\ ~(p < p)
  <2>1. p \in Nat /\ p # NoPacket
    BY Numbers DEF TypeOK
  <2> QED
    BY <2>1
<1>2. \A l \in LB : p \in Held(l) <=> p \in In(lbQ[l]) \/ lbJob[l] = p
  BY <1>1 DEF Held
<1>3. \A l \in LB : ~(p \in In(lbQ[l]) /\ lbJob[l] = p)
  BY <1>1 DEF Pipeline, InLine
<1>4. \A f \in FP : fpJob[f] = p => fpPc[f] \in {"handle", "push"}
  BY <1>1 DEF Hands
<1>5. \A f \in FP : p \in In(fpQ[f]) /\ fpJob[f] = p => p \in Outgoing(f)
  <2>1. \A f \in FP : p \in In(fpQ[f]) => p \notin InHand(f)
    BY <1>1 DEF Pipeline, InLine
  <2> QED
    BY <1>4, <2>1 DEF InHand, Outgoing
<1> QED
  BY <1>1, <1>2, <1>3, <1>4, <1>5 DEF Queued, InHand, Outgoing

LEMMA OnePlaceReading ==
    ASSUME Passage, NEW p \in Read, readerJob = p
    PROVE  IsOne(Where(p))
<1> USE DEF Passage
<1>1. p \notin Sent
  BY DEF Sent
<1>2. (\A l \in LB : p \notin Held(l)) /\ (\A f \in FP : p \notin Queued(f)) /\ p \notin Judged /\ p \notin lost
  BY <1>1, Located DEF Pipeline, Flowing
<1>3. p \notin Out /\ \A f \in FP : p \notin Outgoing(f)
  BY <1>2 DEF Delivery, Apart, Judged
<1>4. InLbQ(p) = {} /\ InLb(p) = {}
  BY <1>2, InHands, LbQPlaces, HandPlaces
<1>5. InFpQ(p) = {} /\ InFp(p) = {}
  BY <1>2, <1>3, InHands, FpQPlaces, HandPlaces
<1>6. InOutQ(p) = {} /\ AtEnd(p) = {}
  BY <1>2, <1>3, OutQPlaces, EndPlaces DEF Out, Judged
<1>7. Where(p) = {w \in {"reader"} : readerJob = p}
  BY <1>4, <1>5, <1>6, WhereIs
<1>8. Where(p) = {"reader"}
  BY <1>7
<1> QED
  BY <1>8 DEF IsOne

LEMMA OnePlaceSent ==
    ASSUME Passage, NEW p \in Read, readerJob # p
    PROVE  IsOne(Where(p))
<1> USE DEF Passage
<1> PICK l, f : l = LbAt(p) /\ f = FpAt(p)
  OBVIOUS
<1>1. p \in Sent
  BY DEF Sent
<1>2. /\ l \in LB /\ f \in FP
      /\ \A j \in LB : j # l => p \notin Held(j)
      /\ \A g \in FP : g # f => p \notin Queued(g) /\ p \notin Outgoing(g)
  BY <1>1, Exclusive
<1>3. Where(p) = InLbQ(p) \cup InLb(p) \cup InFpQ(p) \cup InFp(p) \cup InOutQ(p) \cup AtEnd(p)
  <2>1. {w \in {"reader"} : readerJob = p} = {}
    OBVIOUS
  <2> QED
    BY <2>1, WhereIs
<1>4. p \notin Held(l) => InLbQ(p) = {} /\ InLb(p) = {}
  BY <1>2, InHands, LbQPlaces, HandPlaces
<1>5. p \notin Queued(f) /\ p \notin Outgoing(f) => InFpQ(p) = {} /\ InFp(p) = {}
  BY <1>2, InHands, FpQPlaces, HandPlaces
<1>6. CASE p \in Held(l)
  <2>1. p \notin Queued(f) /\ p \notin Judged /\ p \notin lost
    BY <1>1, <1>6, Exclusive
  <2>2. p \notin passed /\ p \notin dropped /\ p \notin Out /\ p \notin Outgoing(f)
    BY <1>1, <2>1, Exclusive DEF Judged
  <2>3. InFpQ(p) = {} /\ InFp(p) = {} /\ InOutQ(p) = {} /\ AtEnd(p) = {}
    BY <1>5, <2>1, <2>2, OutQPlaces, EndPlaces DEF Out
  <2>4. \A j \in LB : j # l => p \notin In(lbQ[j]) /\ lbJob[j] # p
    BY <1>2, InHands
  <2>5. CASE p \in In(lbQ[l])
    <3>1. lbJob[l] # p
      BY <1>2, <2>5, InHands
    <3>2. IsOne(InLbQ(p)) /\ InLb(p) = {}
      BY <1>2, <2>4, <2>5, <3>1, LbQPlaces, HandPlaces
    <3> QED
      BY <1>3, <2>3, <3>2 DEF IsOne
  <2>6. CASE p \notin In(lbQ[l])
    <3>1. lbJob[l] = p
      BY <1>2, <1>6, <2>6, InHands
    <3>2. InLbQ(p) = {} /\ IsOne(InLb(p))
      BY <1>2, <2>4, <2>6, <3>1, LbQPlaces, HandPlaces
    <3> QED
      BY <1>3, <2>3, <3>2 DEF IsOne
  <2> QED
    BY <2>5, <2>6
<1>7. CASE p \in Queued(f)
  <2>1. p \notin Judged /\ p \notin lost /\ p \notin Held(l)
    BY <1>1, <1>7, Exclusive
  <2>2. p \notin passed /\ p \notin dropped /\ p \notin Out /\ p \notin Outgoing(f)
    BY <1>1, <2>1, Exclusive DEF Judged
  <2>3. InLbQ(p) = {} /\ InLb(p) = {} /\ InOutQ(p) = {} /\ AtEnd(p) = {}
    BY <1>4, <2>1, <2>2, OutQPlaces, EndPlaces DEF Out
  <2>4. \A g \in FP : g # f => p \notin In(fpQ[g]) /\ fpJob[g] # p
    BY <1>2, InHands
  <2>5. CASE p \in In(fpQ[f])
    <3>1. fpJob[f] # p
      BY <1>2, <2>2, <2>5, InHands
    <3>2. IsOne(InFpQ(p)) /\ InFp(p) = {}
      BY <1>2, <2>4, <2>5, <3>1, FpQPlaces, HandPlaces
    <3> QED
      BY <1>3, <2>3, <3>2 DEF IsOne
  <2>6. CASE p \notin In(fpQ[f])
    <3>1. fpJob[f] = p
      BY <1>2, <1>7, <2>6, InHands
    <3>2. InFpQ(p) = {} /\ IsOne(InFp(p))
      BY <1>2, <2>4, <2>6, <3>1, FpQPlaces, HandPlaces
    <3> QED
      BY <1>3, <2>3, <3>2 DEF IsOne
  <2> QED
    BY <2>5, <2>6
<1>8. CASE p \in Outgoing(f)
  <2>1. p \in passed /\ p \notin Out /\ p \notin lost
    BY <1>1, <1>8, Exclusive
  <2>2. p \notin dropped /\ p \notin Held(l) /\ p \notin Queued(f)
    BY <1>1, <2>1, Exclusive DEF Judged
  <2>3. InLbQ(p) = {} /\ InLb(p) = {} /\ InOutQ(p) = {} /\ AtEnd(p) = {}
    BY <1>4, <2>1, <2>2, OutQPlaces, EndPlaces DEF Out
  <2>4. \A g \in FP : p \notin In(fpQ[g])
    BY <1>2, <2>2, InHands
  <2>5. fpJob[f] = p /\ \A g \in FP : g # f => fpJob[g] # p
    BY <1>2, <1>8, InHands
  <2>6. InFpQ(p) = {} /\ IsOne(InFp(p))
    BY <1>2, <2>4, <2>5, FpQPlaces, HandPlaces
  <2> QED
    BY <1>3, <2>3, <2>6 DEF IsOne
<1>9. CASE p \notin Held(l) /\ p \notin Queued(f) /\ p \notin Outgoing(f)
  <2>1. Where(p) = InOutQ(p) \cup AtEnd(p)
    BY <1>3, <1>4, <1>5, <1>9
  <2>2. p \in Judged \/ p \in lost
    BY <1>1, <1>9 DEF Pipeline, Flowing, Somewhere
  <2>3. p \in Out \/ p \in dropped \/ p \in lost
    BY <1>9, <2>2 DEF Judged, Delivery, Delivered
  <2>4. CASE p \in In(outQ)
    <3>1. p \notin written /\ p \notin dropped /\ p \notin lost
      BY <1>1, <2>4, Exclusive DEF Out
    <3>2. IsOne(InOutQ(p)) /\ AtEnd(p) = {}
      BY <2>4, <3>1, OutQPlaces, EndPlaces
    <3> QED
      BY <2>1, <3>2 DEF IsOne
  <2>5. CASE p \notin In(outQ)
    <3>1. \/ p \in written /\ p \notin dropped \cup lost
          \/ p \in dropped /\ p \notin written \cup lost
          \/ p \in lost /\ p \notin written \cup dropped
      BY <1>1, <2>3, <2>5, Exclusive DEF Out
    <3>2. IsOne(AtEnd(p)) /\ InOutQ(p) = {}
      BY <2>5, <3>1, OutQPlaces, EndPlaces
    <3> QED
      BY <2>1, <3>2 DEF IsOne
  <2> QED
    BY <2>4, <2>5
<1> QED
  BY <1>6, <1>7, <1>8, <1>9

(* Between the reader and the file no packet disappears and none is in two   *)
(* places, for any number of threads, any queue size and any capture.        *)
THEOREM ConservationCorrect == Spec => []Conservation
<1>1. ASSUME Passage PROVE Conservation
  <2> SUFFICES ASSUME NEW p \in Read PROVE Cardinality(Where(p)) = 1
    BY DEF Conservation, Read
  <2>1. PICK x : Where(p) = {x}
    BY <1>1, OnePlaceReading, OnePlaceSent DEF IsOne
  <2> QED
    BY <2>1, FS_Singleton
<1> QED
  BY <1>1, PassageCorrect, PTL

-----------------------------------------------------------------------------
LEMMA Division ==
    ASSUME NEW h \in Nat, NEW n \in Nat \ {0}
    PROVE  \E q \in Int : h = n * q + (h % n)
<1>1. h \div n \in Int /\ h = n * (h \div n) + (h % n)
  OBVIOUS
<1> QED
  BY <1>1

(* Both levels reduce the same hash (load_balancer.cpp:132): when the number *)
(* of balancers and the size of a pool are both even, as in the default      *)
(* configuration, an even balancer only ever feeds its even fast paths and   *)
(* an odd one its odd ones.  Half of the fast paths never receive a packet.  *)
THEOREM HalfTheFastPathsIdle ==
    ASSUME NEW a \in Nat \ {0}, NEW b \in Nat \ {0}, NumLBs = 2 * a, FpsPerLB = 2 * b, NEW fl \in Flow
    PROVE  FpFor(LbFor(fl), fl) % 2 = LbFor(fl) % 2
<1> PICK h, l, i : h = Hash[fl] /\ l = h % NumLBs /\ i = h % FpsPerLB
  OBVIOUS
<1>1. h \in Nat
  BY EngineAssumption DEF EngineAssumption
<1>2. PICK q \in Int : h = NumLBs * q + l
  BY <1>1, Division, EngineAssumption DEF EngineAssumption
<1>3. PICK r \in Int : h = FpsPerLB * r + i
  BY <1>1, Division, EngineAssumption DEF EngineAssumption
<1>4. l \in Nat /\ i \in Nat
  BY <1>1, EngineAssumption DEF EngineAssumption
<1>5. PICK x, y, z \in Int : x = a * q /\ y = b * r /\ z = l * b
  BY <1>2, <1>3, <1>4
<1>6. h = 2 * x + l /\ h = 2 * y + i /\ l * FpsPerLB = 2 * z
  <2>1. (2 * a) * q = 2 * (a * q) /\ (2 * b) * r = 2 * (b * r) /\ l * (2 * b) = 2 * (l * b)
    BY <1>2, <1>3, <1>4
  <2> QED
    BY <1>2, <1>3, <1>5, <2>1
<1>7. ((2 * z) + i) % 2 = l % 2
  <2>1. (2 * z) + i = l + 2 * (x - y + z)
    BY <1>4, <1>5, <1>6
  <2> QED
    BY <1>4, <1>5, <2>1
<1>8. FpFor(LbFor(fl), fl) = (2 * z) + i /\ LbFor(fl) = l
  BY <1>6 DEF FpFor, LbFor
<1> QED
  BY <1>7, <1>8

-----------------------------------------------------------------------------
(* Waiting                                                                   *)

(* A thread ends only after it is told to, and is joined only then; the      *)
(* output queue stays shut down after the first stop().                      *)
RunsUntilStopped ==
    /\ \A l \in LB : lbRunning[l] => lbPc[l] # "off"
    /\ \A f \in FP : fpRunning[f] => fpPc[f] # "off"
    /\ running => outPc # "off"
    /\ mainPc \in Reading => running /\ \A l \in LB : lbRunning[l]
    /\ mainPc \in Reading \cup StoppingLBs => \A f \in FP : fpRunning[f]
    /\ mainPc = "joinLB" => ~lbRunning[idx]
    /\ mainPc = "joinFP" => ~fpRunning[idx]
    /\ running => mainPc \in Reading
    /\ mainPc = "joinOutput" \/ (mainPc = "idle" /\ files # 0) \/ ~FirstCall => outClosed

(* Who waits for room waits for a thread that has not ended, but for a fast  *)
(* path that waits for the output thread in the first stop(), if that began  *)
(* with packets in flight; stop() joins threads that were told to stop.      *)
OnlyWriterMissed ==
    /\ readerPc = "push" => lbPc[LbFor(capture[readerJob])] # "off"
    /\ \A l \in LB : lbPc[l] = "push" => fpPc[FpFor(l, capture[lbJob[l]])] # "off"
    /\ \A f \in FP : fpPc[f] = "push" /\ outPc = "off" /\ ~outClosed
                       => FirstCall /\ ~running /\ ~quietStop
    /\ mainPc = "joinLB" => ~lbRunning[idx]
    /\ mainPc = "joinFP" => ~fpRunning[idx]
    /\ mainPc = "joinOutput" => ~running

(* Threads run until they are told to stop, in every call of processFile.    *)
LEMMA RunsStep == TypeOK /\ Gone /\ RunsUntilStopped /\ [Next]_vars => RunsUntilStopped'
<1> SUFFICES ASSUME TypeOK, Gone, RunsUntilStopped, [Next]_vars PROVE RunsUntilStopped'
  OBVIOUS
<1> USE DEF RunsUntilStopped, FirstCall, Reading, StoppingLBs, StoppingFPs,
            vars, mainVars, readerVars, lbVars, fpVars, outVars, flags
<1>1. ASSUME UNCHANGED <<mainVars, lbPc, fpPc, outPc, flags>> PROVE RunsUntilStopped'
  BY <1>1
<1>2. CASE ProcessFile
  BY <1>2 DEF ProcessFile, TypeOK, MainTypeOK
<1>3. CASE JoinReader \/ Stop
  BY <1>3 DEF JoinReader, Stop
<1>4. CASE SignalLB
  BY <1>4 DEF SignalLB, TypeOK, MainTypeOK, FlagTypeOK
<1>5. CASE JoinLB
  BY <1>5 DEF JoinLB
<1>6. CASE SignalFP
  BY <1>6 DEF SignalFP, TypeOK, MainTypeOK, FlagTypeOK
<1>7. CASE JoinFP
  BY <1>7 DEF JoinFP
<1>8. CASE CloseOutput \/ JoinOutput
  BY <1>8 DEF CloseOutput, JoinOutput
<1>9. CASE Reader
  BY <1>1, <1>9 DEF Reader, OpenInput, WriteHeader, EndOfCapture, ReaderPush, ReadPacket
<1>10. ASSUME NEW l \in LB, LoadBalancer(l) PROVE RunsUntilStopped'
  <2>1. /\ UNCHANGED <<mainVars, fpPc, outPc, flags>>
        /\ \A k \in LB : lbPc[k] # "off" /\ lbRunning[k] => lbPc'[k] # "off"
    BY <1>10 DEF LoadBalancer, LbCheck, LbCrash, LbPop, LbPush, TypeOK, LbTypeOK
  <2> QED
    BY <2>1
<1>11. ASSUME NEW f \in FP, FastPath(f) PROVE RunsUntilStopped'
  <2>1. /\ UNCHANGED <<mainVars, lbPc, outPc, flags>>
        /\ \A g \in FP : fpPc[g] # "off" /\ fpRunning[g] => fpPc'[g] # "off"
    BY <1>11 DEF FastPath, FpCheck, FpPop, FpDrop, FpForward, FpPush, TypeOK, FpTypeOK
  <2> QED
    BY <2>1
<1>12. CASE OutputThread
  BY <1>12 DEF OutputThread, OutCheck, OutPop
<1>13. CASE UNCHANGED vars
  BY <1>1, <1>13
<1> QED
  BY <1>2, <1>3, <1>4, <1>5, <1>6, <1>7, <1>8, <1>9, <1>10, <1>11, <1>12, <1>13 DEF Next, Main

(* The one wait that nobody answers is that of a fast path for the output    *)
(* thread, which ends on its own as soon as running_ is cleared and its      *)
(* queue is empty (dpi_engine.cpp:91-105, 286-304); a stop() that begins     *)
(* with nothing in flight, and every wait before stop(), is free of it.      *)
THEOREM OnlyWriterMissedCorrect == Spec => []OnlyWriterMissed
<1>1. Init => RunsUntilStopped
  BY DEF Init, RunsUntilStopped, Reading, StoppingLBs, FirstCall
<1>2. ASSUME Passage, RunsUntilStopped PROVE OnlyWriterMissed
  <2> USE <1>2
  <2>0. TypeOK /\ JobsRead /\ Gone /\ Silent
    BY DEF Passage
  <2>1. ASSUME readerPc = "push" PROVE lbPc[LbFor(capture[readerJob])] # "off"
    <3>1. LbFor(capture[readerJob]) \in LB /\ mainPc = "joinReader"
      BY <2>0, <2>1, ReaderTarget DEF Gone
    <3> QED
      BY <3>1 DEF RunsUntilStopped, Reading
  <2>2. ASSUME NEW l \in LB, lbPc[l] = "push"
        PROVE  fpPc[FpFor(l, capture[lbJob[l]])] # "off"
    <3>1. FpFor(l, capture[lbJob[l]]) \in FP /\ mainPc \in Reading \cup StoppingLBs
      BY <2>0, <2>2, LbTarget DEF Gone
    <3> QED
      BY <3>1 DEF RunsUntilStopped
  <2>3. ASSUME NEW f \in FP, fpPc[f] = "push", outPc = "off", ~outClosed
        PROVE  FirstCall /\ ~running /\ ~quietStop
    <3>1. FirstCall /\ ~running
      BY <2>3 DEF RunsUntilStopped
    <3>2. fpJob[f] # NoPacket
      BY <2>0, <2>3 DEF TypeOK, FpTypeOK
    <3> QED
      BY <2>0, <3>1, <3>2 DEF Silent, Quiet
  <2>4. /\ mainPc = "joinLB" => ~lbRunning[idx]
        /\ mainPc = "joinFP" => ~fpRunning[idx]
        /\ mainPc = "joinOutput" => ~running
    BY ONLY RunsUntilStopped DEF RunsUntilStopped, Reading
  <2> QED
    BY ONLY <2>1, <2>2, <2>3, <2>4 DEF OnlyWriterMissed
<1>3. Passage => TypeOK /\ Gone
  BY DEF Passage
<1> QED
  BY RunsStep, PassageCorrect, <1>1, <1>2, <1>3, PTL DEF Spec
=============================================================================
