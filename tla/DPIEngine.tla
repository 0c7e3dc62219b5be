------------------------------ MODULE DPIEngine ------------------------------
(* The offline engine of src/dpi_engine.cpp: the thread that calls           *)
(* processFile, the reader, NumLBs load balancers (src/load_balancer.cpp),   *)
(* FpsPerLB fast paths behind each (src/fast_path.cpp) and the output        *)
(* writer, joined by bounded queues.                                         *)
(*                                                                           *)
(* A queue is a BoundedFifo, which ThreadSafeQueue implements: push waits    *)
(* for room and drops its item once the queue is shut down, popWithTimeout   *)
(* returns an item when there is one and may return nothing when there is    *)
(* none.  A packet is its position in the capture; 0 is no packet.  Which    *)
(* verdict processPacket reaches is the subject of FastPath; here it is any. *)
EXTENDS Naturals, Sequences, FiniteSets

CONSTANTS NumLBs,      (* Config::num_load_balancers                          *)
          FpsPerLB,    (* Config::fps_per_lb                                  *)
          QueueSize,   (* max_size_ of every queue, 10000 in the code         *)
          Flow,        (* five-tuples                                         *)
          Hash,        (* FiveTupleHash                                       *)
          MaxPackets,  (* bound: packets read by all calls of processFile     *)
          MaxFiles     (* bound: calls of processFile                         *)

ASSUME EngineAssumption ==
    /\ NumLBs \in Nat \ {0}
    /\ FpsPerLB \in Nat \ {0}
    /\ QueueSize \in Nat \ {0}
    /\ Hash \in [Flow -> Nat]
    /\ MaxPackets \in Nat
    /\ MaxFiles \in Nat

LB == 0..(NumLBs - 1)
FP == 0..((NumLBs * FpsPerLB) - 1)
Packet == 1..MaxPackets
NoPacket == 0
Header == 0

VARIABLES
    mainPc, idx, files,            (* caller of processFile; loop index; calls   *)
    running,                       (* DPIEngine::running_                        *)
    readerPc, readerJob,           (* reader thread                              *)
    lbPc, lbJob, lbRunning,        (* LB threads, LoadBalancer::running_         *)
    fpPc, fpJob, fpRunning,        (* FP threads, FastPathProcessor::running_    *)
    outPc,                         (* output thread                              *)
    lbQ, lbClosed,                 (* LoadBalancer::input_queue_                 *)
    fpQ, fpClosed,                 (* FastPathProcessor::input_queue_            *)
    outQ, outClosed,               (* output_queue_                              *)
    outFile,                       (* contents of output_file_                   *)
    dispatched,                    (* history: packets sent to each fast path    *)
    crashed,                       (* the process died                           *)
    capture,                       (* flow of each packet; total_packets long    *)
    passed, dropped,               (* packets counted in forwarded_packets and
                                      dropped_packets                            *)
    written,                       (* history: packets written to any file       *)
    lost,                          (* history: packets a closed queue refused    *)
    quietStop                      (* history: nothing was in flight at stop()   *)

mainVars == <<mainPc, idx, files, running, quietStop>>
readerVars == <<readerPc, readerJob, capture>>
lbVars == <<lbPc, lbJob, dispatched, crashed>>
fpVars == <<fpPc, fpJob, passed, dropped>>
outVars == <<outPc, written>>
flags == <<lbRunning, fpRunning, lbClosed, fpClosed, outClosed>>
vars == <<mainVars, readerVars, lbVars, fpVars, outVars, flags, lbQ, fpQ, outQ, outFile, lost>>

MainPc == {"idle", "joinReader", "stop", "signalLB", "joinLB", "signalFP", "joinFP",
           "closeOutput", "joinOutput"}

MainTypeOK ==
    /\ mainPc \in MainPc /\ idx \in Nat /\ files \in 0..MaxFiles
    /\ mainPc \in {"signalLB", "joinLB"} => idx \in LB
    /\ mainPc \in {"signalFP", "joinFP"} => idx \in FP
    /\ running \in BOOLEAN /\ quietStop \in BOOLEAN

ReaderTypeOK ==
    /\ readerPc \in {"off", "open", "header", "read", "push"}
    /\ readerJob \in Packet \cup {NoPacket}
    /\ readerPc = "push" => readerJob # NoPacket
    /\ capture \in Seq(Flow) /\ Len(capture) <= MaxPackets

LbTypeOK ==
    /\ lbPc \in [LB -> {"off", "check", "pop", "push", "count"}]
    /\ lbJob \in [LB -> Packet \cup {NoPacket}]
    /\ \A l \in LB : lbPc[l] = "push" => lbJob[l] # NoPacket
    /\ dispatched \in [FP -> Nat] /\ crashed \in BOOLEAN

FpTypeOK ==
    /\ fpPc \in [FP -> {"off", "check", "pop", "handle", "push"}]
    /\ fpJob \in [FP -> Packet \cup {NoPacket}]
    /\ \A f \in FP : fpPc[f] \in {"handle", "push"} => fpJob[f] # NoPacket
    /\ passed \subseteq Packet /\ dropped \subseteq Packet

OutTypeOK ==
    /\ outPc \in {"off", "check", "pop"}
    /\ outFile \in Seq(Packet \cup {Header})
    /\ written \subseteq Packet /\ lost \subseteq Packet

FlagTypeOK ==
    /\ lbRunning \in [LB -> BOOLEAN] /\ lbClosed \in [LB -> BOOLEAN]
    /\ fpRunning \in [FP -> BOOLEAN] /\ fpClosed \in [FP -> BOOLEAN]
    /\ outClosed \in BOOLEAN

(* No queue holds more than QueueSize packets. *)
QueueTypeOK ==
    /\ lbQ \in [LB -> Seq(Packet)] /\ \A l \in LB : Len(lbQ[l]) <= QueueSize
    /\ fpQ \in [FP -> Seq(Packet)] /\ \A f \in FP : Len(fpQ[f]) <= QueueSize
    /\ outQ \in Seq(Packet) /\ Len(outQ) <= QueueSize

TypeOK ==
    MainTypeOK /\ ReaderTypeOK /\ LbTypeOK /\ FpTypeOK /\ OutTypeOK /\ FlagTypeOK /\ QueueTypeOK

Init ==
    /\ mainPc = "idle" /\ idx = 0 /\ files = 0
    /\ running = FALSE /\ quietStop = FALSE
    /\ readerPc = "off" /\ readerJob = NoPacket
    /\ lbPc = [l \in LB |-> "off"] /\ lbJob = [l \in LB |-> NoPacket]
    /\ fpPc = [f \in FP |-> "off"] /\ fpJob = [f \in FP |-> NoPacket]
    /\ outPc = "off"
    /\ lbRunning = [l \in LB |-> FALSE] /\ lbClosed = [l \in LB |-> FALSE]
    /\ fpRunning = [f \in FP |-> FALSE] /\ fpClosed = [f \in FP |-> FALSE]
    /\ outClosed = FALSE
    /\ lbQ = [l \in LB |-> <<>>] /\ fpQ = [f \in FP |-> <<>>] /\ outQ = <<>>
    /\ outFile = <<>>
    /\ dispatched = [f \in FP |-> 0]
    /\ capture = <<>> /\ crashed = FALSE
    /\ passed = {} /\ dropped = {} /\ written = {} /\ lost = {}

-----------------------------------------------------------------------------
(* Mutant of FpFor: the least loaded fast path instead of the hashed one. *)
FpForLeastLoaded(l, fl) ==
    CHOOSE f \in {(l * FpsPerLB) + i : i \in 0..(FpsPerLB - 1)} :
        \A i \in 0..(FpsPerLB - 1) : dispatched[f] <= dispatched[(l * FpsPerLB) + i]

(* getLBForPacket, then selectFP in the pool of that balancer: both levels   *)
(* reduce the same hash.                                                     *)
LbFor(fl) == Hash[fl] % NumLBs
FpFor(l, fl) == (l * FpsPerLB) + (Hash[fl] % FpsPerLB)
Pool(l) == {(l * FpsPerLB) + i : i \in 0..(FpsPerLB - 1)}

(* The thread that calls processFile.                                        *)

(* processFile: open and truncate the output file (it returns at once, with  *)
(* nothing changed, when it cannot), start() and the reader thread.  The     *)
(* threads start one by one, but none reads what the start of another        *)
(* writes.  shutdown_ of the queues is not reset.                            *)
ProcessFile ==
    /\ mainPc = "idle" /\ files < MaxFiles
    /\ files' = files + 1
    /\ mainPc' = "joinReader"
    /\ outFile' = <<>>
    /\ running' = TRUE
    /\ outPc' = "check"
    /\ fpRunning' = [f \in FP |-> TRUE] /\ fpPc' = [f \in FP |-> "check"]
    /\ lbRunning' = [l \in LB |-> TRUE] /\ lbPc' = [l \in LB |-> "check"]
    /\ readerPc' = "open"
    /\ UNCHANGED <<idx, quietStop, readerJob, capture, lbJob, dispatched, crashed, fpJob, passed,
                   dropped, written, lbClosed, fpClosed, outClosed, lbQ, fpQ, outQ, lost>>

(* waitForCompletion: join the reader.  The two sleeps that follow, 500 and  *)
(* 200 ms, wait for nothing in particular.                                   *)
JoinReader ==
    /\ mainPc = "joinReader" /\ readerPc = "off"
    /\ mainPc' = "stop"
    /\ UNCHANGED <<idx, files, running, quietStop, readerVars, lbVars, fpVars, outVars, flags,
                   lbQ, fpQ, outQ, outFile, lost>>

(* No packet is in a queue or in the hands of a thread. *)
Quiet ==
    /\ \A l \in LB : lbQ[l] = <<>> /\ lbJob[l] = NoPacket
    /\ \A f \in FP : fpQ[f] = <<>> /\ fpJob[f] = NoPacket
    /\ outQ = <<>>

Stop ==
    /\ mainPc = "stop"
    /\ mainPc' = "signalLB" /\ idx' = 0
    /\ running' = FALSE
    /\ quietStop' = Quiet
    /\ UNCHANGED <<files, readerVars, lbVars, fpVars, outVars, flags, lbQ, fpQ, outQ, outFile, lost>>

(* Mutant of SignalLB: the queue is shut down, running_ is not cleared. *)
SignalLBQueueOnly ==
    /\ mainPc = "signalLB"
    /\ mainPc' = "joinLB"
    /\ lbClosed' = [lbClosed EXCEPT ![idx] = TRUE]
    /\ UNCHANGED <<idx, files, running, quietStop, readerVars, lbVars, fpVars, outVars, lbRunning,
                   fpRunning, fpClosed, outClosed, lbQ, fpQ, outQ, outFile, lost>>

(* LoadBalancer::stop: clear the flag, shut the queue down, join. *)
SignalLB ==
    /\ mainPc = "signalLB"
    /\ mainPc' = "joinLB"
    /\ lbRunning' = [lbRunning EXCEPT ![idx] = FALSE]
    /\ lbClosed' = [lbClosed EXCEPT ![idx] = TRUE]
    /\ UNCHANGED <<idx, files, running, quietStop, readerVars, lbVars, fpVars, outVars,
                   fpRunning, fpClosed, outClosed, lbQ, fpQ, outQ, outFile, lost>>

(* Mutant of JoinLB: stop() does not wait for the balancer. *)
JoinLBNoWait ==
    /\ mainPc = "joinLB"
    /\ \/ idx + 1 \in LB /\ idx' = idx + 1 /\ mainPc' = "signalLB"
       \/ idx + 1 \notin LB /\ idx' = 0 /\ mainPc' = "signalFP"
    /\ UNCHANGED <<files, running, quietStop, readerVars, lbVars, fpVars, outVars, flags,
                   lbQ, fpQ, outQ, outFile, lost>>

JoinLB ==
    /\ mainPc = "joinLB" /\ lbPc[idx] = "off"
    /\ \/ idx + 1 \in LB /\ idx' = idx + 1 /\ mainPc' = "signalLB"
       \/ idx + 1 \notin LB /\ idx' = 0 /\ mainPc' = "signalFP"
    /\ UNCHANGED <<files, running, quietStop, readerVars, lbVars, fpVars, outVars, flags,
                   lbQ, fpQ, outQ, outFile, lost>>

(* FastPathProcessor::stop: clear the flag, shut the queue down, join. *)
SignalFP ==
    /\ mainPc = "signalFP"
    /\ mainPc' = "joinFP"
    /\ fpRunning' = [fpRunning EXCEPT ![idx] = FALSE]
    /\ fpClosed' = [fpClosed EXCEPT ![idx] = TRUE]
    /\ UNCHANGED <<idx, files, running, quietStop, readerVars, lbVars, fpVars, outVars,
                   lbRunning, lbClosed, outClosed, lbQ, fpQ, outQ, outFile, lost>>

JoinFP ==
    /\ mainPc = "joinFP" /\ fpPc[idx] = "off"
    /\ \/ idx + 1 \in FP /\ idx' = idx + 1 /\ mainPc' = "signalFP"
       \/ idx + 1 \notin FP /\ idx' = 0 /\ mainPc' = "closeOutput"
    /\ UNCHANGED <<files, running, quietStop, readerVars, lbVars, fpVars, outVars, flags,
                   lbQ, fpQ, outQ, outFile, lost>>

CloseOutput ==
    /\ mainPc = "closeOutput"
    /\ mainPc' = "joinOutput"
    /\ outClosed' = TRUE
    /\ UNCHANGED <<idx, files, running, quietStop, readerVars, lbVars, fpVars, outVars,
                   lbRunning, fpRunning, lbClosed, fpClosed, lbQ, fpQ, outQ, outFile, lost>>

(* Join the output thread, close the file, print the reports, return true. *)
JoinOutput ==
    /\ mainPc = "joinOutput" /\ outPc = "off"
    /\ mainPc' = "idle"
    /\ UNCHANGED <<idx, files, running, quietStop, readerVars, lbVars, fpVars, outVars, flags,
                   lbQ, fpQ, outQ, outFile, lost>>

Main ==
    /\ ~crashed
    /\ \/ ProcessFile \/ JoinReader \/ Stop \/ SignalLB \/ JoinLB
       \/ SignalFP \/ JoinFP \/ CloseOutput \/ JoinOutput

-----------------------------------------------------------------------------
(* readerThreadFunc                                                          *)

(* The reader returns without a trace when the input cannot be opened;       *)
(* processFile reports success all the same.                                 *)
OpenInput ==
    /\ readerPc = "open"
    /\ readerPc' \in {"off", "header"}
    /\ UNCHANGED <<mainVars, readerJob, capture, lbVars, fpVars, outVars, flags,
                   lbQ, fpQ, outQ, outFile, lost>>

WriteHeader ==
    /\ readerPc = "header"
    /\ readerPc' = "read"
    /\ outFile' = Append(outFile, Header)
    /\ UNCHANGED <<mainVars, readerJob, capture, lbVars, fpVars, outVars, flags,
                   lbQ, fpQ, outQ, lost>>

(* The next TCP or UDP packet of the capture; the others are skipped. *)
ReadPacket(fl) ==
    /\ readerPc = "read" /\ Len(capture) < MaxPackets
    /\ readerPc' = "push"
    /\ capture' = Append(capture, fl)
    /\ readerJob' = Len(capture')
    /\ UNCHANGED <<mainVars, lbVars, fpVars, outVars, flags, lbQ, fpQ, outQ, outFile, lost>>

(* readNextPacket returns false at the end of the file or at a bad record. *)
EndOfCapture ==
    /\ readerPc = "read"
    /\ readerPc' = "off"
    /\ UNCHANGED <<mainVars, readerJob, capture, lbVars, fpVars, outVars, flags,
                   lbQ, fpQ, outQ, outFile, lost>>

(* Mutant of ReaderPush: tryPush, its result ignored. *)
ReaderTryPush ==
    LET l == LbFor(capture[readerJob]) IN
    /\ readerPc = "push"
    /\ \/ /\ lbClosed[l] \/ Len(lbQ[l]) >= QueueSize
          /\ UNCHANGED lbQ
       \/ /\ ~lbClosed[l] /\ Len(lbQ[l]) < QueueSize
          /\ lbQ' = [lbQ EXCEPT ![l] = Append(@, readerJob)]
    /\ readerPc' = "read" /\ readerJob' = NoPacket
    /\ UNCHANGED <<mainVars, capture, lbVars, fpVars, outVars, flags, fpQ, outQ, outFile, lost>>

ReaderPush ==
    LET l == LbFor(capture[readerJob]) IN
    /\ readerPc = "push"
    /\ \/ /\ lbClosed[l]
          /\ lost' = lost \cup {readerJob}
          /\ UNCHANGED lbQ
       \/ /\ ~lbClosed[l] /\ Len(lbQ[l]) < QueueSize
          /\ lbQ' = [lbQ EXCEPT ![l] = Append(@, readerJob)]
          /\ UNCHANGED lost
    /\ readerPc' = "read" /\ readerJob' = NoPacket
    /\ UNCHANGED <<mainVars, capture, lbVars, fpVars, outVars, flags, fpQ, outQ, outFile>>

Reader ==
    /\ ~crashed
    /\ \/ OpenInput \/ WriteHeader \/ EndOfCapture \/ ReaderPush
       \/ \E fl \in Flow : ReadPacket(fl)

-----------------------------------------------------------------------------
(* LoadBalancer::run                                                         *)

LbCheck(l) ==
    /\ lbPc[l] \in {"check", "count"}
    /\ lbPc' = [lbPc EXCEPT ![l] = IF lbRunning[l] THEN "pop" ELSE "off"]
    /\ UNCHANGED <<mainVars, readerVars, lbJob, dispatched, crashed, fpVars, outVars, flags,
                   lbQ, fpQ, outQ, outFile, lost>>

(* per_fp_counts_[fp_index]++ after a push.  The constructor sizes           *)
(* per_fp_counts_ from the parameter it has already moved into fp_queues_:   *)
(* the vector is empty, the increment writes through a null pointer and the  *)
(* behaviour is undefined.  Either the process dies here, or it goes on.     *)
LbCrash(l) ==
    /\ lbPc[l] = "count"
    /\ crashed' = TRUE
    /\ UNCHANGED <<mainVars, readerVars, lbPc, lbJob, dispatched, fpVars, outVars, flags,
                   lbQ, fpQ, outQ, outFile, lost>>

(* Mutant of LbPop: the thread gives up on the first timeout. *)
LbPopGivesUp(l) ==
    /\ lbPc[l] = "pop"
    /\ \/ /\ lbQ[l] = <<>>
          /\ lbPc' = [lbPc EXCEPT ![l] = "off"]
          /\ UNCHANGED <<lbQ, lbJob>>
       \/ /\ lbQ[l] # <<>>
          /\ lbJob' = [lbJob EXCEPT ![l] = Head(lbQ[l])]
          /\ lbQ' = [lbQ EXCEPT ![l] = Tail(@)]
          /\ lbPc' = [lbPc EXCEPT ![l] = "push"]
    /\ UNCHANGED <<mainVars, readerVars, dispatched, crashed, fpVars, outVars, flags,
                   fpQ, outQ, outFile, lost>>

LbPop(l) ==
    /\ lbPc[l] = "pop"
    /\ \/ /\ lbQ[l] = <<>>          \* timeout or shutdown
          /\ lbPc' = [lbPc EXCEPT ![l] = "check"]
          /\ UNCHANGED <<lbQ, lbJob>>
       \/ /\ lbQ[l] # <<>>
          /\ lbJob' = [lbJob EXCEPT ![l] = Head(lbQ[l])]
          /\ lbQ' = [lbQ EXCEPT ![l] = Tail(@)]
          /\ lbPc' = [lbPc EXCEPT ![l] = "push"]
    /\ UNCHANGED <<mainVars, readerVars, dispatched, crashed, fpVars, outVars, flags,
                   fpQ, outQ, outFile, lost>>

(* Mutant of LbPush: the capacity test is off by one. *)
LbPushOverfull(l) ==
    LET f == FpFor(l, capture[lbJob[l]]) IN
    /\ lbPc[l] = "push"
    /\ Len(fpQ[f]) <= QueueSize
    /\ fpQ' = [fpQ EXCEPT ![f] = Append(@, lbJob[l])]
    /\ dispatched' = [dispatched EXCEPT ![f] = @ + 1]
    /\ lbPc' = [lbPc EXCEPT ![l] = "count"]
    /\ lbJob' = [lbJob EXCEPT ![l] = NoPacket]
    /\ UNCHANGED <<mainVars, readerVars, crashed, fpVars, outVars, flags, lbQ, outQ, outFile, lost>>

LbPush(l) ==
    LET f == FpFor(l, capture[lbJob[l]]) IN
    /\ lbPc[l] = "push"
    /\ \/ /\ fpClosed[f]
          /\ lost' = lost \cup {lbJob[l]}
          /\ UNCHANGED fpQ
       \/ /\ ~fpClosed[f] /\ Len(fpQ[f]) < QueueSize
          /\ fpQ' = [fpQ EXCEPT ![f] = Append(@, lbJob[l])]
          /\ UNCHANGED lost
    /\ dispatched' = [dispatched EXCEPT ![f] = @ + 1]
    /\ lbPc' = [lbPc EXCEPT ![l] = "count"]
    /\ lbJob' = [lbJob EXCEPT ![l] = NoPacket]
    /\ UNCHANGED <<mainVars, readerVars, crashed, fpVars, outVars, flags, lbQ, outQ, outFile>>

LoadBalancer(l) == ~crashed /\ (LbCheck(l) \/ LbPop(l) \/ LbPush(l) \/ LbCrash(l))

-----------------------------------------------------------------------------
(* FastPathProcessor::run and the callback handleOutput                      *)

FpCheck(f) ==
    /\ fpPc[f] = "check"
    /\ fpPc' = [fpPc EXCEPT ![f] = IF fpRunning[f] THEN "pop" ELSE "off"]
    /\ UNCHANGED <<mainVars, readerVars, lbVars, fpJob, passed, dropped, outVars, flags,
                   lbQ, fpQ, outQ, outFile, lost>>

FpPop(f) ==
    /\ fpPc[f] = "pop"
    /\ \/ /\ fpQ[f] = <<>>          \* timeout or shutdown
          /\ fpPc' = [fpPc EXCEPT ![f] = "check"]
          /\ UNCHANGED <<fpQ, fpJob>>
       \/ /\ fpQ[f] # <<>>
          /\ fpJob' = [fpJob EXCEPT ![f] = Head(fpQ[f])]
          /\ fpQ' = [fpQ EXCEPT ![f] = Tail(@)]
          /\ fpPc' = [fpPc EXCEPT ![f] = "handle"]
    /\ UNCHANGED <<mainVars, readerVars, lbVars, passed, dropped, outVars, flags,
                   lbQ, outQ, outFile, lost>>

(* processPacket returned DROP: handleOutput counts it and returns. *)
FpDrop(f) ==
    /\ fpPc[f] = "handle"
    /\ dropped' = dropped \cup {fpJob[f]}
    /\ fpPc' = [fpPc EXCEPT ![f] = "check"]
    /\ fpJob' = [fpJob EXCEPT ![f] = NoPacket]
    /\ UNCHANGED <<mainVars, readerVars, lbVars, passed, outVars, flags,
                   lbQ, fpQ, outQ, outFile, lost>>

(* FORWARD: the packet is counted as forwarded before it is queued. *)
FpForward(f) ==
    /\ fpPc[f] = "handle"
    /\ passed' = passed \cup {fpJob[f]}
    /\ fpPc' = [fpPc EXCEPT ![f] = "push"]
    /\ UNCHANGED <<mainVars, readerVars, lbVars, fpJob, dropped, outVars, flags,
                   lbQ, fpQ, outQ, outFile, lost>>

(* Mutant of FpPush: a full output queue does not hold the fast path back. *)
FpTryPush(f) ==
    /\ fpPc[f] = "push"
    /\ \/ /\ outClosed \/ Len(outQ) >= QueueSize
          /\ UNCHANGED outQ
       \/ /\ ~outClosed /\ Len(outQ) < QueueSize
          /\ outQ' = Append(outQ, fpJob[f])
    /\ fpPc' = [fpPc EXCEPT ![f] = "check"]
    /\ fpJob' = [fpJob EXCEPT ![f] = NoPacket]
    /\ UNCHANGED <<mainVars, readerVars, lbVars, passed, dropped, outVars, flags,
                   lbQ, fpQ, outFile, lost>>

FpPush(f) ==
    /\ fpPc[f] = "push"
    /\ \/ /\ outClosed
          /\ lost' = lost \cup {fpJob[f]}
          /\ UNCHANGED outQ
       \/ /\ ~outClosed /\ Len(outQ) < QueueSize
          /\ outQ' = Append(outQ, fpJob[f])
          /\ UNCHANGED lost
    /\ fpPc' = [fpPc EXCEPT ![f] = "check"]
    /\ fpJob' = [fpJob EXCEPT ![f] = NoPacket]
    /\ UNCHANGED <<mainVars, readerVars, lbVars, passed, dropped, outVars, flags,
                   lbQ, fpQ, outFile>>

FastPath(f) ==
    ~crashed /\ (FpCheck(f) \/ FpPop(f) \/ FpDrop(f) \/ FpForward(f) \/ FpPush(f))

-----------------------------------------------------------------------------
(* outputThreadFunc                                                          *)

(* while (running_ || !output_queue_.empty()) *)
OutCheck ==
    /\ outPc = "check"
    /\ outPc' = IF running \/ outQ # <<>> THEN "pop" ELSE "off"
    /\ UNCHANGED <<mainVars, readerVars, lbVars, fpVars, written, flags,
                   lbQ, fpQ, outQ, outFile, lost>>

OutPop ==
    /\ outPc = "pop"
    /\ outPc' = "check"
    /\ \/ /\ outQ = <<>>            \* timeout or shutdown
          /\ UNCHANGED <<outQ, outFile, written>>
       \/ /\ outQ # <<>>
          /\ outQ' = Tail(outQ)
          /\ outFile' = Append(outFile, Head(outQ))
          /\ written' = written \cup {Head(outQ)}
    /\ UNCHANGED <<mainVars, readerVars, lbVars, fpVars, flags, lbQ, fpQ, lost>>

OutputThread == ~crashed /\ (OutCheck \/ OutPop)

-----------------------------------------------------------------------------
Next ==
    \/ Main
    \/ Reader
    \/ \E l \in LB : LoadBalancer(l)
    \/ \E f \in FP : FastPath(f)
    \/ OutputThread

Spec == Init /\ [][Next]_vars

(* Every thread that can take a step takes one in the end; nobody has to     *)
(* call processFile.                                                         *)
Fairness ==
    /\ WF_vars(Main /\ mainPc # "idle")
    /\ WF_vars(Reader)
    /\ \A l \in LB : WF_vars(LoadBalancer(l))
    /\ \A f \in FP : WF_vars(FastPath(f))
    /\ WF_vars(OutputThread)

FairSpec == Spec /\ Fairness
-----------------------------------------------------------------------------
(* Where packet p is: in a thread's hands, in a queue, or at its end.        *)
Where(p) ==
    {w \in {"reader"} : readerJob = p}
    \cup {w \in {"lbQ"} \X LB \X (1..QueueSize) : w[3] \in DOMAIN lbQ[w[2]] /\ lbQ[w[2]][w[3]] = p}
    \cup {w \in {"lb"} \X LB : lbJob[w[2]] = p}
    \cup {w \in {"fpQ"} \X FP \X (1..QueueSize) : w[3] \in DOMAIN fpQ[w[2]] /\ fpQ[w[2]][w[3]] = p}
    \cup {w \in {"fp"} \X FP : fpJob[w[2]] = p}
    \cup {w \in {"outQ"} \X (1..QueueSize) : w[2] \in DOMAIN outQ /\ outQ[w[2]] = p}
    \cup {w \in {"file"} : p \in written}
    \cup {w \in {"dropped"} : p \in dropped}
    \cup {w \in {"lost"} : p \in lost}

(* Between the reader and the file no packet disappears and none is in two   *)
(* places: five kinds of threads hand it on through three kinds of queues.   *)
Conservation == \A p \in 1..Len(capture) : Cardinality(Where(p)) = 1

(* Some properties hold for the first call of processFile only: shutdown_ is *)
(* never reset, and what stop() left in a queue is still there.              *)
FirstCall == files <= 1

(* stop() shuts the queues down in the order of the pipeline, each after the *)
(* threads that feed it were joined (dpi_engine.cpp:91-105): in the first    *)
(* call of processFile no push meets a closed queue, where it would be       *)
(* dropped without a trace (thread_safe_queue.h:26).                         *)
NoPushAfterShutdown == FirstCall => lost = {}

(* What the sleeps of waitForCompletion and processFile hope for: when       *)
(* everything has drained by the time stop() is called, every packet was     *)
(* judged and every forwarded one is in the file.                            *)
QuietStopLosesNothing ==
    FirstCall /\ quietStop => passed \cup dropped = 1..Len(capture) /\ written = passed

(* Per flow, packets are judged and written in capture order, and nothing    *)
(* but judged packets is written, whatever the threads do.                   *)
Filter == INSTANCE FlowFilter
ImplementsFlowFilter == Filter!Spec

(* Queues that fill up hold back the reader and the balancers but never      *)
(* stop them for good while the engine runs.                                 *)
ReaderFinishes == (mainPc = "joinReader") ~> (mainPc = "stop" \/ crashed)

(* stop() returns when nothing was in flight. *)
QuietStopCompletes == (mainPc = "signalLB" /\ quietStop) ~> (mainPc = "idle" \/ crashed)

-----------------------------------------------------------------------------
(* Statements of the documentation that the code does not keep.              *)

(* "output_file: Path to output PCAP (forwarded traffic)" (dpi_engine.h:72): *)
(* when processFile returns, every packet counted as forwarded is in it.     *)
ForwardedIsWritten == mainPc = "idle" /\ files > 0 => written = passed

(* "Stop the engine (stops all threads)" (dpi_engine.h:79): stop() returns.  *)
StopCompletes == (mainPc = "signalLB") ~> (mainPc = "idle" \/ crashed)
=============================================================================
