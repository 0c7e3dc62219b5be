------------------------------- MODULE MtEngine -------------------------------
(* The engine of src/old_mains/dpi_mt.cpp: main reads the capture and hands  *)
(* packets to NumLBs load balancers, they to FpsPerLB fast paths each, those *)
(* to the output writer.  process() is called once.                          *)
(*                                                                           *)
(* Beside it runs main_working.cpp, one loop over the same capture: the      *)
(* variables simpleFlows and before, which the engine never reads.           *)
EXTENDS PacketFilter, Sequences

CONSTANTS NumLBs,      (* Config::num_lbs                                      *)
          FpsPerLB,    (* Config::fps_per_lb                                   *)
          QueueSize,   (* TSQueue::max_size_, 10000 in the code                *)
          Hash,        (* FiveTupleHash                                        *)
          Captured,    (* the packets a capture is made of                     *)
          MaxPackets   (* bound: packets of the capture                        *)

ASSUME MtAssumption ==
    /\ NumLBs \in Nat \ {0} /\ FpsPerLB \in Nat \ {0} /\ QueueSize \in Nat \ {0}
    /\ Hash \in [Flow -> Nat] /\ Captured \subseteq Packet /\ MaxPackets \in Nat

LB == 0..(NumLBs - 1)
FP == 0..((NumLBs * FpsPerLB) - 1)
NoId == 0

VARIABLES
    mainPc, idx, mainJob,     (* main, the loop index of its stops, pkt        *)
    capture,                  (* the packets read so far                       *)
    lbOn, lbPc, lbJob, lbQ,   (* load balancers: running_, thread, input_queue_*)
    fpOn, fpPc, fpJob, fpQ,   (* fast paths, likewise                          *)
    flows,                    (* FastPath::flows_                              *)
    forwarded, dropped,       (* packets counted in Stats                      *)
    outOn, outPc, outQ, file, (* output_running, output_thread, output         *)
    lost,                     (* history: packets a closed queue refused       *)
    simpleFlows,              (* main_working.cpp: flows                       *)
    before                    (* main_working.cpp: the entry each packet found *)

mainVars == <<mainPc, idx, mainJob>>
readVars == <<capture, simpleFlows, before>>
lbVars == <<lbPc, lbJob>>
fpVars == <<fpPc, fpJob, flows, forwarded, dropped>>
outVars == <<outPc, file>>
on == <<lbOn, fpOn, outOn>>
vars == <<mainVars, readVars, lbVars, fpVars, outVars, on, lbQ, fpQ, outQ, lost>>

(* The packets read so far, each named by its position in the capture. *)
Read == 1..Len(capture)

MainPc == {"start", "read", "push", "signalLB", "joinLB", "signalFP", "joinFP",
           "closeOutput", "joinOutput", "done", "failed"}

MainTypeOK ==
    /\ mainPc \in MainPc /\ idx \in Nat
    /\ mainPc \in {"signalLB", "joinLB"} => idx \in LB
    /\ mainPc \in {"signalFP", "joinFP"} => idx \in FP
    /\ capture \in Seq(Packet) /\ Len(capture) <= MaxPackets
    /\ mainJob = IF mainPc = "push" THEN Len(capture) ELSE NoId
    /\ mainPc = "push" => mainJob \in Read

SimpleTypeOK ==
    /\ simpleFlows \in [Flow -> SimpleEntry]
    /\ before \in Seq(SimpleEntry) /\ Len(before) = Len(capture)

LbTypeOK ==
    /\ lbOn \in [LB -> BOOLEAN] /\ lbPc \in [LB -> {"off", "check", "pop", "push"}]
    /\ lbQ \in [LB -> Seq(Read)] /\ \A l \in LB : Len(lbQ[l]) <= QueueSize
    /\ lbJob \in [LB -> Read \cup {NoId}]
    /\ \A l \in LB : lbPc[l] = "push" => lbJob[l] # NoId

FpTypeOK ==
    /\ fpOn \in [FP -> BOOLEAN] /\ fpPc \in [FP -> {"off", "check", "pop", "push"}]
    /\ fpQ \in [FP -> Seq(Read)] /\ \A f \in FP : Len(fpQ[f]) <= QueueSize
    /\ fpJob \in [FP -> Read \cup {NoId}]
    /\ \A f \in FP : fpPc[f] = "push" => fpJob[f] # NoId
    /\ flows \in [FP -> [Flow -> FlowEntry]]
    /\ forwarded \subseteq Read /\ dropped \subseteq Read

OutTypeOK ==
    /\ outOn \in BOOLEAN /\ outPc \in {"off", "check", "pop"}
    /\ outQ \in Seq(Read) /\ Len(outQ) <= QueueSize
    /\ file \in Seq(Read) /\ lost \subseteq Read

TypeOK == MainTypeOK /\ SimpleTypeOK /\ LbTypeOK /\ FpTypeOK /\ OutTypeOK

Init ==
    /\ mainPc = "start" /\ idx = 0 /\ mainJob = NoId
    /\ capture = <<>> /\ before = <<>> /\ simpleFlows = [fl \in Flow |-> NoSimpleEntry]
    /\ lbOn = [l \in LB |-> FALSE] /\ lbPc = [l \in LB |-> "off"]
    /\ lbQ = [l \in LB |-> <<>>] /\ lbJob = [l \in LB |-> NoId]
    /\ fpOn = [f \in FP |-> FALSE] /\ fpPc = [f \in FP |-> "off"]
    /\ fpQ = [f \in FP |-> <<>>] /\ fpJob = [f \in FP |-> NoId]
    /\ flows = [f \in FP |-> [fl \in Flow |-> NoFlowEntry]]
    /\ forwarded = {} /\ dropped = {}
    /\ outOn = FALSE /\ outPc = "off" /\ outQ = <<>> /\ file = <<>>
    /\ lost = {}

-----------------------------------------------------------------------------
(* process(), in the main thread                                             *)

(* Both files are opened and the header is written before any thread starts; *)
(* process() gives up when one cannot be opened.                             *)
OpenFiles ==
    /\ mainPc = "start"
    /\ \/ /\ mainPc' = "failed"
          /\ UNCHANGED <<lbOn, lbPc, fpOn, fpPc, outOn, outPc>>
       \/ /\ mainPc' = "read"
          /\ lbOn' = [l \in LB |-> TRUE] /\ lbPc' = [l \in LB |-> "check"]
          /\ fpOn' = [f \in FP |-> TRUE] /\ fpPc' = [f \in FP |-> "check"]
          /\ outOn' = TRUE /\ outPc' = "check"
    /\ UNCHANGED <<idx, mainJob, readVars, lbJob, fpJob, flows, forwarded, dropped, file,
                   lbQ, fpQ, outQ, lost>>

(* The next TCP or UDP packet; main_working.cpp decides about it at once.    *)
ReadPacket(p) ==
    /\ mainPc = "read" /\ Len(capture) < MaxPackets
    /\ mainPc' = "push"
    /\ capture' = Append(capture, p)
    /\ mainJob' = Len(capture')
    /\ before' = Append(before, simpleFlows[p.flow])
    /\ simpleFlows' = [simpleFlows EXCEPT ![p.flow] = SimpleStep(@, p)]
    /\ UNCHANGED <<idx, lbVars, fpVars, outVars, on, lbQ, fpQ, outQ, lost>>

(* reader.readNextPacket is false; the sleep of half a second promises       *)
(* nothing about the other threads, so it is no step.                        *)
EndOfCapture ==
    /\ mainPc = "read"
    /\ mainPc' = "signalLB" /\ idx' = 0
    /\ UNCHANGED <<mainJob, readVars, lbVars, fpVars, outVars, on, lbQ, fpQ, outQ, lost>>

FlowOf(k) == capture[k].flow
LbOf(fl) == Hash[fl] % NumLBs

(* Mutant of FpOf: the packets of a balancer are dealt out in turn. *)
FpOfInTurn(l, fl) == (l * FpsPerLB) + (Len(capture) % FpsPerLB)

FpOf(l, fl) == (l * FpsPerLB) + (Hash[fl] % FpsPerLB)

(* Mutant of HasRoom: one item more than max_size_. *)
HasRoomForOneMore(queue) == Len(queue) <= QueueSize

(* TSQueue::push: the caller waits for room in an open queue; a queue that   *)
(* is shut down refuses the item and the caller is not told.                 *)
HasRoom(queue) == Len(queue) < QueueSize

Push(open, queue, item) == IF open THEN Append(queue, item) ELSE queue
Refused(open, item) == IF open THEN {} ELSE {item}

PushToLB ==
    /\ mainPc = "push"
    /\ LET l == LbOf(FlowOf(mainJob)) IN
       /\ ~lbOn[l] \/ HasRoom(lbQ[l])
       /\ lbQ' = [lbQ EXCEPT ![l] = Push(lbOn[l], @, mainJob)]
       /\ lost' = lost \cup Refused(lbOn[l], mainJob)
    /\ mainPc' = "read" /\ mainJob' = NoId
    /\ UNCHANGED <<idx, readVars, lbVars, fpVars, outVars, on, fpQ, outQ>>

(* One stop() after the other: running_ is cleared and the queue shut down,  *)
(* one flag here as no other step tells them apart; then the thread is       *)
(* joined.  First every balancer, then every fast path, then the output.     *)
SignalLB ==
    /\ mainPc = "signalLB" /\ mainPc' = "joinLB"
    /\ lbOn' = [lbOn EXCEPT ![idx] = FALSE]
    /\ UNCHANGED <<idx, mainJob, readVars, lbVars, fpVars, outVars, fpOn, outOn, lbQ, fpQ, outQ, lost>>

JoinLB ==
    /\ mainPc = "joinLB" /\ lbPc[idx] = "off"
    /\ \/ idx + 1 \in LB /\ mainPc' = "signalLB" /\ idx' = idx + 1
       \/ idx + 1 \notin LB /\ mainPc' = "signalFP" /\ idx' = 0
    /\ UNCHANGED <<mainJob, readVars, lbVars, fpVars, outVars, on, lbQ, fpQ, outQ, lost>>

SignalFP ==
    /\ mainPc = "signalFP" /\ mainPc' = "joinFP"
    /\ fpOn' = [fpOn EXCEPT ![idx] = FALSE]
    /\ UNCHANGED <<idx, mainJob, readVars, lbVars, fpVars, outVars, lbOn, outOn, lbQ, fpQ, outQ, lost>>

JoinFP ==
    /\ mainPc = "joinFP" /\ fpPc[idx] = "off"
    /\ \/ idx + 1 \in FP /\ mainPc' = "signalFP" /\ idx' = idx + 1
       \/ idx + 1 \notin FP /\ mainPc' = "closeOutput" /\ idx' = 0
    /\ UNCHANGED <<mainJob, readVars, lbVars, fpVars, outVars, on, lbQ, fpQ, outQ, lost>>

CloseOutput ==
    /\ mainPc = "closeOutput" /\ mainPc' = "joinOutput"
    /\ outOn' = FALSE
    /\ UNCHANGED <<idx, mainJob, readVars, lbVars, fpVars, outVars, lbOn, fpOn, lbQ, fpQ, outQ, lost>>

JoinOutput ==
    /\ mainPc = "joinOutput" /\ outPc = "off" /\ mainPc' = "done"
    /\ UNCHANGED <<idx, mainJob, readVars, lbVars, fpVars, outVars, on, lbQ, fpQ, outQ, lost>>

Main ==
    \/ OpenFiles \/ (\E p \in Captured : ReadPacket(p)) \/ EndOfCapture \/ PushToLB
    \/ SignalLB \/ JoinLB \/ SignalFP \/ JoinFP \/ CloseOutput \/ JoinOutput

-----------------------------------------------------------------------------
(* LoadBalancer::run                                                         *)

LbCheck(l) ==
    /\ lbPc[l] = "check"
    /\ lbPc' = [lbPc EXCEPT ![l] = IF lbOn[l] THEN "pop" ELSE "off"]
    /\ UNCHANGED <<mainVars, readVars, lbJob, fpVars, outVars, on, lbQ, fpQ, outQ, lost>>

(* pop comes back empty-handed only from an empty queue: after 100 ms, or at *)
(* once when the queue is shut down.  A queue that is shut down still gives. *)
LbPop(l) ==
    /\ lbPc[l] = "pop"
    /\ \/ /\ lbQ[l] = <<>>
          /\ lbPc' = [lbPc EXCEPT ![l] = "check"]
          /\ UNCHANGED <<lbJob, lbQ>>
       \/ /\ lbQ[l] # <<>>
          /\ lbPc' = [lbPc EXCEPT ![l] = "push"]
          /\ lbJob' = [lbJob EXCEPT ![l] = Head(lbQ[l])]
          /\ lbQ' = [lbQ EXCEPT ![l] = Tail(@)]
    /\ UNCHANGED <<mainVars, readVars, fpVars, outVars, on, fpQ, outQ, lost>>

LbPush(l) ==
    /\ lbPc[l] = "push"
    /\ LET f == FpOf(l, FlowOf(lbJob[l])) IN
       /\ ~fpOn[f] \/ HasRoom(fpQ[f])
       /\ fpQ' = [fpQ EXCEPT ![f] = Push(fpOn[f], @, lbJob[l])]
       /\ lost' = lost \cup Refused(fpOn[f], lbJob[l])
    /\ lbPc' = [lbPc EXCEPT ![l] = "check"] /\ lbJob' = [lbJob EXCEPT ![l] = NoId]
    /\ UNCHANGED <<mainVars, readVars, fpVars, outVars, on, lbQ, outQ>>

Balancer(l) == LbCheck(l) \/ LbPop(l) \/ LbPush(l)

-----------------------------------------------------------------------------
(* FastPath::run                                                             *)

FpCheck(f) ==
    /\ fpPc[f] = "check"
    /\ fpPc' = [fpPc EXCEPT ![f] = IF fpOn[f] THEN "pop" ELSE "off"]
    /\ UNCHANGED <<mainVars, readVars, lbVars, fpJob, flows, forwarded, dropped, outVars, on,
                   lbQ, fpQ, outQ, lost>>

FpPopNothing(f) ==
    /\ fpPc[f] = "pop" /\ fpQ[f] = <<>>
    /\ fpPc' = [fpPc EXCEPT ![f] = "check"]
    /\ UNCHANGED <<mainVars, readVars, lbVars, fpJob, flows, forwarded, dropped, outVars, on,
                   lbQ, fpQ, outQ, lost>>

(* From the pop to the counters everything is the thread's own, or atomic.   *)
FpJudge(f) ==
    /\ fpPc[f] = "pop" /\ fpQ[f] # <<>>
    /\ fpQ' = [fpQ EXCEPT ![f] = Tail(@)]
    /\ LET k == Head(fpQ[f])
           e == MtStep(flows[f][FlowOf(k)], capture[k])
       IN  /\ flows' = [flows EXCEPT ![f][FlowOf(k)] = e]
           /\ \/ /\ e.blocked
                 /\ dropped' = dropped \cup {k}
                 /\ fpPc' = [fpPc EXCEPT ![f] = "check"]
                 /\ UNCHANGED <<forwarded, fpJob>>
              \/ /\ ~e.blocked
                 /\ forwarded' = forwarded \cup {k}
                 /\ fpPc' = [fpPc EXCEPT ![f] = "push"]
                 /\ fpJob' = [fpJob EXCEPT ![f] = k]
                 /\ UNCHANGED dropped
    /\ UNCHANGED <<mainVars, readVars, lbVars, outVars, on, lbQ, outQ, lost>>

FpPush(f) ==
    /\ fpPc[f] = "push"
    /\ ~outOn \/ HasRoom(outQ)
    /\ outQ' = Push(outOn, outQ, fpJob[f])
    /\ lost' = lost \cup Refused(outOn, fpJob[f])
    /\ fpPc' = [fpPc EXCEPT ![f] = "check"] /\ fpJob' = [fpJob EXCEPT ![f] = NoId]
    /\ UNCHANGED <<mainVars, readVars, lbVars, flows, forwarded, dropped, outVars, on, lbQ, fpQ>>

FastPath(f) == FpCheck(f) \/ FpPopNothing(f) \/ FpJudge(f) \/ FpPush(f)

-----------------------------------------------------------------------------
(* The output thread                                                         *)

(* Mutants of OutputGoesOn: no drain after the stop; or for and. *)
OutputUntilStopped == outOn
OutputWhileBoth == outOn /\ outQ # <<>>

OutputGoesOn == outOn \/ outQ # <<>>

OutCheck ==
    /\ outPc = "check"
    /\ outPc' = IF OutputGoesOn THEN "pop" ELSE "off"
    /\ UNCHANGED <<mainVars, readVars, lbVars, fpVars, file, on, lbQ, fpQ, outQ, lost>>

OutPop ==
    /\ outPc = "pop" /\ outPc' = "check"
    /\ \/ outQ = <<>> /\ UNCHANGED <<outQ, file>>
       \/ outQ # <<>> /\ outQ' = Tail(outQ) /\ file' = Append(file, Head(outQ))
    /\ UNCHANGED <<mainVars, readVars, lbVars, fpVars, on, lbQ, fpQ, lost>>

Output == OutCheck \/ OutPop

-----------------------------------------------------------------------------
Ended == mainPc \in {"done", "failed"} /\ UNCHANGED vars

Next ==
    \/ Main \/ Output \/ Ended
    \/ \E l \in LB : Balancer(l)
    \/ \E f \in FP : FastPath(f)

Spec == Init /\ [][Next]_vars

(* Every thread that can step is scheduled: a wait ends when its condition   *)
(* holds or its time is up, and the capture has an end.                      *)
Fairness ==
    /\ WF_vars(Main) /\ WF_vars(Output)
    /\ \A l \in LB : WF_vars(Balancer(l))
    /\ \A f \in FP : WF_vars(FastPath(f))

FairSpec == Spec /\ Fairness

-----------------------------------------------------------------------------
(* What main_working.cpp does with packet k.                                 *)
SimplyWritten(k) == ~SimpleStep(before[k], capture[k]).blocked

AlikeFlow(fl) == \A k \in DOMAIN capture : FlowOf(k) = fl => Alike(capture[k])

(* The threads change nothing about a flow: what the file holds of it is, in *)
(* order and without a gap, what the program with one thread writes of it;   *)
(* only the end may be missing.  Two packets of a flow must never be         *)
(* overtaken, or judged by two fast paths.                                   *)
FileIsPrefix ==
    \A j \in DOMAIN file : LET k == file[j] IN
        AlikeFlow(FlowOf(k)) =>
            /\ SimplyWritten(k)
            /\ \A i \in 1..(j - 1) : FlowOf(file[i]) = FlowOf(k) => file[i] < k
            /\ \A m \in 1..(k - 1) :
                   FlowOf(m) = FlowOf(k) /\ SimplyWritten(m) => \E i \in 1..(j - 1) : file[i] = m

(* The report tells the truth: when process() returns, the file holds every  *)
(* packet counted as forwarded, and each once.  (Packets still queued when   *)
(* the stops begin are in neither counter.)                                  *)
ForwardedIsWritten ==
    mainPc = "done" =>
        /\ forwarded = {file[i] : i \in DOMAIN file}
        /\ \A i, j \in DOMAIN file : file[i] = file[j] => i = j

(* process() comes to an end whatever queue is full when the stops begin: no *)
(* thread waits for room in a queue whose reader is gone.                    *)
ProcessReturns == (mainPc = "read") ~> (mainPc = "done")
=============================================================================
