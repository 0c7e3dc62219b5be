------------------------------ MODULE FlowFilter ------------------------------
(* What the offline engine promises about a capture, without threads or      *)
(* queues: every packet is judged at most once and the packets of one flow   *)
(* in capture order, only packets judged FORWARD reach the output, each at   *)
(* most once and, within a flow, in capture order.  Flows are independent.   *)
EXTENDS Naturals, Sequences

CONSTANT Flow

VARIABLES capture,  (* the flow of every packet read so far: packet p is the p-th *)
          passed,   (* packets judged FORWARD                                     *)
          dropped,  (* packets judged DROP                                        *)
          written   (* packets in the output                                      *)

vars == <<capture, passed, dropped, written>>

Packets == 1..Len(capture)
Judged == passed \cup dropped

(* The packets of p's flow that precede it. *)
Earlier(p) == {q \in 1..(p-1) : capture[q] = capture[p]}

Init == capture = <<>> /\ passed = {} /\ dropped = {} /\ written = {}

Arrive(fl) == /\ capture' = Append(capture, fl)
              /\ UNCHANGED <<passed, dropped, written>>

Judge(p) == /\ p \notin Judged
            /\ Earlier(p) \subseteq Judged
            /\ \/ passed' = passed \cup {p} /\ UNCHANGED dropped
               \/ dropped' = dropped \cup {p} /\ UNCHANGED passed
            /\ UNCHANGED <<capture, written>>

Write(p) == /\ p \in passed \ written
            /\ Earlier(p) \cap passed \subseteq written
            /\ written' = written \cup {p}
            /\ UNCHANGED <<capture, passed, dropped>>

Next == \/ \E fl \in Flow : Arrive(fl)
        \/ \E p \in Packets : Judge(p) \/ Write(p)

Spec == Init /\ [][Next]_vars
=============================================================================
