----------------------------- MODULE BoundedFifo -----------------------------
(* What a thread-safe queue promises its callers, without a lock, a          *)
(* condition variable or a thread: the items it ever took, in the order it   *)
(* took them, the items it ever handed out, and whether it was shut down.    *)
EXTENDS Naturals, Sequences

CONSTANTS Item,      (* what may be put in the queue          *)
          MaxSize    (* how many items it may hold at a time  *)

VARIABLES accepted,  (* items taken so far, oldest first      *)
          delivered, (* items handed out so far, oldest first *)
          closed     (* the queue takes nothing any more      *)

vars == <<accepted, delivered, closed>>

Init == /\ accepted = <<>>
        /\ delivered = <<>>
        /\ closed = FALSE

(* A closed queue accepts nothing, a full one neither. *)
Accept(v) == /\ ~closed
             /\ Len(accepted) - Len(delivered) < MaxSize
             /\ accepted' = Append(accepted, v)
             /\ UNCHANGED <<delivered, closed>>

(* The oldest item not handed out yet; a closed queue is still drained. *)
Deliver == /\ Len(delivered) < Len(accepted)
           /\ delivered' = Append(delivered, accepted[Len(delivered) + 1])
           /\ UNCHANGED <<accepted, closed>>

Close == /\ closed' = TRUE
         /\ UNCHANGED <<accepted, delivered>>

Next == \/ \E v \in Item : Accept(v)
        \/ Deliver
        \/ Close

Spec == Init /\ [][Next]_vars
=============================================================================
