---------------------------- MODULE EventTransfer ----------------------------
(***************************************************************************)
(* What the outbox, the broker and the inbox promise together, with no     *)
(* worker, lease, token or copy in sight: every event walks one path, one  *)
(* stage at a time, never backwards, and a committed event gets to the     *)
(* end.                                                                    *)
(*   none       not written                                                *)
(*   committed  in the sender's log, with its outbox row                   *)
(*   sent       stored durably by the broker                               *)
(*   received   in the receiver's log                                      *)
(*   settled    its inbox row is completed: no handler runs for it again   *)
(***************************************************************************)
EXTENDS Naturals

CONSTANT Events

VARIABLE stage

Stages == {"none", "committed", "sent", "received", "settled"}

Follows == [s \in Stages \ {"settled"} |->
              CASE s = "none"      -> "committed"
                [] s = "committed" -> "sent"
                [] s = "sent"      -> "received"
                [] OTHER           -> "settled"]

Init == stage = [e \in Events |-> "none"]

Advance(e) ==
  /\ stage[e] # "settled"
  /\ stage' = [stage EXCEPT ![e] = Follows[stage[e]]]

Next == \E e \in Events : Advance(e)

\* Nothing obliges a program to commit; everything after the commit is owed.
Progress == \A e \in Events : WF_stage(stage[e] # "none" /\ Advance(e))

SafeSpec == Init /\ [][Next]_stage
Spec == SafeSpec /\ Progress
=============================================================================
