---------------------------- MODULE WorkOwnership ----------------------------
(***************************************************************************)
(* Who owns a work item, as ADR 0007 promises it, with no log, coordinator *)
(* or clock in sight: leases are granted one at a time, each with a larger *)
(* fencing token than all before it; a lease ends once, by expiry or by    *)
(* completion; a completed item is never granted again.                    *)
(***************************************************************************)
EXTENDS Naturals

CONSTANTS Items, Agents

VARIABLES
  grants,    \* leases granted: [item, token, agent]
  expired,   \* leases that ended without a result: <<item, token>>
  completed  \* leases that ended with one: <<item, token>>

vars == <<grants, expired, completed>>

Init == grants = {} /\ expired = {} /\ completed = {}

Open(g) == g \in grants /\ <<g.item, g.token>> \notin expired \cup completed

Grant ==
  \E g \in grants' :
    /\ g.item \in Items /\ g.agent \in Agents /\ g.token \in Nat \ {0}
    /\ \A h \in grants :
         h.item = g.item => h.token < g.token /\ <<h.item, h.token>> \in expired
    /\ grants' = grants \cup {g}
    /\ UNCHANGED <<expired, completed>>

Expire(g) ==
  /\ Open(g)
  /\ expired' = expired \cup {<<g.item, g.token>>}
  /\ UNCHANGED <<grants, completed>>

Complete(g) ==
  /\ Open(g)
  /\ completed' = completed \cup {<<g.item, g.token>>}
  /\ UNCHANGED <<grants, expired>>

Next ==
  \/ Grant
  \/ \E g \in grants : Expire(g) \/ Complete(g)

Spec == Init /\ [][Next]_vars
=============================================================================
