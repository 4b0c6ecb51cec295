---------------------------- MODULE EffectContract ----------------------------
(***************************************************************************)
(* What an agent promises of the effects it causes (docs/AUTONOMY.md,      *)
(* "Recovery and effect safety"), with no process, lease or crash in       *)
(* sight: only an authorized action is attempted, a settled one never      *)
(* again unless it was contested before it was settled, and one that is    *)
(* not idempotent at most once.                                            *)
(***************************************************************************)
EXTENDS Naturals

CONSTANTS Intents, Idempotent

VARIABLES
  authorized,  \* intents with a durable authorization
  settled,     \* intents with a durable outcome
  contested,   \* intents that two parties took up before there was an outcome
  attempts     \* calls of each intent's capability

vars == <<authorized, settled, contested, attempts>>

Init ==
  /\ authorized = {} /\ settled = {} /\ contested = {}
  /\ attempts = [i \in Intents |-> 0]

Authorize(i) ==
  /\ authorized' = authorized \cup {i}
  /\ UNCHANGED <<settled, contested, attempts>>

Attempt(i) ==
  /\ i \in authorized
  /\ i \notin settled \/ i \in contested
  /\ i \in Idempotent \/ attempts[i] = 0
  /\ attempts' = [attempts EXCEPT ![i] = @ + 1]
  /\ UNCHANGED <<authorized, settled, contested>>

Settle(i) ==
  /\ i \in authorized
  /\ settled' = settled \cup {i}
  /\ UNCHANGED <<authorized, contested, attempts>>

\* Several at a time: a restart takes up all that is open.
Contest(more) ==
  /\ more \subseteq authorized \ settled
  /\ contested' = contested \cup more
  /\ UNCHANGED <<authorized, settled, attempts>>

Next ==
  \/ \E i \in Intents : Authorize(i) \/ Attempt(i) \/ Settle(i)
  \/ \E more \in SUBSET Intents : Contest(more)

Spec == Init /\ [][Next]_vars
=============================================================================
