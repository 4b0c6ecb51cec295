---------------------------- MODULE MCAgentActions ----------------------------
\* TLC instances of AgentActions.  Two intents ask for the same thing under one
\* key, the second by a capability that must not be repeated; the third has no
\* key and takes all the attention there is.
EXTENDS AgentActions

CONSTANTS charge, again, pay, chargeKey

ThreeIntents == {charge, again, pay}
Keys == [i \in ThreeIntents |-> IF i = pay THEN NoKey ELSE chargeKey]
Costs == [i \in ThreeIntents |-> IF i = pay THEN 2 ELSE 1]
=============================================================================
