----------------------------- MODULE MCWakeCycle -----------------------------
\* TLC instances of WakeCycle.
EXTENDS WakeCycle

Report0(key, value, from) ==
  <<[type |-> "observed", source |-> 0, cursor |-> 0, rec |-> 0, simulated |-> FALSE],
    SemanticAssertion(key, value, from, {}, 0, {}, 1, 0)>>
Unread(s, confidence) == SourceState(s, 0, 0, confidence, 0)
Fact(key, value, from) == SemanticAssertion(key, value, from, {}, 0, {}, 1, 0)

Scenario(l, wakes, facts, ticks, crashes, during, projector) ==
  [log |-> l, wakes |-> wakes, facts |-> facts, ticks |-> ticks, crashes |-> crashes,
   during |-> during, projector |-> projector]

MCFeed == <<<<[key |-> "x", value |-> "a", at |-> 1], [key |-> "x", value |-> "b", at |-> 3]>>,
            <<[key |-> "x", value |-> "c", at |-> 2]>>,
            <<>>>>
TwoSources == <<Unread(1, 2), Unread(2, 2), Unread(3, 1)>>
MCScenarios ==
  {Scenario(TwoSources, 2, 0, 2, 1, FALSE, FALSE),
   Scenario(Report0("x", "z", 0) \o TwoSources, 2, 1, 2, 0, FALSE, FALSE),
   Scenario(Report0("x", "z", 0) \o TwoSources, 1, 1, 1, 0, FALSE, TRUE),
   Scenario(Report0("x", "z", 0) \o TwoSources, 0, 3, 1, 0, FALSE, TRUE)}
MCFacts == {Fact("x", "y", 2), ValidityClosure(2, 2, 0)}
MCHazard == <<1, 2, 0>>
MCRefreshCost == <<1, 2, 1>>
MCImportance == <<3, 8, 1>>
MCBudgets == {[cost |-> 3, sources |-> 2], [cost |-> 1, sources |-> 3]}
=============================================================================
