---------------------------- MODULE MCDreamEpochs ----------------------------
\* TLC instances of DreamEpochs.  A live goal, and findings of each kind.
EXTENDS DreamEpochs

Goal(rev, live) == [type |-> "goal", rev |-> rev, live |-> live]
Commitment(topic, covered) ==
  [type |-> "commitment", topic |-> topic, active |-> TRUE, covered |-> covered]
Roadmap(topic, rev) == [type |-> "roadmap", topic |-> topic, governs |-> rev, review |-> TRUE]
Assertion(topic, value, until) ==
  [type |-> "assertion", topic |-> topic, value |-> value, until |-> until]
Signal(topic, until) == [type |-> "signal", topic |-> topic, until |-> until]
Foreground == [type |-> "foreground"]

Scenario(l, scans, facts, ticks, crashes) ==
  [log |-> l, scans |-> scans, facts |-> facts, ticks |-> ticks, crashes |-> crashes]

\* One finding: two scans, with either an event of others or a crash; one scan
\* with both.  Two findings, one of no value, over two scans.  A stale belief, a
\* calibration and a gap that compete for the budget.  Two beliefs that disagree.
OneGap == <<Goal(1, TRUE), Commitment(1, FALSE)>>
TwoFindings == <<Goal(1, TRUE), Roadmap(2, 1), Signal(3, 1)>>
ThreeKinds == <<Goal(1, TRUE), Assertion(4, 1, 0), CalibrationEvent(5, {1}, TRUE), Commitment(1, FALSE)>>
Dispute == <<Goal(1, TRUE), Assertion(4, 1, 2), Assertion(4, 2, 2)>>

MCScenarios ==
  {Scenario(OneGap, 2, 1, 1, 0), Scenario(OneGap, 2, 0, 2, 1), Scenario(OneGap, 1, 1, 0, 1),
   Scenario(TwoFindings, 2, 0, 1, 1), Scenario(TwoFindings, 1, 1, 0, 0),
   Scenario(ThreeKinds, 1, 1, 0, 0), Scenario(Dispute, 1, 0, 0, 1)}
\* Two consumers on one finding that stays, one scan of each.
TwoScenarios == {Scenario(OneGap, 2, 0, 1, 0)}

MCFacts == {Goal(2, TRUE), Goal(2, FALSE), Foreground}
MCImprovement == <<5, 4, 2, 3, 4>>
MCCost == <<1, 1, 1, 1, 1>>
MCUnits == <<2, 3, 1, 1, 2>>
MCCeiling == [activities |-> 2, units |-> 3]
=============================================================================
