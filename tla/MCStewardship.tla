----------------------------- MODULE MCStewardship -----------------------------
\* TLC instances of Stewardship.
EXTENDS Stewardship

OfUser == OriginProvenance("user", "u", "pu")
OfAgent == OriginProvenance("agent", "a", "pa")
ByUser == IntentAuthority("u", "user", {"user_authored"}, {}, "pu")
ByAgent == IntentAuthority("a", "delegated", {"user_authored", "delegated"}, {"g", "h", "k"}, "pa")
MCTrustedOrigins == {OfUser, OfAgent}
MCTrustedAuthorities == {ByUser, ByAgent}

GoalCommand(id, status, kind, refs, origin, authority) ==
  [id |-> id, status |-> status, kind |-> kind, refs |-> refs, origin |-> origin,
   authority |-> authority, owner |-> origin.principal, author |-> authority.principal]
Users(id, status) == GoalCommand(id, status, "user_authored", {}, OfUser, ByUser)
Agents(id, refs) == GoalCommand(id, "active", "delegated", refs, OfAgent, ByAgent)
MCGoals ==
  {Users("g", "active"), Users("g", "cancelled"), Users("g", "blocked"),
   GoalCommand("g", "active", "user_authored", {}, OfAgent, ByAgent),
   Agents("h", {"g"}), Agents("k", {"h"}), Agents("h", {"k"})}
ReasonGoals == {Users("g", "cancelled")}

Plan(id, goals, nodes) ==
  [id |-> id, goals |-> goals, nodes |-> nodes, assumptions |-> {}, authority |-> ByUser,
   author |-> "u"]
Asks(criteria) == "n" :> OutcomeNode(criteria, {}, {})
MCRoadmaps ==
  {Plan("m", {"g"}, Asks({"c1", "c2"})), Plan("m", {"g"}, Asks({"c1"})),
   Plan("m", {"g"}, "x" :> OutcomeNode({"c1"}, {}, {})),
   Plan("m", {"g"}, Asks({"c1"}) @@ "x" :> OutcomeNode({"c1"}, {"y"}, {})
                                 @@ "y" :> OutcomeNode({"c1"}, {"x"}, {}))}
OtherReasons == {Plan("m", {"e"}, Asks({"c1"}))}

Undertake(id, status, due) ==
  [id |-> id, owner |-> "u", status |-> status, goals |-> {"g"}, node |-> "n", due |-> due,
   lead |-> FALSE, deadline |-> {}, authority |-> ByUser]
MCCommitments == {Undertake("d", "accepted", {1})}

Move(id, to, closure, reorients) ==
  [id |-> id, to |-> to, closure |-> closure, authority |-> ByUser, author |-> "u",
   reorients |-> reorients]
MCTransitions ==
  {Move("c", "suspended", {}, FALSE), Move("c", "active", {}, TRUE), Move("c", "active", {}, FALSE),
   Move("c", "closed", {"failed"}, FALSE), Move("d", "active", {}, FALSE)}
MCWorkstreams ==
  {[id |-> "w", ref |-> "r", fresh |-> 1, supports |-> {"c"}, required |-> TRUE]}

Work(id, criteria, intervention) ==
  [id |-> id, criteria |-> criteria, intervention |-> intervention, support |-> {"draft"}]
MCWorks == {Work("c", {"c1"}, "propose"), Work("c", {"c1", "c2"}, "act"), Work("d", {"c2"}, "propose")}
LegacyGoalEvent(id, operation, status, source, criteria) ==
  [type |-> "legacy_goal", id |-> id, operation |-> operation, status |-> status,
   source |-> source, criteria |-> criteria]
LegacyCommitmentEvent(id, operation, status, source) ==
  [type |-> "legacy_commitment", id |-> id, operation |-> operation, status |-> status,
   source |-> source]
MCLegacyEvents ==
  {LegacyGoalEvent("l", "create", "active", "b", FALSE),
   LegacyGoalEvent("l", "patch", "completed", "a", FALSE),
   LegacyGoalEvent("g", "patch", "completed", "a", TRUE),
   LegacyCommitmentEvent("o", "create", "open", "b"),
   LegacyCommitmentEvent("o", "patch", "in_progress", "a"),
   LegacyCommitmentEvent("o", "terminal", "failed", "a")}
MCTerms == [maximum : {"propose"}, identityBound : {TRUE}, support : {{"draft"}}]

\* What the scenarios start from.
Goal1(status) == <<GoalRevision(1, status, "user_authored", {}, OfUser, ByUser, "u", "u")>>
Helper(refs) == <<GoalRevision(1, "active", "delegated", refs, OfAgent, ByAgent, "a", "a")>>
M1 == <<"m", 1>>
Roadmap1 == <<RoadmapRevision(1, {<<"g", 1>>}, Asks({"c1", "c2"}), {}, ByUser, "u")>>
RolesOf(executor) == OutcomeRoleAssignment(<<M1, "n">>, executor)
EnvelopeOf(executor) == AssistanceEnvelope(RolesOf(executor), "propose", TRUE, {"draft"})
Undertaken(status, executor, due) ==
  Commitment("u", status, {}, {"g"}, M1, "n", {RolesOf(executor)},
             IF executor = "agent" THEN {} ELSE {EnvelopeOf(executor)}, due, FALSE, {})
Planned ==
  [NoIntent EXCEPT !.goals = "g" :> Goal1("active"), !.roadmaps = "m" :> Roadmap1,
                   !.roles = {RolesOf("user"), RolesOf("agent")},
                   !.envelopes = {EnvelopeOf("user")}]
Underway ==
  [Planned EXCEPT !.commitments = "c" :> Undertaken("active", "user", {})]
Part == WorkOrderProposal(1, "c", Undertaken("active", "user", {}), {"c1"}, "propose", {"draft"},
                          PortfolioSignals(0), 0)
PartDone == [Underway EXCEPT !.proposals = {Part}, !.admitted = {Part.order}]
Busy == [Underway EXCEPT !.commitments = @ @@ "d" :> Undertaken("accepted", "agent", {1})]
Reasons == [PartDone EXCEPT !.goals = @ @@ "e" :> Goal1("active")]
Governed == [NoIntent EXCEPT !.goals = "g" :> Goal1("active") @@ "h" :> Helper({"g"})]

None == [goal |-> 0, roadmap |-> 0, roles |-> 0, envelope |-> 0, commitment |-> 0, transition |-> 0,
         external |-> 0, proposal |-> 0, order |-> 0, legacy |-> 0, graph |-> 0, tick |-> 0,
         observers |-> {}]
Scenario(start, budget) == [start |-> start, left |-> budget]
MCScenarios ==
  {Scenario(NoIntent, [None EXCEPT !.goal = 3, !.roadmap = 1]),
   Scenario(Governed, [None EXCEPT !.goal = 3, !.roadmap = 2]),
   Scenario(PartDone, [None EXCEPT !.goal = 1, !.roadmap = 1, !.roles = 1, !.envelope = 1,
                                   !.transition = 2, !.proposal = 1, !.order = 1]),
   Scenario(Busy, [None EXCEPT !.transition = 1, !.proposal = 3, !.order = 1, !.tick = 1]),
   Scenario(Busy, [None EXCEPT !.goal = 1, !.roadmap = 1, !.proposal = 2, !.order = 1]),
   Scenario(Planned, [None EXCEPT !.commitment = 1, !.transition = 1, !.proposal = 2, !.order = 1,
                                  !.tick = 1]),
   Scenario(Underway, [None EXCEPT !.external = 2, !.legacy = 4, !.graph = 1, !.tick = 2,
                                   !.transition = 1, !.observers = {"s1"}])}
ReasonScenarios ==
  {Scenario(Reasons, [None EXCEPT !.goal = 1, !.roadmap = 1, !.roles = 1, !.envelope = 1,
                                  !.transition = 2, !.proposal = 1, !.order = 1])}
=============================================================================
