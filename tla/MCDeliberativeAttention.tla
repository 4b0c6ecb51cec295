---------------------- MODULE MCDeliberativeAttention ----------------------
(* Small instances of DeliberativeAttention. *)
EXTENDS DeliberativeAttention

CONSTANTS w1, w2, o1, o2, c1, i1, i2, i3

MCConsumer == [w \in {w1, w2} |-> "attention"]
MCSourcePolicy == (w1 :> [name |-> "alerts", kinds |-> {"alert"}])
                  @@ (w2 :> [name |-> "alerts", kinds |-> {"alert"}])

MCTerms ==
    [open |-> [class |-> 0, purposes |-> {"operations", "press"},
               recipients |-> {"telemetry", "press"}, authorities |-> {}],
     crew |-> [class |-> 1, purposes |-> {"operations"}, recipients |-> {"telemetry", "press"},
               authorities |-> {"officer"}],
     legal |-> [class |-> 2, purposes |-> {"operations", "press"}, recipients |-> {"telemetry"},
                authorities |-> {"officer", "counsel"}]]

Source(i) == InformationLineage(i, {}, "host")
Bound(i, p) == PolicyBinding(i, Source(i), {p}, "host")
Policies == <<PolicyRecorded("open"), PolicyRecorded("crew"), PolicyRecorded("legal")>>
Contracts == <<SchemaRecorded(MCSourcePolicy[w1]), SourcePolicyRecorded(MCSourcePolicy[w1])>>
Alert(infos) == Fact("alert", infos, "complete")
(* i3 was made of i1 and has a policy of its own besides. *)
Made == InformationLineage(i3, {i1}, "host")
MadeBound == PolicyBinding(i3, Made, {"legal"}, "host")

Link(kind, body, extra) == [kind |-> kind, body |-> body, extra |-> extra]

Scenario(history, facts, steward, workers, says, links, requests, crashes, passes) ==
    [log |-> history, facts |-> facts, steward |-> steward, workers |-> workers, says |-> says, links |-> links,
     requests |-> requests, crashes |-> crashes, passes |-> passes]

Governed == Policies \o <<Source(i1), Bound(i1, "crew")>>

MCScenarios == {
    (* two workers of one consumer that register their contracts *)
    Scenario(Governed \o <<Fact("note", <<i1>>, "complete")>>, <<Alert(<<i1>>)>>, {}, {w1, w2}, {"wake"}, {}, {}, 0, 0),
    (* providers that need not agree; a worker that stops half way *)
    Scenario(Governed \o Contracts \o <<Alert(<<i1>>)>>, <<>>, {}, {w1, w2}, {"wake", "remember"}, {}, {}, 0, 0),
    Scenario(Governed \o Contracts \o <<Alert(<<i1>>)>>, <<>>, {}, {w1, w2}, {"wake"}, {}, {}, 1, 0),
    (* a source whose information is governed, and quarantined, only later *)
    Scenario(Governed \o <<Source(i2)>> \o Contracts \o <<Alert(<<i1, i2>>)>>, <<Alert(<<i1>>)>>,
             {Bound(i2, "legal"), QuarantinedInformationRef(i2)}, {w1}, {"wake"}, {}, {}, 0, 0),
    (* outcomes of two observers; feedback *)
    Scenario(Governed \o <<Source(i2), Bound(i2, "legal")>> \o Contracts \o <<Alert(<<i1>>)>>,
             <<Fact("result", <<i1>>, "complete")>>, {}, {w1}, {"wake"},
             {Link("outcome", "resolved", {}), Link("outcome", "unknown", {i2})}, {}, 0, 0),
    Scenario(Governed \o Contracts \o <<Alert(<<i1>>)>>, <<Fact("result", <<i1>>, "complete")>>,
             {}, {w1}, {"wake"}, {Link("feedback", "resolved", {})}, {}, 0, 1),
    (* derived information, disclosure and declassification *)
    Scenario(Governed \o <<Made, MadeBound>> \o Contracts \o <<Alert(<<i3>>)>>, <<>>,
             {QuarantinedInformationRef(i3)}, {w1}, {"wake"}, {},
             {DisclosureRequest(i3, "operations", "press"),
              DeclassificationRequest(i3, "operations", {"officer"}, "open")}, 0, 0)}
=============================================================================
