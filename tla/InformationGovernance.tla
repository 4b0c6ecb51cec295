----------------------- MODULE InformationGovernance -----------------------
(***************************************************************************)
(* What the canonical log says about the use of information: the policies, *)
(* lineages, bindings and quarantines recorded in it, and the decisions    *)
(* the deterministic engine takes from them.  Every operator is a function *)
(* of the log l, as the projection is: a decision is valid only at the     *)
(* head it was evaluated at, and replay evaluates it again.                *)
(*                                                                         *)
(* Of the dimensions of a policy three stand for all: a rank, composed by  *)
(* the maximum, and two allow-lists (purposes, recipients), composed by    *)
(* intersection as trust domains, localities, providers, forms and         *)
(* secondary uses are; authorities are a third list, used to declassify.   *)
(* Retention and deletion, and the context mismatches that only a decision *)
(* built outside the admission class can have, are left out.               *)
(***************************************************************************)
EXTENDS Integers, Sequences, FiniteSets, SequencesExt

CONSTANT Terms   \* [policy id -> [class, purposes, recipients, authorities]]

ASSUME TermsAreComplete ==
    \A p \in DOMAIN Terms :
        /\ DOMAIN Terms[p] = {"class", "purposes", "recipients", "authorities"}
        /\ Terms[p].class \in 0..4

Operations == {"telemetry", "disclose", "declassify"}

-----------------------------------------------------------------------------
(* The records.  An identity is a hash of the content, so two records with  *)
(* the same content are one event.                                          *)

PolicyRecorded(p) == [type |-> "policy", policy |-> p]

InformationLineage(i, sources, by) ==
    [type |-> "lineage", info |-> i, sources |-> sources, by |-> by]

PolicyBinding(i, lineage, policies, by) ==
    [type |-> "binding", info |-> i, lineage |-> lineage, policies |-> policies, by |-> by]

QuarantinedInformationRef(i) == [type |-> "quarantine", info |-> i]

(* A request: who asks for what, for which purpose and when. *)
InformationAccessRequest(i, purpose, recipients, at) ==
    [info |-> i, op |-> "telemetry", purpose |-> purpose, recipients |-> recipients,
     at |-> at, proposed |-> {}]

DisclosureRequest(i, purpose, recipient) ==
    [info |-> i, op |-> "disclose", purpose |-> purpose, recipients |-> {recipient},
     at |-> 0, proposed |-> {}]

DeclassificationRequest(i, purpose, identities, policy) ==
    [info |-> i, op |-> "declassify", purpose |-> purpose, recipients |-> identities,
     at |-> 0, proposed |-> {policy}]

(* The relaxed view of one decision, with an information id of its own that  *)
(* depends on the head the view was recorded at.                             *)
DeclassifiedDisclosureView(l, decision) ==
    [type |-> "view", info |-> <<"view", decision.cursor, Len(l)>>,
     decision |-> decision, cursor |-> Len(l)]

-----------------------------------------------------------------------------
(* The projection *)

Positions(l, type) == {k \in DOMAIN l : l[k].type = type}
Recorded(l, type) == {l[k] : k \in Positions(l, type)}
RecordOf(l, type, i) == {l[k] : k \in {p \in Positions(l, type) : l[p].info = i}}

Only(S) == CHOOSE x \in S : TRUE

(* An optional record is a set with at most one element. *)
Lineage(l, i) == RecordOf(l, "lineage", i)
Binding(l, i) == RecordOf(l, "binding", i)
View(l, i) == RecordOf(l, "view", i)
KnownPolicies(l) == {e.policy : e \in Recorded(l, "policy")}

(* A binding lifts the quarantine that stands when it is recorded. *)
Quarantine(l, i) ==
    {l[k] : k \in {q \in Positions(l, "quarantine") :
        l[q].info = i /\ \A b \in Positions(l, "binding") : l[b].info = i => b < q}}

-----------------------------------------------------------------------------
(* Composition *)

Conflict(kind, operations) == [kind |-> kind, operations |-> operations]

FailedComposition(sources, conflicts) ==
    [policies |-> {}, sources |-> sources, class |-> 4, purposes |-> {},
     recipients |-> {}, authorities |-> {}, conflicts |-> conflicts]

AllowedByAll(policies, dimension) ==
    {v \in UNION {Terms[p][dimension] : p \in policies} :
        \A p \in policies : v \in Terms[p][dimension]}

EmptyDimensions(policies) ==
    {c \in {Conflict("empty_purposes", Operations),
            Conflict("empty_recipients", {"telemetry", "disclose"}),
            Conflict("no_declassification_authority", {"declassify"})} :
        AllowedByAll(policies, CASE c.kind = "empty_purposes" -> "purposes"
                                 [] c.kind = "empty_recipients" -> "recipients"
                                 [] OTHER -> "authorities") = {}}

(* The strictest reading of every policy at once. *)
ComposePolicies(policies, sources, conflicts) ==
    IF policies = {}
    THEN FailedComposition(sources, conflicts \cup {Conflict("missing_policy_version", Operations)})
    ELSE LET rank == CHOOSE c \in 0..4 : /\ \E p \in policies : Terms[p].class = c
                                         /\ \A p \in policies : Terms[p].class <= c
         IN [policies |-> policies, sources |-> sources, class |-> rank,
             purposes |-> AllowedByAll(policies, "purposes"),
             recipients |-> AllowedByAll(policies, "recipients"),
             authorities |-> AllowedByAll(policies, "authorities"),
             conflicts |-> conflicts \cup EmptyDimensions(policies)
                           \cup IF rank = 4 THEN {Conflict("unknown_classification", Operations)} ELSE {}]

(* Bound to its exact lineage; anything else is incomplete. *)
IsBound(l, i) == \E b \in Binding(l, i), n \in Lineage(l, i) : b.lineage = n

Parents(l, i) == IF IsBound(l, i) THEN UNION {n.sources : n \in Lineage(l, i)} ELSE {}

(* The information i was made of, itself included.  A lineage names sources *)
(* that are already known, so there is no cycle to cut.                     *)
Ancestry(l, i) ==
    LET Reach[n \in Nat] ==
            IF n = 0 THEN {i} ELSE UNION {{j} \cup Parents(l, j) : j \in Reach[n - 1]}
    IN Reach[Cardinality(Recorded(l, "lineage"))]

(* Faulty variant: a derived item is governed by its own binding alone. *)
OwnBindingOnly(l, i) == {i}

Resolve(l, i) == Ancestry(l, i)

PoliciesOf(l, made) == UNION {b.policies : b \in UNION {Binding(l, j) : j \in {a \in made : IsBound(l, a)}}}

(* What every policy of everything in `made` permits. *)
ComposeAll(l, made, policies) ==
    ComposePolicies(policies \cap KnownPolicies(l), {j \in made : Parents(l, j) = {}},
        {c \in {Conflict("incomplete_lineage", Operations), Conflict("missing_policy_version", Operations)} :
            IF c.kind = "incomplete_lineage" THEN \E j \in made : ~IsBound(l, j)
                                             ELSE ~(policies \subseteq KnownPolicies(l))})

(* The policy that governs i. *)
Composition(l, i) ==
    IF Quarantine(l, i) # {} THEN FailedComposition({i}, {Conflict("quarantined", Operations)})
    ELSE Only(IF View(l, i) # {}
              THEN {ComposePolicies(v.decision.request.proposed \cap KnownPolicies(l),
                                    v.decision.composition.sources, {}) : v \in View(l, i)}
              ELSE UNION {{ComposeAll(l, made, policies) : policies \in {PoliciesOf(l, made)}} :
                             made \in {Resolve(l, i)}})

ConflictsFor(composition, op) ==
    {c.kind : c \in {d \in composition.conflicts : op \in d.operations}}

-----------------------------------------------------------------------------
(* Decisions *)

CommonReasons(c, r) ==
    {reason \in {"policy_conflict", "purpose_not_permitted"} :
        IF reason = "policy_conflict" THEN ConflictsFor(c, r.op) # {} ELSE r.purpose \notin c.purposes}

AccessReasons(l, c, r) ==
    IF Quarantine(l, r.info) # {} THEN {"quarantined"}
    ELSE CommonReasons(c, r)
         \cup IF r.recipients \cap c.recipients = {} THEN {"recipient_not_permitted"} ELSE {}

DisclosureReasons(c, r) ==
    CommonReasons(c, r)
    \cup IF r.recipients \cap c.recipients = {} THEN {"recipient_not_permitted"} ELSE {}

(* An authority every source accepts, and a policy that really is less strict. *)
DeclassificationReasons(l, c, r) ==
    LET proposed == r.proposed \cap KnownPolicies(l)
    IN CommonReasons(c, r)
       \cup (IF proposed = {} THEN {"policy_conflict"} ELSE {})
       \cup IF \/ r.recipients \cap c.authorities = {}
               \/ \E p \in proposed : Terms[p].class >= c.class
            THEN {"declassification_authority_required"} ELSE {}

DecisionUnder(l, r, c) ==
    [type |-> "decision", request |-> r, composition |-> c, cursor |-> Len(l),
     reasons |-> CASE r.op = "telemetry" -> AccessReasons(l, c, r)
                   [] r.op = "disclose" -> DisclosureReasons(c, r)
                   [] OTHER -> DeclassificationReasons(l, c, r)]

(* What the engine decides at the head of l. *)
Decision(l, r) == Only({DecisionUnder(l, r, c) : c \in {Composition(l, r.info)}})

Allowed(decision) == decision.reasons = {}

-----------------------------------------------------------------------------
(* What replay accepts after l *)

LegalLineage(l, e) ==
    /\ Lineage(l, e.info) \subseteq {e}
    /\ \A s \in e.sources : Lineage(l, s) # {}

LegalBinding(l, e) ==
    /\ Lineage(l, e.info) = {e.lineage}
    /\ e.policies # {} /\ e.policies \subseteq KnownPolicies(l)
    /\ Binding(l, e.info) \subseteq {e}

LegalQuarantine(l, e) == Quarantine(l, e.info) \subseteq {e}

LegalDecision(l, e) == e.cursor = Len(l) /\ e = Decision(l, e.request)

LegalView(l, e) ==
    /\ e.cursor = Len(l)
    /\ e.decision \in Recorded(l, "decision") /\ e.decision.request.op = "declassify" /\ Allowed(e.decision)
    /\ e.decision.request.proposed \subseteq KnownPolicies(l)

LegalGovernance(l, e) ==
    CASE e.type = "lineage" -> LegalLineage(l, e)
      [] e.type = "binding" -> LegalBinding(l, e)
      [] e.type = "quarantine" -> LegalQuarantine(l, e)
      [] e.type = "decision" -> LegalDecision(l, e)
      [] e.type = "view" -> LegalView(l, e)
      [] OTHER -> TRUE
=============================================================================
