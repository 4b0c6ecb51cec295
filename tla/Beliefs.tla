-------------------------------- MODULE Beliefs --------------------------------
(***************************************************************************)
(* Cognitive memory: the contracts of memory/models.py and the rules of    *)
(* MemoryProjection (memory/projection.py).                                *)
(*                                                                         *)
(* A memory m is a function from log positions to events: what a projection*)
(* has applied, which need not be a prefix of the log.  Assertions are     *)
(* content-addressed, so an assertion is named by the position where its   *)
(* content was first recorded, and an optional time is a set with at most  *)
(* one element.  Times are bitemporal: from/to describe the world, rec is  *)
(* when the agent learned.                                                 *)
(***************************************************************************)
EXTENDS Integers, Sequences, FiniteSets, SequencesExt

OfType(m, type) == {n \in DOMAIN m : m[n].type = type}
Assertions(m) == OfType(m, "assertion")
Supersedes(m, new, prior) ==
  \E n \in OfType(m, "superseded") : m[n].prior = prior /\ m[n].new = new

\* The contracts, as the events that carry them.
SemanticAssertion(key, value, from, to, rec, fresh, source, supersedes) ==
  [type |-> "assertion", key |-> key, value |-> value, from |-> from, to |-> to, rec |-> rec,
   fresh |-> fresh, source |-> source, supersedes |-> supersedes, active |-> TRUE]
AssertionSupersession(prior, new, at, rec) ==
  [type |-> "superseded", prior |-> prior, new |-> new, at |-> at, rec |-> rec]
ValidityClosure(assertion, to, rec) ==
  [type |-> "closed", assertion |-> assertion, to |-> to, rec |-> rec]
MemoryContradiction(refs, rec) == [type |-> "contradiction", refs |-> refs, rec |-> rec]
Resolution(refs, rec, reason) ==
  [type |-> "resolved", refs |-> refs, rec |-> rec, reason |-> reason]

-----------------------------------------------------------------------------
\* Valid time.

\* effective_valid_to is the least of these.
Boundaries(m, a, known) ==
  m[a].to
    \cup {m[n].to : n \in {k \in OfType(m, "closed") : m[k].assertion = a /\ m[k].rec <= known}}
    \cup {m[n].at : n \in {k \in OfType(m, "superseded") : m[k].prior = a /\ m[k].rec <= known}}
    \cup {m[n].from : n \in {k \in Assertions(m) : m[k].supersedes = a /\ m[k].rec <= known}}

Valid(m, a, at, known) ==
  /\ m[a].rec <= known /\ m[a].from <= at
  /\ \A b \in Boundaries(m, a, known) : at < b

IsVisible(m, a, at, known) == Valid(m, a, at, known) /\ \A f \in m[a].fresh : at < f

VisibleAssertions(m, key, at, known) ==
  {a \in Assertions(m) : m[a].key = key /\ m[a].active /\ IsVisible(m, a, at, known)}

IntervalsOverlap(m, a, b, known) ==
  /\ \A e \in Boundaries(m, a, known) : m[b].from < e
  /\ \A e \in Boundaries(m, b, known) : m[a].from < e

\* temporal_neighbors: where an observation of `at` belongs.  Freshness plays no
\* part; ambiguous history has no predecessor, several first successors none.
TemporalNeighbors(m, key, at, known) ==
  LET about == {a \in Assertions(m) : m[a].key = key /\ m[a].active /\ m[a].rec <= known}
      visible == {a \in about : Valid(m, a, at, known)}
      before == {a \in about : m[a].from < at /\ \A b \in Boundaries(m, a, known) : b >= at}
      future == {a \in about : m[a].from > at /\ Valid(m, a, m[a].from, known)}
      first == {a \in future : \A b \in future : m[a].from <= m[b].from}
  IN [predecessor |-> IF Cardinality(before) = 1 /\ Cardinality(visible) <= 1 THEN before ELSE {},
      successor |-> IF Cardinality(first) = 1 THEN first ELSE {}]

-----------------------------------------------------------------------------
\* Contradictions.

Unresolved(m) ==
  {m[n].refs : n \in OfType(m, "contradiction")} \ {m[n].refs : n \in OfType(m, "resolved")}
DetectedAt(m, refs) ==
  m[CHOOSE n \in OfType(m, "contradiction") : m[n].refs = refs].rec

Belief(m, key, at, known) ==
  LET visible == VisibleAssertions(m, key, at, known)
      values == {m[a].value : a \in visible}
  IN IF visible = {} THEN [held |-> "unknown"]
     ELSE IF Cardinality(values) > 1 \/ \E refs \in Unresolved(m) : refs \subseteq visible
          THEN [held |-> "uncertain"]
          ELSE [held |-> "held", value |-> CHOOSE v \in values : TRUE]

Disagree(m, a, b) ==
  /\ a # b /\ m[a].key = m[b].key /\ m[a].value # m[b].value
  /\ m[a].supersedes # b /\ m[b].supersedes # a
  /\ ~Supersedes(m, a, b) /\ ~Supersedes(m, b, a)

NewContradictions(m, a) ==
  {MemoryContradiction({a, b}, m[a].rec) :
     b \in {k \in Assertions(m) : /\ Disagree(m, a, k)
                                  /\ IntervalsOverlap(m, a, k, m[a].rec)
                                  /\ \A n \in OfType(m, "contradiction") : m[n].refs # {a, k}}}

\* Faulty variant: what was resolved is resolved again.
NewResolutionsOfAll(m, at, reason) ==
  {Resolution(refs, at, reason) :
     refs \in {r \in {m[n].refs : n \in OfType(m, "contradiction")} :
                 \A a, b \in r : a # b => \/ ~IntervalsOverlap(m, a, b, at)
                                          \/ Supersedes(m, a, b) \/ Supersedes(m, b, a)}}

NewResolutions(m, at, reason) ==
  {Resolution(refs, at, reason) :
     refs \in {r \in Unresolved(m) :
                 \A a, b \in r : a # b => \/ ~IntervalsOverlap(m, a, b, at)
                                          \/ Supersedes(m, a, b) \/ Supersedes(m, b, a)}}

\* What the event at n, just applied, entails (apply with a derived_source).
\* Faulty variant: closing the validity of an assertion resolves nothing.
DerivedButForClosures(m, n) ==
  CASE m[n].type = "assertion" ->
         NewContradictions(m, n)
           \cup {AssertionSupersession(p, n, m[n].from, m[n].rec) :
                   p \in {k \in {m[n].supersedes} : k # 0 /\ ~Supersedes(m, n, k)}}
    [] m[n].type = "superseded" -> NewResolutions(m, m[n].rec, "superseded")
    [] OTHER -> {}

Derived(m, n) ==
  CASE m[n].type = "assertion" ->
         NewContradictions(m, n)
           \cup {AssertionSupersession(p, n, m[n].from, m[n].rec) :
                   p \in {k \in {m[n].supersedes} : k # 0 /\ ~Supersedes(m, n, k)}}
    [] m[n].type = "superseded" -> NewResolutions(m, m[n].rec, "superseded")
    [] m[n].type = "closed" -> NewResolutions(m, m[n].rec, "validity_closed")
    [] OTHER -> {}

\* A contradiction cannot be resolved before it was detected: apply raises.
Raises(m, n) ==
  \E e \in Derived(m, n) : e.type = "resolved" /\ e.rec < DetectedAt(m, e.refs)

-----------------------------------------------------------------------------
\* MemoryProjection.apply: does memory m accept the event?

LegalAssertion(m, ev) ==
  /\ ev.source \in DOMAIN m
  /\ ~m[ev.source].simulated
  /\ \A t \in ev.to : ev.from < t
  /\ \A f \in ev.fresh : ev.rec < f
  /\ ev.supersedes # 0 => /\ ev.supersedes \in Assertions(m)
                          /\ m[ev.supersedes].key = ev.key

LegalSupersession(m, ev) ==
  /\ {ev.prior, ev.new} \subseteq Assertions(m)
  /\ m[ev.prior].key = m[ev.new].key
  /\ m[ev.new].supersedes \in {0, ev.prior}

LegalClosure(m, ev) == ev.assertion \in Assertions(m) /\ ev.to > m[ev.assertion].from

LegalContradiction(m, ev) ==
  /\ ev.refs \subseteq Assertions(m) /\ Cardinality(ev.refs) = 2
  /\ \A n \in OfType(m, "contradiction") : m[n].refs = ev.refs => m[n] = ev

LegalResolution(m, ev) ==
  /\ \E n \in OfType(m, "contradiction") : m[n].refs = ev.refs
  /\ DetectedAt(m, ev.refs) <= ev.rec
  /\ \A n \in OfType(m, "resolved") : m[n].refs = ev.refs => m[n] = ev

LegalMemory(m, ev) ==
  CASE ev.type = "assertion" -> LegalAssertion(m, ev)
    [] ev.type = "superseded" -> LegalSupersession(m, ev)
    [] ev.type = "closed" -> LegalClosure(m, ev)
    [] ev.type = "contradiction" -> LegalContradiction(m, ev)
    [] ev.type = "resolved" -> LegalResolution(m, ev)
    [] OTHER -> TRUE
=============================================================================
