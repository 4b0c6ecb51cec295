-------------------------- MODULE MCWorkCoordination --------------------------
\* TLC instances of WorkCoordination: a piece of work and its verification.
EXTENDS WorkCoordination, TLC

CONSTANTS build, verify

TwoNodes == {build, verify}
VerifyAfterBuild == [n \in TwoNodes |-> IF n = verify THEN {build} ELSE {}]

CoordinatorSymmetry == Permutations(Coordinators) \cup Permutations(Agents)
=============================================================================
