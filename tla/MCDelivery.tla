------------------------------ MODULE MCDelivery ------------------------------
\* TLC instances of Delivery.
EXTENDS Delivery, TLC

WorkerSymmetry == Permutations(Publishers) \cup Permutations(Consumers)
=============================================================================
