------------------------------ MODULE MCKernel ------------------------------
\* TLC instances of Kernel.
EXTENDS Kernel
=============================================================================
