-------------------------- MODULE MCIdAllocator --------------------------
EXTENDS IdAllocator
==========================================================================
