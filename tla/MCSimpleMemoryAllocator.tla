------------------------ MODULE MCSimpleMemoryAllocator -----------------------
(* Instances of SimpleMemoryAllocator.                                     *)
EXTENDS SimpleMemoryAllocator
=============================================================================
