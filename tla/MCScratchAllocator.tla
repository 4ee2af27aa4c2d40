------------------------- MODULE MCScratchAllocator -------------------------
(* Instantiation of ScratchAllocator for TLC.  Sizes are in units where    *)
(* the minimum block holds 4 (64 KiB in the code).                       *)
EXTENDS ScratchAllocator

=============================================================================
