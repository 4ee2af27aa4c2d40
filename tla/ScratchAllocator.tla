-------------------------- MODULE ScratchAllocator --------------------------
(***************************************************************************)
(* ScratchAllocator of src/vulkan_pipeline_cache.cpp: the bump allocator   *)
(* over a list of blocks into which StateRecorder and StateReplayer copy   *)
(* every create-info (copy<T> -> allocate_n<T> -> allocate_raw).           *)
(*                                                                         *)
(* A client issues requests of a size and an alignment; each activation of *)
(* allocate_raw (the function calls itself after adding a block) is one    *)
(* step, so a recursion that never returns is a behaviour that never       *)
(* serves its request.  Addresses are (block, offset) pairs; sizes and the *)
(* 64 KiB minimum block size are scaled down by the constants.             *)
(***************************************************************************)
EXTENDS Integers, Sequences, Bitwise

CONSTANTS
    MinBlockSize,  \* add_block's minimum (64 * 1024 in the code)
    Sizes,         \* request sizes: count * sizeof(T)
    Alignments,    \* request alignments: alignof(T)
    MaxRequests,   \* bound: requests the client issues
    MaxBlocks      \* bound: blocks the heap can hold

ASSUME /\ MinBlockSize \in Nat \ {0}
       /\ Sizes \subseteq Nat /\ Alignments \subseteq Nat \ {0}
       /\ MaxRequests \in Nat /\ MaxBlocks \in Nat \ {0}

NoReq == [size |-> 0, alignment |-> 0]

VARIABLES
    blocks,   \* ScratchAllocator::blocks: <<[size, offset]>>
    allocs,   \* history: the regions handed out, [blk, off, size, align]
    req,      \* the request allocate_raw is serving, or NoReq
    served    \* requests issued so far

vars == <<blocks, allocs, req, served>>

\* ScratchAllocator::add_block with the Block constructor: a new empty block
\* of at least 64 KiB at the back of the list.
AddBlock(bs, minimum) ==
    Append(bs, [size |-> IF minimum < MinBlockSize THEN MinBlockSize ELSE minimum,
                offset |-> 0])

\* x & ~m on size_t: the bits of m cleared from x.
ClearBits(x, m) == x - (x & m)

\* The rounding of allocate_raw: (block.offset + alignment - 1) & ~alignment.
AlignOffset(o, a) == ClearBits(o + a - 1, a)

\* The test of allocate_raw: required_size <= size, where size is the
\* request's size (the block's own size is not consulted).
Fits(required, size, blk) == required <= size

-----------------------------------------------------------------------------
Init ==
    /\ blocks = <<>>
    /\ allocs = {}
    /\ req = NoReq
    /\ served = 0

\* copy<T>(src, count) calls allocate_n<T>(count), i.e. allocate_raw with
\* the byte size and the alignment of T.
Request ==
    /\ req = NoReq
    /\ served < MaxRequests
    /\ \E s \in Sizes, a \in Alignments : req' = [size |-> s, alignment |-> a]
    /\ served' = served + 1
    /\ UNCHANGED <<blocks, allocs>>

(* One activation of allocate_raw: add a first block if there is none,     *)
(* round the back block's offset, and either hand out the region or add a  *)
(* block and call itself again.  Adding a block beyond MaxBlocks is out    *)
(* of the model's heap, so the request stays unserved.                     *)
AllocateRaw ==
    /\ req # NoReq
    /\ LET bs == IF blocks = <<>> THEN AddBlock(blocks, req.size + req.alignment)
                 ELSE blocks
           b == Len(bs)
           offset == AlignOffset(bs[b].offset, req.alignment)
           required == offset + req.size
       IN IF Fits(required, req.size, bs[b])
          THEN /\ blocks' = [bs EXCEPT ![b].offset = required]
               /\ allocs' = allocs \cup {[blk |-> b, off |-> offset,
                                          size |-> req.size, align |-> req.alignment]}
               /\ req' = NoReq
          ELSE /\ Len(bs) < MaxBlocks
               /\ blocks' = AddBlock(bs, req.size + req.alignment)
               /\ UNCHANGED <<allocs, req>>
    /\ UNCHANGED served

Next == Request \/ AllocateRaw

\* allocate_raw runs to completion on the caller's thread.
Spec == Init /\ [][Next]_vars /\ WF_vars(AllocateRaw)

-----------------------------------------------------------------------------
(* Every call of allocate_raw returns: copy<T>, allocate_n<T> and         *)
(* decode_base64 (allocate_raw(size, 4), cpp 522) use the pointer it       *)
(* returns, and the recorder and the parser cannot go on without it.       *)
AllocTerminates == (req # NoReq) ~> (req = NoReq)

=============================================================================
