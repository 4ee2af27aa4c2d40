\* decode_base64's request: allocate_raw(size, 4) on a fresh allocator.
CONSTANTS
    MinBlockSize = 4
    Sizes = {4}
    Alignments = {4}
    MaxRequests = 1
    MaxBlocks = 3
SPECIFICATION Spec
\* The client stops after MaxRequests requests; the allocator then idles.
CHECK_DEADLOCK FALSE
PROPERTY AllocTerminates
