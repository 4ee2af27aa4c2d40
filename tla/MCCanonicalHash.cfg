SPECIFICATION Spec
CONSTANT HashFor <- MCHashFor
INVARIANT HashIsIdentity
\* compute_hash_graphics_pipeline returns: once both hashes are taken there is no further step.
CHECK_DEADLOCK FALSE
