\* Spec section 7: a parse that fails on a dangling reference has no side effects on the engine.
SPECIFICATION Spec
CONSTANTS
    Docs <- MCDocs
INVARIANT ParseFailsCleanly
CHECK_DEADLOCK FALSE
