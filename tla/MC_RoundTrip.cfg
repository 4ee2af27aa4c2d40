\* Spec section 8: parse(serialize(R)) gives back every recorded entity.
SPECIFICATION RTSpec
CONSTANTS
    Recorded <- MCRecorded
    Docs <- MCDocsSerialized
INVARIANT RoundTrip
CHECK_DEADLOCK FALSE
