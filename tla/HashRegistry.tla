----------------------------- MODULE HashRegistry -----------------------------
(***************************************************************************)
(* The registry as its callers see it (spec section 4.3): per kind, an     *)
(* array of hashes that only grows, in registration order, and a lookup    *)
(* that gives, for a handle, the hash last registered under it, or        *)
(* UnknownHandle if none was.  Destroying an object is not an operation   *)
(* of the registry: it keeps every entry and mapping.                     *)
(***************************************************************************)
EXTENDS Integers, Sequences

CONSTANTS
    Kinds,           \* the seven entity kinds
    Handles,         \* the handle values
    UnknownHandle    \* what get_hash_for_<kind> answers for an unmapped handle

VARIABLES
    log,       \* per kind: the hashes registered, in order
    lookup     \* per kind and handle: get_hash_for_<kind>(handle)

vars == <<log, lookup>>

Init ==
    /\ log = [k \in Kinds |-> <<>>]
    /\ lookup = [k \in Kinds |-> [x \in Handles |-> UnknownHandle]]

(* register_<kind>(h, info) then set_<kind>_handle(index, x): the new hash *)
(* h is the one the lookup of x answers afterwards.                         *)
Register(k, x) ==
    LET h == lookup'[k][x] IN
    /\ h # UnknownHandle
    /\ log' = [log EXCEPT ![k] = Append(@, h)]
    /\ lookup' = [lookup EXCEPT ![k][x] = h]

Next == \E k \in Kinds, x \in Handles : Register(k, x)

Spec == Init /\ [][Next]_vars

=============================================================================
