----------------------------- MODULE ReplayOrder -----------------------------
(***************************************************************************)
(* What StateReplayer::parse promises the replayer engine (spec section    *)
(* 4.4): the objects of a document are created kind by kind in the        *)
(* parser's order, every object of a kind before any object of the next   *)
(* one, and parse returns true only once every object it was given has    *)
(* been created.  A failing parse may stop anywhere.                      *)
(***************************************************************************)
EXTENDS Integers, Sequences, SequencesExt

CONSTANT Order     \* the kinds, in the order they are replayed

VARIABLES
    made,      \* the objects created so far, as <<kind, position>>
    outcome,   \* "running", or what parse returned
    count      \* the number of objects of each kind the document holds

vars == <<made, outcome, count>>

Objects(k) == {<<k, i>> : i \in 1 .. count[k]}

Earlier(k) == {Order[j] : j \in 1 .. (CHOOSE p \in DOMAIN Order : Order[p] = k) - 1}

Init ==
    /\ made = {}
    /\ outcome = "running"
    /\ count \in [ToSet(Order) -> Nat]

Make(k, i) ==
    /\ <<k, i>> \in Objects(k) \ made
    /\ \A e \in Earlier(k) : Objects(e) \subseteq made
    /\ made' = made \cup {<<k, i>>}
    /\ UNCHANGED <<outcome, count>>

Fail ==
    /\ outcome = "running"
    /\ outcome' = "false"
    /\ UNCHANGED <<made, count>>

Succeed ==
    /\ outcome = "running"
    /\ \A k \in ToSet(Order) : Objects(k) \subseteq made
    /\ outcome' = "true"
    /\ UNCHANGED <<made, count>>

Next == \/ \E k \in ToSet(Order) : \E i \in 1 .. count[k] : Make(k, i)
        \/ Fail
        \/ Succeed

Spec == Init /\ [][Next]_vars

=============================================================================
