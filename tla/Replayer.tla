------------------------------- MODULE Replayer -------------------------------
(***************************************************************************)
(* StateReplayer::parse of src/vulkan_pipeline_cache.cpp and the replayer  *)
(* engine it calls back (StateCreatorInterface, outside src/).             *)
(*                                                                         *)
(* parse walks the document's kinds in a fixed order.  For a kind whose    *)
(* key is present it calls set_num_<kind>(n), resizes replayed_<kind> to n *)
(* null handles, and for each element resolves the element's references   *)
(* against the replayed_<target> vector filled by an earlier kind, then   *)
(* calls enqueue_create_<kind>(hash, index, info, &replayed_<kind>[index]) *)
(* and, after the last element, wait_enqueue().  The engine may create an *)
(* enqueued object at any later time, on its own threads, and writes the  *)
(* new handle into the slot; wait_enqueue returns once every enqueued      *)
(* creation is done.  An index past the target vector throws, and parse   *)
(* returns false from its catch.                                           *)
(*                                                                         *)
(* A document is a function from its keys to arrays of elements; an       *)
(* element is its sequence of 1-based references (0: null), every other   *)
(* field being copied through unread.  The engine's handle for the object  *)
(* at position i of kind k is <<k, i>>.                                    *)
(***************************************************************************)
EXTENDS Integers, Sequences, SequencesExt

CONSTANT Docs      \* the documents parse may be given

\* The top-level order of parse.
ParseOrder == <<"shaderModules", "samplers", "descriptorSetLayouts",
                "pipelineLayouts", "renderPasses">>

ParseKinds == ToSet(ParseOrder)

\* The kind an element's references index: a binding's immutableSamplers,
\* a pipeline layout's setLayouts.
RefTarget == [k \in ParseKinds |->
                CASE k = "descriptorSetLayouts" -> "samplers"
                  [] k = "pipelineLayouts" -> "descriptorSetLayouts"
                  [] OTHER -> "none"]

NullHandle == <<"null", 0>>

\* A text doc.Parse() rejects: HasParseError().
Malformed == [parseError |-> TRUE]

VARIABLES
    doc,        \* the document being parsed
    pos,        \* index into ParseOrder of the kind being parsed
    elem,       \* the next element of that kind
    stage,      \* "start", "begin", "elems", "wait" or "done"
    result,     \* "running", or the value parse returned
    replayed,   \* replayed_<kind>: the handle slots
    pending,    \* creations enqueued and not yet done by the engine
    sent        \* history: the enqueue_create calls, with the references passed

vars == <<doc, pos, elem, stage, result, replayed, pending, sent>>

Kind == ParseOrder[pos]

Elems(k) == IF k \in DOMAIN doc THEN doc[k] ELSE <<>>

(* parse_set_layouts / parse_immutable_samplers: index > size() throws     *)
(* "... index out of range"; 0 is VK_NULL_HANDLE; otherwise the handle    *)
(* now in replayed_<target>[index - 1].                                    *)
Dangling(k, refs) == \E j \in DOMAIN refs : refs[j] > Len(replayed[RefTarget[k]])

Resolve(k, refs) == [j \in DOMAIN refs |->
                       IF refs[j] = 0 THEN NullHandle ELSE replayed[RefTarget[k]][refs[j]]]

\* Mutant: the vector gets one slot more than the array has elements.
ResizeSlotsOneMore(n) == [i \in 1 .. n + 1 |-> NullHandle]

\* replayed_<kind>.resize(n): n null handles.
ResizeSlots(n) == [i \in 1 .. n |-> NullHandle]

\* ++itr, index++ of the loop of parse_<kind>.
NextElem(e) == e + 1

-----------------------------------------------------------------------------
Init ==
    /\ doc \in Docs \cup {Malformed}
    /\ pos = 1
    /\ elem = 1
    /\ stage = "start"
    /\ result = "running"
    /\ replayed = [k \in ParseKinds |-> <<>>]
    /\ pending = {}
    /\ sent = {}

\* doc.Parse(str, length); if (doc.HasParseError()) return false.
ParseDocument ==
    /\ stage = "start"
    /\ IF doc = Malformed
       THEN stage' = "done" /\ result' = "false"
       ELSE stage' = "begin" /\ UNCHANGED result
    /\ UNCHANGED <<doc, pos, elem, replayed, pending, sent>>

(* The head of parse_<kind>: set_num_<kind>(n) and replayed_<kind>.resize *)
(* (n) when the key is present; otherwise parse only calls                 *)
(* set_num_<kind>(0) and moves on.  After the last kind parse returns true.*)
BeginKind ==
    /\ stage = "begin"
    /\ IF pos > Len(ParseOrder)
       THEN /\ stage' = "done" /\ result' = "true"
            /\ UNCHANGED <<pos, replayed>>
       ELSE /\ IF Kind \in DOMAIN doc
               THEN /\ replayed' = [replayed EXCEPT ![Kind] = ResizeSlots(Len(doc[Kind]))]
                    /\ stage' = "elems" /\ UNCHANGED pos
               ELSE /\ pos' = pos + 1
                    /\ UNCHANGED <<stage, replayed>>
            /\ UNCHANGED result
    /\ elem' = 1
    /\ UNCHANGED <<doc, pending, sent>>

(* One iteration of the loop of parse_<kind>: resolve the element's        *)
(* references, then enqueue_create_<kind>.  A dangling index throws out of *)
(* parse_<kind> and parse returns false, with no wait_enqueue.             *)
EnqueueCreate ==
    /\ stage = "elems"
    /\ IF elem > Len(doc[Kind])
       THEN stage' = "wait" /\ UNCHANGED <<elem, result, pending, sent>>
       ELSE LET refs == doc[Kind][elem] IN
            IF Dangling(Kind, refs)
            THEN stage' = "done" /\ result' = "false" /\ UNCHANGED <<elem, pending, sent>>
            ELSE /\ sent' = sent \cup {[kind |-> Kind, index |-> elem, refs |-> Resolve(Kind, refs)]}
                 /\ pending' = pending \cup {<<Kind, elem>>}
                 /\ elem' = NextElem(elem)
                 /\ UNCHANGED <<stage, result>>
    /\ UNCHANGED <<doc, pos, replayed>>

\* Mutant: wait_enqueue returns without waiting for the engine.
WaitEnqueueNoBarrier(k) == TRUE

\* wait_enqueue(): the barrier returns once the engine has drained.
WaitEnqueueDone(k) == pending = {}

WaitEnqueue ==
    /\ stage = "wait"
    /\ WaitEnqueueDone(Kind)
    /\ pos' = pos + 1
    /\ stage' = "begin"
    /\ UNCHANGED <<doc, elem, result, replayed, pending, sent>>

(* The engine completes an enqueued creation and writes the new handle     *)
(* into the slot it was given, whether or not parse has since returned.    *)
EngineCreate(o) ==
    /\ o \in pending
    /\ replayed' = [replayed EXCEPT ![o[1]][o[2]] = o]
    /\ pending' = pending \ {o}
    /\ UNCHANGED <<doc, pos, elem, stage, result, sent>>

Parser == ParseDocument \/ BeginKind \/ EnqueueCreate \/ WaitEnqueue

Next == Parser \/ \E o \in pending : EngineCreate(o)

(* parse runs on its caller's thread until it returns, and the engine      *)
(* completes what it was given (wait_enqueue would not return otherwise).  *)
Spec == Init /\ [][Next]_vars /\ WF_vars(Parser) /\ WF_vars(\E o \in pending : EngineCreate(o))

-----------------------------------------------------------------------------
Handles == {NullHandle} \cup {<<k, i>> : k \in ParseKinds, i \in 1 .. 2}

TypeOK ==
    /\ pos \in 1 .. Len(ParseOrder) + 1
    /\ stage \in {"start", "begin", "elems", "wait", "done"}
    /\ result \in {"running", "true", "false"}
    /\ replayed \in [ParseKinds -> Seq(Handles)]
    /\ \A k \in ParseKinds : Len(replayed[k]) \in {0, Len(Elems(k))}
    /\ pending \subseteq Handles \ {NullHandle}

(* Every reference the engine is handed in an enqueue_create call is the   *)
(* handle the engine itself created for the object the document names (or *)
(* VK_NULL_HANDLE for index 0), never a slot it has not filled yet: the    *)
(* wait_enqueue after each kind and the kind order must make every target *)
(* slot final before a later kind reads it.                                *)
RefsResolvedAtEnqueue ==
    \A c \in sent : \A j \in DOMAIN c.refs :
        LET r == doc[c.kind][c.index][j] IN
        c.refs[j] = IF r = 0 THEN NullHandle ELSE <<RefTarget[c.kind], r>>

(* The objects the engine has created, read off the slots it wrote.        *)
Created == UNION {ToSet(replayed[k]) : k \in ParseKinds} \ {NullHandle}

Abstract == INSTANCE ReplayOrder WITH
    Order <- ParseOrder, made <- Created, outcome <- result,
    count <- [k \in ParseKinds |-> Len(Elems(k))]

(* Section 4.4: the engine creates the objects kind by kind in the         *)
(* parser's order, each kind complete before the next one starts, and      *)
(* parse returns true only when every object of the document exists.       *)
ImplementsReplayOrder == Abstract!Spec

(* Section 7: a DanglingReference is returned as a failure from parse,     *)
(* with no side effects on the engine: no creation was enqueued.           *)
ParseFailsCleanly == result = "false" => sent = {}

=============================================================================
