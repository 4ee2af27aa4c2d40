------------------------------ MODULE Registry ------------------------------
(***************************************************************************)
(* The content-addressed registry of StateRecorder in                      *)
(* src/vulkan_pipeline_cache.cpp: register_<kind> appends (hash, copy) and *)
(* returns the index, set_<kind>_handle installs handle -> index,          *)
(* get_hash_for_<kind> resolves a handle, and copy_<kind> rewrites every   *)
(* handle the create-info refers to into index + 1.                        *)
(*                                                                         *)
(* An entity is abstracted to its hash and its reference fields.  Each     *)
(* created object gets a fresh hash (its creation serial), so a reference  *)
(* resolves to the right entity exactly when the hashes agree.  The        *)
(* caller (the Vulkan layer, outside src/) records each object it creates  *)
(* with register then set_handle, references only live handles, and may   *)
(* destroy an object, after which the driver may reuse its handle.        *)
(***************************************************************************)
EXTENDS Integers, Sequences, SequencesExt

CONSTANTS
    Handles,       \* handle values the driver hands out (per kind)
    Null,          \* VK_NULL_HANDLE
    MaxCreates,    \* bound: objects created in a run
    MaxRefs,       \* bound: length of a reference array in a create-info
    MaxBindings    \* bound: bindings of a descriptor set layout

ASSUME Null \notin Handles /\ MaxCreates \in Nat /\ MaxRefs \in Nat /\ MaxBindings \in Nat

Kinds == {"sampler", "setLayout", "pipelineLayout", "shaderModule",
          "renderPass", "computePipeline", "graphicsPipeline"}

None == -1

\* The runtime_error("Handle is not registered.") of get_hash_for_<kind>.
UnknownHandle == 0

DescriptorTypes == {"SAMPLER", "COMBINED_IMAGE_SAMPLER", "OTHER"}

(* A reference field of a stored create-info: the kind it refers to, its   *)
(* form ("idx": rewritten to index + 1 in val; "raw": the driver handle    *)
(* left as is), and (history) the hash of the object the caller meant.     *)
Ref == [kind : Kinds, form : {"idx", "raw"}, val : Int \cup Handles, expect : Int]

VARIABLES
    reg,       \* the per-kind arrays: samplers, descriptor_sets, ...
    toIndex,   \* the per-kind <kind>_to_index maps (None: no entry)
    live,      \* the driver: the hash of the object behind each handle, or None
    created,   \* objects created so far (the next one's hash is created + 1)
    fault      \* a copy dereferenced a null pointer: the process has crashed

vars == <<reg, toIndex, live, created, fault>>

LiveHandles(k) == {x \in Handles : live[k][x] # None}

(* unordered_map::operator[] as the copy functions use it: a handle        *)
(* without an entry gets index 0 inserted.  The caller references live     *)
(* handles only, which all have an entry, so the insertion never happens   *)
(* here.                                                                   *)
Lookup(k, x) == IF toIndex[k][x] = None THEN 0 ELSE toIndex[k][x]

\* Mutant: the rewrite stores the index instead of index + 1.
RewriteNoBias(k, x) == [kind |-> k, form |-> "idx", val |-> Lookup(k, x), expect |-> live[k][x]]

\* reinterpret_cast<Handle>(uint64_t(<kind>_to_index[x] + 1)).
Rewrite(k, x) == [kind |-> k, form |-> "idx", val |-> Lookup(k, x) + 1, expect |-> live[k][x]]

\* A handle field the copy leaves untouched.
Raw(k, x) == [kind |-> k, form |-> "raw", val |-> x, expect |-> live[k][x]]

-----------------------------------------------------------------------------
(* The create-infos the caller may pass, over the live handles.            *)
RefSeqs(S, lo) == UNION {[1 .. n -> S] : n \in lo .. MaxRefs}

Binding == [type : DescriptorTypes, samplers : RefSeqs(LiveHandles("sampler"), 0)]

Infos(k) ==
    CASE k = "setLayout" ->
            [bindings : UNION {[1 .. n -> Binding] : n \in 0 .. MaxBindings}]
      [] k = "pipelineLayout" -> [sets : RefSeqs(LiveHandles("setLayout"), 0)]
      [] k = "computePipeline" ->
            [module : LiveHandles("shaderModule"), layout : LiveHandles("pipelineLayout"),
             base : LiveHandles("computePipeline") \cup {Null}, allSet : BOOLEAN]
      [] k = "graphicsPipeline" ->
            [modules : RefSeqs(LiveHandles("shaderModule"), 1),
             renderPass : LiveHandles("renderPass"),
             layout : LiveHandles("pipelineLayout"),
             base : LiveHandles("graphicsPipeline") \cup {Null}, allSet : BOOLEAN]
      [] OTHER -> {[none |-> 0]}

(* copy_descriptor_set_layout: for binding i with immutable samplers of a  *)
(* sampler type, the element at position i (the binding's index, not the  *)
(* sampler's) is rewritten; the others keep their raw handles.  (A       *)
(* binding whose array is shorter than i + 1 gets a write past its end,   *)
(* in the caller's memory, which the model does not represent.)           *)
SamplerTyped(bd) == bd.type \in {"SAMPLER", "COMBINED_IMAGE_SAMPLER"} /\ bd.samplers # <<>>

CopySetLayoutRefs(info) ==
    LET b == info.bindings
        refs(i) == [p \in DOMAIN b[i].samplers |->
                      IF p = i THEN Rewrite("sampler", b[i].samplers[p])
                      ELSE Raw("sampler", b[i].samplers[p])]
    IN FlattenSeq([i \in DOMAIN b |-> IF SamplerTyped(b[i]) THEN refs(i) ELSE <<>>])

(* The reference fields of copy_<kind>'s result, in the order it rewrites  *)
(* them.  copy_pipeline_layout rewrites every set layout;                   *)
(* copy_compute_pipeline the stage's module and a non-null base pipeline;  *)
(* copy_graphics_pipeline the render pass, the base and every stage's      *)
(* module.  Neither pipeline copy touches the pipeline layout.             *)
\* Mutant: the base pipeline is looked up in the other pipeline kind's map.
BaseRefsOtherMap(k, b) ==
    IF b = Null THEN <<>>
    ELSE <<Rewrite(IF k = "computePipeline" THEN "graphicsPipeline" ELSE "computePipeline", b)>>

BaseRefs(k, b) == IF b = Null THEN <<>> ELSE <<Rewrite(k, b)>>

CopyRefs(k, info) ==
    CASE k = "setLayout" -> CopySetLayoutRefs(info)
      [] k = "pipelineLayout" -> [i \in DOMAIN info.sets |-> Rewrite("setLayout", info.sets[i])]
      [] k = "computePipeline" ->
            <<Rewrite("shaderModule", info.module)>> \o BaseRefs(k, info.base)
              \o <<Raw("pipelineLayout", info.layout)>>
      [] k = "graphicsPipeline" ->
            <<Rewrite("renderPass", info.renderPass)>> \o BaseRefs(k, info.base)
              \o [i \in DOMAIN info.modules |-> Rewrite("shaderModule", info.modules[i])]
              \o <<Raw("pipelineLayout", info.layout)>>
      [] OTHER -> <<>>

(* A pipeline create-info whose optional pointers are all set: the copies  *)
(* call copy(p, 1) on pSpecializationInfo, pTessellationState,             *)
(* pDynamicState, ... and then dereference the result, without a null      *)
(* check.                                                                  *)
NullFree(k, info) == k \notin {"computePipeline", "graphicsPipeline"} \/ info.allSet

\* Mutant: the index is taken after the push_back.
RegisterIndexAfterPush(s) == Len(s) + 1

\* register_<kind>: the index is the array's size before the push_back.
RegisterIndex(s) == Len(s)

\* Mutant: set_<kind>_handle does not replace an existing entry (emplace).
SetHandleKeep(m, x, idx) == IF m[x] = None THEN [m EXCEPT ![x] = idx] ELSE m

\* set_<kind>_handle: <kind>_to_index[handle] = index.
SetHandle(m, x, idx) == [m EXCEPT ![x] = idx]

-----------------------------------------------------------------------------
Init ==
    /\ reg = [k \in Kinds |-> <<>>]
    /\ toIndex = [k \in Kinds |-> [x \in Handles |-> None]]
    /\ live = [k \in Kinds |-> [x \in Handles |-> None]]
    /\ created = 0
    /\ fault = FALSE

(* The driver creates an object of kind k with the free handle x, and the  *)
(* caller records it: index = register_<kind>(hash, info), which copies    *)
(* info, then set_<kind>_handle(index, x).  A pipeline copy that reaches a *)
(* null optional pointer crashes the process before anything is recorded. *)
Create(k, x) ==
    /\ ~fault
    /\ created < MaxCreates
    /\ live[k][x] = None
    /\ \E info \in Infos(k) :
          IF NullFree(k, info)
          THEN LET idx == RegisterIndex(reg[k]) IN
               /\ reg' = [reg EXCEPT ![k] = Append(@, [hash |-> created + 1,
                                                      refs |-> CopyRefs(k, info)])]
               /\ toIndex' = [toIndex EXCEPT ![k] = SetHandle(@, x, idx)]
               /\ UNCHANGED fault
          ELSE /\ fault' = TRUE
               /\ UNCHANGED <<reg, toIndex>>
    /\ live' = [live EXCEPT ![k][x] = created + 1]
    /\ created' = created + 1

(* The driver destroys the object behind x; the recorder keeps its entry   *)
(* and its handle mapping, and the driver may hand x out again.            *)
Destroy(k, x) ==
    /\ ~fault
    /\ live[k][x] # None
    /\ live' = [live EXCEPT ![k][x] = None]
    /\ UNCHANGED <<reg, toIndex, created, fault>>

(* get_hash_for_<kind>: the hash of the entry the map names, or          *)
(* UnknownHandle (the runtime_error) if the map has no entry.  It changes  *)
(* nothing, so it is an operator the properties apply, not an action.      *)
GetHashFor(k, x) == IF toIndex[k][x] = None THEN UnknownHandle ELSE reg[k][toIndex[k][x] + 1].hash

Next == \E k \in Kinds, x \in Handles : Create(k, x) \/ Destroy(k, x)

Spec == Init /\ [][Next]_vars

-----------------------------------------------------------------------------
TypeOK ==
    /\ \A k \in Kinds : reg[k] \in Seq([hash : 1 .. MaxCreates, refs : Seq(Ref)])
    /\ \A k \in Kinds : toIndex[k] \in [Handles -> {None} \cup (0 .. Len(reg[k]) - 1)]
    /\ live \in [Kinds -> [Handles -> {None} \cup (1 .. MaxCreates)]]
    /\ created \in 0 .. MaxCreates
    /\ fault \in BOOLEAN

\* A stored reference names the entry of the object the caller referenced.
Resolves(r) ==
    /\ r.form = "idx"
    /\ r.val \in 1 .. Len(reg[r.kind])
    /\ reg[r.kind][r.val].hash = r.expect

RefsOf(k, kinds) == {r \in UNION {ToSet(reg[k][i].refs) : i \in DOMAIN reg[k]} : r.kind \in kinds}

Abstract == INSTANCE HashRegistry WITH
    log <- [k \in Kinds |-> [i \in DOMAIN reg[k] |-> reg[k][i].hash]],
    lookup <- [k \in Kinds |-> [x \in Handles |-> GetHashFor(k, x)]]

(* Section 4.3: register_<kind>, set_<kind>_handle and get_hash_for_<kind> *)
(* implement an append-only registry whose lookup answers the hash last    *)
(* registered under a handle, also after the driver reused the handle of  *)
(* a destroyed object (set_<kind>_handle must replace the old mapping).   *)
ImplementsHashRegistry == Abstract!Spec

(* The set layouts of every recorded pipeline layout resolve to the set    *)
(* layouts it was created with, whatever handles were reused since.        *)
SetLayoutRefsResolve == \A r \in RefsOf("pipelineLayout", Kinds) : Resolves(r)

(* The shader modules, render pass and base pipeline of every recorded     *)
(* pipeline resolve to the objects it was created with.                    *)
PipelineRefsResolve ==
    \A r \in RefsOf("computePipeline", Kinds \ {"pipelineLayout"})
               \cup RefsOf("graphicsPipeline", Kinds \ {"pipelineLayout"}) : Resolves(r)

=============================================================================
