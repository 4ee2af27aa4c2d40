--------------------------- MODULE ArchiveRoundTrip ---------------------------
(***************************************************************************)
(* StateRecorder::serialize composed with StateReplayer::parse: the text   *)
(* the recorder writes is the document the replayer reads.                 *)
(*                                                                         *)
(* A recorded registry maps each of the seven kinds to its entries in      *)
(* registration order; an entry is the sequence of its reference fields as *)
(* copy_<kind> left them (index + 1, which Registry shows for set layouts *)
(* of pipeline layouts).  Serialize gives the document as the release      *)
(* build produces it: rapidjson's AddMember moves a value into the         *)
(* document, so an array added before its loop fills it stays empty in    *)
(* the document, while the loop pushes onto the moved-from local.  (With   *)
(* assertions enabled, the PushBack on the moved-from value aborts.)       *)
(***************************************************************************)
EXTENDS Replayer

CONSTANT Recorded    \* the registries the recorder may hold when serialize runs

RecorderKinds == {"samplers", "descriptor_sets", "pipeline_layouts", "shader_modules",
                  "render_passes", "compute_pipelines", "graphics_pipelines"}

VARIABLE recorded    \* the registry that was serialized

\* The arrays serialize adds to the document only after filling them.
SerializeFilled(r) ==
    [samplers |-> r["samplers"],
     pipelineLayouts |-> r["pipeline_layouts"],
     shaderModules |-> r["shader_modules"],
     computePipelines |-> r["compute_pipelines"],
     graphicsPipelines |-> r["graphics_pipelines"]]

(* serialize(): "setLayouts" and "renderPasses" are added as empty arrays  *)
(* before their loops run; every other array after.                        *)
Serialize(r) == SerializeFilled(r) @@ [setLayouts |-> <<>>, renderPasses |-> <<>>]

\* The document key parse reads each registry back from, if any.
ReadKey ==
    [samplers |-> "samplers", descriptor_sets |-> "descriptorSetLayouts",
     pipeline_layouts |-> "pipelineLayouts", shader_modules |-> "shaderModules",
     render_passes |-> "renderPasses", compute_pipelines |-> "none",
     graphics_pipelines |-> "none"]

RTInit == Init /\ recorded \in Recorded /\ doc = Serialize(recorded)

RTSpec == RTInit /\ [][Next /\ UNCHANGED recorded]_<<vars, recorded>>
            /\ WF_vars(Parser) /\ WF_vars(\E o \in pending : EngineCreate(o))

-----------------------------------------------------------------------------
(* Section 8: serialize then parse is the identity on all seven registries *)
(* (scenario 6: the engine is called back for every recorded entity, in    *)
(* kind order, with resolved references).  Once parse has returned, it     *)
(* returned true and every recorded entry was enqueued at its position.    *)
RoundTrip ==
    result # "running" =>
        /\ result = "true"
        /\ \A k \in RecorderKinds : \A i \in DOMAIN recorded[k] :
               \E c \in sent : c.kind = ReadKey[k] /\ c.index = i

=============================================================================
