--------------------------- MODULE MCCanonicalHash ---------------------------
(***************************************************************************)
(* The compute_hash_<kind> functions over entities that differ in one     *)
(* field: graphics pipelines, set layouts, pipeline layouts, compute       *)
(* pipelines, shader modules and render passes.                            *)
(*                                                                         *)
(* A base pipeline has every state block present, one vertex stage, one    *)
(* scissor, one viewport and one blend attachment, all values 0, and      *)
(* varies in what gates the hashing: the dynamic-state list (none, each   *)
(* single state, or all nine), the depth-bounds, stencil and depth-bias   *)
(* enables, the blend enable and its source factor (ZERO, CONSTANT_COLOR *)
(* or ONE_MINUS_CONSTANT_COLOR),                                          *)
(* whether a sample mask is given, and whether a base pipeline is named.  *)
(* A minimal pipeline with every optional block null is added.  Vary(p, f)*)
(* changes the one field f of p.                                           *)
(***************************************************************************)
EXTENDS CanonicalHash

VARIABLES entity, field, hashes

vars == <<entity, field, hashes>>

MCHashFor ==
    [shaderModule |-> [m \in {"m1", "m2", "m3"} |-> IF m = "m3" THEN "h2" ELSE "h1"],
     pipelineLayout |-> [l \in {"l1"} |-> "hl"],
     renderPass |-> [r \in {"r1"} |-> "hr"],
     graphicsPipeline |-> [b \in {"b1"} |-> "hb"],
     computePipeline |-> [c \in {"c1", "c2"} |-> "hc"],
     sampler |-> [x \in {"s1", "s2", "s3"} |-> IF x = "s3" THEN "hs3" ELSE "hs1"],
     descriptorSetLayout |-> [d \in {"d1", "d2", "d3"} |-> IF d = "d3" THEN "hd3" ELSE "hd1"]]

DynamicStates == {"VIEWPORT", "SCISSOR", "LINE_WIDTH", "DEPTH_BIAS", "BLEND_CONSTANTS",
                  "DEPTH_BOUNDS", "STENCIL_COMPARE_MASK", "STENCIL_WRITE_MASK",
                  "STENCIL_REFERENCE"}

AllDynamic == <<"VIEWPORT", "SCISSOR", "LINE_WIDTH", "DEPTH_BIAS", "BLEND_CONSTANTS",
                "DEPTH_BOUNDS", "STENCIL_COMPARE_MASK", "STENCIL_WRITE_MASK",
                "STENCIL_REFERENCE">>

DynamicLists == {<<>>, AllDynamic} \cup {<<d>> : d \in DynamicStates}

Face == [compareMask |-> 0, reference |-> 0, writeMask |-> 0]

Stage == [flags |-> 0, pName |-> "main", stage |-> 1, module |-> "m1",
          pSpecializationInfo |-> <<>>]

Blend(e, factor) ==
    [blendEnable |-> e, colorWriteMask |-> 0, alphaBlendOp |-> 0, colorBlendOp |-> 0,
     dstAlphaBlendFactor |-> "ZERO", srcAlphaBlendFactor |-> "ZERO",
     dstColorBlendFactor |-> "ZERO", srcColorBlendFactor |-> factor]

Pipeline(dl, dbt, st, dbe, be, factor, mask, base) ==
    [flags |-> 0, basePipelineHandle |-> base, basePipelineIndex |-> -1,
     layout |-> "l1", renderPass |-> "r1", subpass |-> 0, pStages |-> <<Stage>>,
     pDynamicState |-> IF dl = <<>> THEN <<>> ELSE <<[flags |-> 0, pDynamicStates |-> dl]>>,
     pDepthStencilState |-> <<[flags |-> 0, depthBoundsTestEnable |-> dbt,
                               ops |-> [i \in 1 .. 11 |-> 0], stencilTestEnable |-> st,
                               minDepthBounds |-> 0, maxDepthBounds |-> 0,
                               front |-> Face, back |-> Face]>>,
     pInputAssemblyState |-> <<[flags |-> 0, primitiveRestartEnable |-> 0, topology |-> 0]>>,
     pRasterizationState |-> <<[flags |-> 0, modes |-> [i \in 1 .. 5 |-> 0],
                                depthBiasEnable |-> dbe, depthBiasClamp |-> 0,
                                depthBiasSlopeFactor |-> 0, depthBiasConstantFactor |-> 0,
                                lineWidth |-> 0]>>,
     pMultisampleState |-> <<[flags |-> 0, alphaToCoverageEnable |-> 0, alphaToOneEnable |-> 0,
                              minSampleShading |-> 0, rasterizationSamples |-> 1,
                              sampleShadingEnable |-> 0, pSampleMask |-> mask]>>,
     pViewportState |-> <<[flags |-> 0, scissorCount |-> 1, viewportCount |-> 1,
                           pScissors |-> <<[x |-> 0, y |-> 0, width |-> 0, height |-> 0]>>,
                           pViewports |-> <<[x |-> 0, y |-> 0, width |-> 0, height |-> 0,
                                             minDepth |-> 0, maxDepth |-> 0]>>]>>,
     pVertexInputState |-> <<[flags |-> 0, bindings |-> <<>>,
                              attributes |-> <<[offset |-> 0, binding |-> 0, format |-> 0,
                                                location |-> 0]>>]>>,
     pColorBlendState |-> <<[flags |-> 0, logicOpEnable |-> 0, logicOp |-> 0,
                             pAttachments |-> <<Blend(be, factor)>>,
                             blendConstants |-> <<0, 0, 0, 0>>]>>,
     pTessellationState |-> <<[flags |-> 0, patchControlPoints |-> 0]>>]

MinimalPipeline ==
    [Pipeline(<<>>, 0, 0, 0, 0, "ZERO", <<>>, Null) EXCEPT
        !.pDepthStencilState = <<>>, !.pInputAssemblyState = <<>>,
        !.pRasterizationState = <<>>, !.pMultisampleState = <<>>, !.pViewportState = <<>>,
        !.pVertexInputState = <<>>, !.pColorBlendState = <<>>, !.pTessellationState = <<>>]

MCPipelines ==
    {MinimalPipeline} \cup
    {Pipeline(dl, dbt, st, dbe, be, factor, mask, base) :
        dl \in DynamicLists, dbt \in {0, 1}, st \in {0, 1}, dbe \in {0, 1}, be \in {0, 1},
        factor \in {"ZERO", "CONSTANT_COLOR", "ONE_MINUS_CONSTANT_COLOR"}, mask \in {<<>>, <<<<0>>>>}, base \in {Null, "b1"}}

\* The fields varied, by the block they are in.
BlockFields ==
    [pDepthStencilState |-> {"depthBoundsTestEnable", "minDepthBounds", "maxDepthBounds",
                             "stencilTestEnable", "frontCompareMask", "backCompareMask",
                             "frontReference", "backReference", "frontWriteMask",
                             "backWriteMask"},
     pInputAssemblyState |-> {"topology"},
     pRasterizationState |-> {"depthBiasEnable", "depthBiasClamp", "depthBiasSlopeFactor",
                              "depthBiasConstantFactor", "lineWidth"},
     pMultisampleState |-> {"minSampleShading", "sampleMask"},
     pViewportState |-> {"scissorX", "scissorWidth", "viewportWidth", "viewportMinDepth"},
     pVertexInputState |-> {"vertexOffset"},
     pColorBlendState |-> {"logicOp", "blendEnable", "colorWriteMask", "alphaBlendOp",
                           "blendConstants"},
     pTessellationState |-> {"patchControlPoints"}]

GraphicsFields(p) ==
    ({"subpass", "stagePName", "stageModule", "stageModuleSameHash"}
     \cup UNION {BlockFields[b] : b \in {b \in DOMAIN BlockFields : p[b] # <<>>}})
    \ (IF p.pMultisampleState # <<>> /\ p.pMultisampleState[1].pSampleMask = <<>>
       THEN {"sampleMask"} ELSE {})

VaryGraphics(p, f) ==
    CASE f = "subpass" -> [p EXCEPT !.subpass = 1]
      [] f = "stagePName" -> [p EXCEPT !.pStages[1].pName = "other"]
      [] f = "stageModule" -> [p EXCEPT !.pStages[1].module = "m3"]
      [] f = "stageModuleSameHash" -> [p EXCEPT !.pStages[1].module = "m2"]
      [] f = "depthBoundsTestEnable" -> [p EXCEPT !.pDepthStencilState[1].depthBoundsTestEnable = 1 - @]
      [] f = "minDepthBounds" -> [p EXCEPT !.pDepthStencilState[1].minDepthBounds = 1]
      [] f = "maxDepthBounds" -> [p EXCEPT !.pDepthStencilState[1].maxDepthBounds = 1]
      [] f = "stencilTestEnable" -> [p EXCEPT !.pDepthStencilState[1].stencilTestEnable = 1 - @]
      [] f = "frontCompareMask" -> [p EXCEPT !.pDepthStencilState[1].front.compareMask = 1]
      [] f = "backCompareMask" -> [p EXCEPT !.pDepthStencilState[1].back.compareMask = 1]
      [] f = "frontReference" -> [p EXCEPT !.pDepthStencilState[1].front.reference = 1]
      [] f = "backReference" -> [p EXCEPT !.pDepthStencilState[1].back.reference = 1]
      [] f = "frontWriteMask" -> [p EXCEPT !.pDepthStencilState[1].front.writeMask = 1]
      [] f = "backWriteMask" -> [p EXCEPT !.pDepthStencilState[1].back.writeMask = 1]
      [] f = "topology" -> [p EXCEPT !.pInputAssemblyState[1].topology = 1]
      [] f = "depthBiasEnable" -> [p EXCEPT !.pRasterizationState[1].depthBiasEnable = 1 - @]
      [] f = "depthBiasClamp" -> [p EXCEPT !.pRasterizationState[1].depthBiasClamp = 1]
      [] f = "depthBiasSlopeFactor" -> [p EXCEPT !.pRasterizationState[1].depthBiasSlopeFactor = 1]
      [] f = "depthBiasConstantFactor" -> [p EXCEPT !.pRasterizationState[1].depthBiasConstantFactor = 1]
      [] f = "lineWidth" -> [p EXCEPT !.pRasterizationState[1].lineWidth = 1]
      [] f = "minSampleShading" -> [p EXCEPT !.pMultisampleState[1].minSampleShading = 1]
      [] f = "sampleMask" -> [p EXCEPT !.pMultisampleState[1].pSampleMask = <<<<1>>>>]
      [] f = "scissorX" -> [p EXCEPT !.pViewportState[1].pScissors[1].x = 1]
      [] f = "scissorWidth" -> [p EXCEPT !.pViewportState[1].pScissors[1].width = 1]
      [] f = "viewportWidth" -> [p EXCEPT !.pViewportState[1].pViewports[1].width = 1]
      [] f = "viewportMinDepth" -> [p EXCEPT !.pViewportState[1].pViewports[1].minDepth = 1]
      [] f = "vertexOffset" -> [p EXCEPT !.pVertexInputState[1].attributes[1].offset = 1]
      [] f = "logicOp" -> [p EXCEPT !.pColorBlendState[1].logicOp = 1]
      [] f = "blendEnable" -> [p EXCEPT !.pColorBlendState[1].pAttachments[1].blendEnable = 1 - @]
      [] f = "colorWriteMask" -> [p EXCEPT !.pColorBlendState[1].pAttachments[1].colorWriteMask = 1]
      [] f = "alphaBlendOp" -> [p EXCEPT !.pColorBlendState[1].pAttachments[1].alphaBlendOp = 1]
      [] f = "blendConstants" -> [p EXCEPT !.pColorBlendState[1].blendConstants[2] = 1]
      [] f = "patchControlPoints" -> [p EXCEPT !.pTessellationState[1].patchControlPoints = 1]

-----------------------------------------------------------------------------
(* Set layouts: one binding of a sampler, combined-image-sampler or        *)
(* uniform-buffer type, with or without an immutable sampler.             *)
MCSetLayouts ==
    {[flags |-> 0, pBindings |-> <<[binding |-> 0, descriptorCount |-> 1, descriptorType |-> t,
                                    stageFlags |-> 0, pImmutableSamplers |-> ims]>>] :
        t \in {"SAMPLER", "COMBINED_IMAGE_SAMPLER", "UNIFORM_BUFFER"}, ims \in {<<>>, <<<<"s1">>>>}}

SetLayoutFields(l) ==
    {"descriptorType"} \cup
    (IF l.pBindings[1].pImmutableSamplers # <<>>
     THEN {"immutableSampler", "immutableSamplerSameHash"} ELSE {})

VarySetLayout(l, f) ==
    CASE f = "descriptorType" -> [l EXCEPT !.pBindings[1].descriptorType = "STORAGE_BUFFER"]
      [] f = "immutableSampler" -> [l EXCEPT !.pBindings[1].pImmutableSamplers = <<<<"s3">>>>]
      [] f = "immutableSamplerSameHash" -> [l EXCEPT !.pBindings[1].pImmutableSamplers = <<<<"s2">>>>]

\* Pipeline layouts: one set layout, null or not, and one push-constant range.
MCPipelineLayouts ==
    {[flags |-> 0, pSetLayouts |-> <<d>>,
      pPushConstantRanges |-> <<[stageFlags |-> 0, size |-> 4, offset |-> 0]>>] : d \in {Null, "d1"}}

PipelineLayoutFields(l) ==
    {"setLayout", "pushConstantSize"} \cup
    (IF l.pSetLayouts[1] # Null THEN {"setLayoutSameHash"} ELSE {})

VaryPipelineLayout(l, f) ==
    CASE f = "setLayout" -> [l EXCEPT !.pSetLayouts[1] = "d3"]
      [] f = "setLayoutSameHash" -> [l EXCEPT !.pSetLayouts[1] = "d2"]
      [] f = "pushConstantSize" -> [l EXCEPT !.pPushConstantRanges[1].size = 8]

\* Compute pipelines: with or without a base pipeline and specialization.
MCComputePipelines ==
    {[flags |-> 0, layout |-> "l1", basePipelineHandle |-> b, basePipelineIndex |-> -1,
      stage |-> [flags |-> 0, stage |-> 5, module |-> "m1", pName |-> "main",
                 pSpecializationInfo |-> si]] :
        b \in {Null, "c1"},
        si \in {<<>>, <<[pData |-> "d", dataSize |-> 4,
                        pMapEntries |-> <<[offset |-> 0, size |-> 4, constantID |-> 0]>>]>>}}

ComputeFields(c) ==
    {"computeModule", "computeModuleSameHash", "computePName"} \cup
    (IF c.basePipelineHandle # Null THEN {"baseSameHash"} ELSE {}) \cup
    (IF c.stage.pSpecializationInfo # <<>> THEN {"specConstantID", "specData"} ELSE {})

VaryCompute(c, f) ==
    CASE f = "computeModule" -> [c EXCEPT !.stage.module = "m3"]
      [] f = "computeModuleSameHash" -> [c EXCEPT !.stage.module = "m2"]
      [] f = "computePName" -> [c EXCEPT !.stage.pName = "other"]
      [] f = "baseSameHash" -> [c EXCEPT !.basePipelineHandle = "c2"]
      [] f = "specConstantID" -> [c EXCEPT !.stage.pSpecializationInfo[1].pMapEntries[1].constantID = 1]
      [] f = "specData" -> [c EXCEPT !.stage.pSpecializationInfo[1].pData = "e"]

-----------------------------------------------------------------------------
\* Shader modules: the code blob, its size and the flags.
MCShaderModules == {[flags |-> 0, codeSize |-> 4, pCode |-> "c"]}

ShaderModuleFields(m) == {"code", "codeSize", "moduleFlags"}

VaryShaderModule(m, f) ==
    CASE f = "code" -> [m EXCEPT !.pCode = "d"]
      [] f = "codeSize" -> [m EXCEPT !.codeSize = 8]
      [] f = "moduleFlags" -> [m EXCEPT !.flags = 1]

(* Render passes of one or two subpasses over two attachments.  Every      *)
(* subpass writes attachment 0 as a color attachment in layout 2           *)
(* (COLOR_ATTACHMENT_OPTIMAL), may resolve it into attachment 1, and may   *)
(* use attachment 1 as depth-stencil in layout 3 (DEPTH_STENCIL_ATTACHMENT *)
(* _OPTIMAL): well-formed create-infos, as Vulkan's valid usage requires.  *)
Ref(a, l) == [attachment |-> a, layout |-> l]

Subpass(resolve, ds) ==
    [flags |-> 0, pipelineBindPoint |-> 0, pPreserveAttachments |-> <<>>,
     pInputAttachments |-> <<>>, pColorAttachments |-> <<Ref(0, 2)>>,
     pResolveAttachments |-> IF resolve THEN <<<<Ref(1, 2)>>>> ELSE <<>>,
     pDepthStencilAttachment |-> IF ds THEN <<Ref(1, 3)>> ELSE <<>>]

\* An attachment description's nine fields and a dependency's seven.
Attachment == [i \in 1 .. 9 |-> 0]
Dependency == [i \in 1 .. 7 |-> 0]

MCRenderPasses ==
    {[pAttachments |-> <<Attachment, Attachment>>, pDependencies |-> d, pSubpasses |-> s] :
        d \in {<<>>, <<Dependency>>},
        s \in {<<Subpass(r, ds)>> : r, ds \in BOOLEAN}
             \cup {<<Subpass(FALSE, ds1), Subpass(FALSE, ds2)>> : ds1, ds2 \in BOOLEAN}}

\* Moving the depth-stencil reference to the other subpass is a variation
\* where exactly one of two subpasses has one.
RenderPassFields(rp) ==
    {"subpassFlags", "colorLayout", "resolve", "depthStencil", "inputAttachment",
     "preserveAttachment", "attachmentFormat"}
    \cup (IF rp.pDependencies # <<>> THEN {"dependencyMask"} ELSE {})
    \cup (IF Len(rp.pSubpasses) = 2 /\ (rp.pSubpasses[1].pDepthStencilAttachment = <<>>)
                                     # (rp.pSubpasses[2].pDepthStencilAttachment = <<>>)
          THEN {"depthStencilMoved"} ELSE {})

VaryRenderPass(rp, f) ==
    CASE f = "subpassFlags" -> [rp EXCEPT !.pSubpasses[1].flags = 1]
      [] f = "colorLayout" -> [rp EXCEPT !.pSubpasses[1].pColorAttachments[1].layout = 5]
      [] f = "resolve" -> [rp EXCEPT !.pSubpasses[1].pResolveAttachments =
                               IF @ = <<>> THEN <<<<Ref(1, 2)>>>> ELSE <<>>]
      [] f = "depthStencil" -> [rp EXCEPT !.pSubpasses[1].pDepthStencilAttachment =
                                    IF @ = <<>> THEN <<Ref(1, 3)>> ELSE <<>>]
      [] f = "inputAttachment" -> [rp EXCEPT !.pSubpasses[1].pInputAttachments = <<Ref(1, 5)>>]
      [] f = "preserveAttachment" -> [rp EXCEPT !.pSubpasses[1].pPreserveAttachments = <<1>>]
      [] f = "attachmentFormat" -> [rp EXCEPT !.pAttachments[2][2] = 1]
      [] f = "dependencyMask" -> [rp EXCEPT !.pDependencies[1][3] = 1]
      [] f = "depthStencilMoved" ->
            [rp EXCEPT !.pSubpasses[1].pDepthStencilAttachment = rp.pSubpasses[2].pDepthStencilAttachment,
                       !.pSubpasses[2].pDepthStencilAttachment = rp.pSubpasses[1].pDepthStencilAttachment]

-----------------------------------------------------------------------------
MCEntities ==
    {[kind |-> "graphicsPipeline", info |-> p] : p \in MCPipelines}
    \cup {[kind |-> "descriptorSetLayout", info |-> l] : l \in MCSetLayouts}
    \cup {[kind |-> "pipelineLayout", info |-> l] : l \in MCPipelineLayouts}
    \cup {[kind |-> "computePipeline", info |-> c] : c \in MCComputePipelines}
    \cup {[kind |-> "shaderModule", info |-> m] : m \in MCShaderModules}
    \cup {[kind |-> "renderPass", info |-> rp] : rp \in MCRenderPasses}

Fields(e) ==
    CASE e.kind = "graphicsPipeline" -> GraphicsFields(e.info)
      [] e.kind = "descriptorSetLayout" -> SetLayoutFields(e.info)
      [] e.kind = "pipelineLayout" -> PipelineLayoutFields(e.info)
      [] e.kind = "computePipeline" -> ComputeFields(e.info)
      [] e.kind = "shaderModule" -> ShaderModuleFields(e.info)
      [] e.kind = "renderPass" -> RenderPassFields(e.info)

Vary(e, f) ==
    [e EXCEPT !.info =
        CASE e.kind = "graphicsPipeline" -> VaryGraphics(@, f)
          [] e.kind = "descriptorSetLayout" -> VarySetLayout(@, f)
          [] e.kind = "pipelineLayout" -> VaryPipelineLayout(@, f)
          [] e.kind = "computePipeline" -> VaryCompute(@, f)
          [] e.kind = "shaderModule" -> VaryShaderModule(@, f)
          [] e.kind = "renderPass" -> VaryRenderPass(@, f)]

\* compute_hash_<kind> of the entity.
Hash(e) ==
    CASE e.kind = "graphicsPipeline" -> compute_hash_graphics_pipeline(e.info)
      [] e.kind = "descriptorSetLayout" -> compute_hash_descriptor_set_layout(e.info)
      [] e.kind = "pipelineLayout" -> compute_hash_pipeline_layout(e.info)
      [] e.kind = "computePipeline" -> compute_hash_compute_pipeline(e.info)
      [] e.kind = "shaderModule" -> compute_hash_shader_module(e.info)
      [] e.kind = "renderPass" -> compute_hash_render_pass(e.info)

Init ==
    /\ entity \in MCEntities
    /\ field \in Fields(entity)
    /\ hashes = <<>>

\* The recorder hashes both create-infos (StateRecorder::record_<kind>).
HashBoth ==
    /\ hashes = <<>>
    /\ hashes' = <<Hash(entity), Hash(Vary(entity, field))>>
    /\ UNCHANGED <<entity, field>>

Next == HashBoth

Spec == Init /\ [][Next]_vars

-----------------------------------------------------------------------------
\* Which dynamic state overrides a field at draw time (spec 4.2).
OverriddenBy ==
    [minDepthBounds |-> "DEPTH_BOUNDS", maxDepthBounds |-> "DEPTH_BOUNDS",
     frontCompareMask |-> "STENCIL_COMPARE_MASK", backCompareMask |-> "STENCIL_COMPARE_MASK",
     frontReference |-> "STENCIL_REFERENCE", backReference |-> "STENCIL_REFERENCE",
     frontWriteMask |-> "STENCIL_WRITE_MASK", backWriteMask |-> "STENCIL_WRITE_MASK",
     depthBiasClamp |-> "DEPTH_BIAS", depthBiasSlopeFactor |-> "DEPTH_BIAS",
     depthBiasConstantFactor |-> "DEPTH_BIAS", lineWidth |-> "LINE_WIDTH",
     scissorX |-> "SCISSOR", scissorWidth |-> "SCISSOR",
     viewportWidth |-> "VIEWPORT", viewportMinDepth |-> "VIEWPORT",
     blendConstants |-> "BLEND_CONSTANTS"]

(* The enable that makes the driver ignore a field when it is off.  The   *)
(* colorWriteMask is not among them: Vulkan applies it to the attachment's *)
(* writes whether blending is enabled or not.                              *)
GatedBy ==
    [minDepthBounds |-> "depthBounds", maxDepthBounds |-> "depthBounds",
     frontCompareMask |-> "stencil", backCompareMask |-> "stencil",
     frontReference |-> "stencil", backReference |-> "stencil",
     frontWriteMask |-> "stencil", backWriteMask |-> "stencil",
     depthBiasClamp |-> "depthBias", depthBiasSlopeFactor |-> "depthBias",
     depthBiasConstantFactor |-> "depthBias",
     alphaBlendOp |-> "blend"]

Enabled(p, g) ==
    CASE g = "depthBounds" -> p.pDepthStencilState[1].depthBoundsTestEnable = 1
      [] g = "stencil" -> p.pDepthStencilState[1].stencilTestEnable = 1
      [] g = "depthBias" -> p.pRasterizationState[1].depthBiasEnable = 1
      [] g = "blend" -> p.pColorBlendState[1].pAttachments[1].blendEnable = 1

\* The states the pipeline's pDynamicState declares.
DeclaredDynamic(p) ==
    UNION {ToSet(d.pDynamicStates) : d \in ToSet(p.pDynamicState)}

(* The factors that read the blend constants (spec 4.2: "CONSTANT_*"      *)
(* factors), the ONE_MINUS_ ones included.                                 *)
ConstantReadingFactors ==
    {"CONSTANT_COLOR", "CONSTANT_ALPHA",
     "ONE_MINUS_CONSTANT_COLOR", "ONE_MINUS_CONSTANT_ALPHA"}

\* Some enabled attachment blends with a factor that reads the constants.
BlendReadsConstants(p) ==
    \E a \in ToSet(p.pColorBlendState[1].pAttachments) :
        a.blendEnable = 1 /\ \E x \in ConstantReadingFactors :
            x \in {a.srcColorBlendFactor, a.dstColorBlendFactor,
                   a.srcAlphaBlendFactor, a.dstAlphaBlendFactor}

(* The reference: a field is outside a graphics pipeline's identity iff    *)
(* the driver ignores it.  That is when a dynamic state of the pipeline    *)
(* overrides it (spec 4.2), when it is the blend constants and no enabled  *)
(* attachment uses a CONSTANT_* factor (spec 4.2), when the depth-bounds,  *)
(* stencil, depth-bias or blend it belongs to is disabled, or when it is a *)
(* reference replaced by another handle of the same hash (spec 4.2:        *)
(* references are hashed as the referenced entity's hash).                 *)
IgnoredGraphics(p, f) ==
    \/ f \in DOMAIN OverriddenBy /\ OverriddenBy[f] \in DeclaredDynamic(p)
    \/ f = "blendConstants" /\ ~BlendReadsConstants(p)
    \/ f \in DOMAIN GatedBy /\ ~Enabled(p, GatedBy[f])
    \/ f = "stageModuleSameHash"

(* The reference for the other kinds: an immutable sampler is outside a   *)
(* binding's identity unless the binding is of a sampler type (spec 4.2); *)
(* a reference replaced by another handle of the same hash is outside any *)
(* entity's identity.                                                      *)
Ignored(e, f) ==
    CASE e.kind = "graphicsPipeline" -> IgnoredGraphics(e.info, f)
      [] e.kind = "descriptorSetLayout" ->
            \/ f = "immutableSamplerSameHash"
            \/ f = "immutableSampler" /\
                 e.info.pBindings[1].descriptorType \notin {"SAMPLER", "COMBINED_IMAGE_SAMPLER"}
      [] OTHER -> f \in {"setLayoutSameHash", "computeModuleSameHash", "baseSameHash"}

(* Spec 4.2 and section 8 (scenario 5): two entities that differ in one   *)
(* field hash equally exactly when that field is outside the entity's     *)
(* identity: compute_hash_graphics_pipeline suppresses every value a      *)
(* dynamic state, a disabled test or a disabled blend makes irrelevant,   *)
(* compute_hash_descriptor_set_layout the immutable samplers of other     *)
(* descriptor types, every compute_hash_<kind> hashes references through  *)
(* get_hash_for_<kind>, and nothing else is left out.                     *)
HashIsIdentity ==
    hashes # <<>> => ((hashes[1] = hashes[2]) <=> Ignored(entity, field))

=============================================================================
