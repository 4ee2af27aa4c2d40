---------------------------- MODULE CanonicalHash ----------------------------
(***************************************************************************)
(* The canonical hashes of src/vulkan_pipeline_cache.cpp, namespace        *)
(* Hashing (compute_hash_<kind>), over the Hasher of spec section 4.1.    *)
(*                                                                         *)
(* The Hasher is not under src/.  Its contract is that two token          *)
(* sequences hash equally iff they are equal token by token, in type and  *)
(* value; a 64-bit collision of the mix is outside that contract.  So a   *)
(* hash is represented by the token sequence that was fed: a compute_hash *)
(* operator below gives the sequence of h.u32 / h.s32 / h.u64 / h.f32 /   *)
(* h.string / h.data calls, in order, and two hashes are equal iff those   *)
(* sequences are.                                                          *)
(*                                                                         *)
(* A create-info is a record named after its Vulkan struct.  A pointer to *)
(* an optional struct is a sequence of length 0 (null) or 1; an array is a *)
(* sequence, its count being its length.  A handle is looked up with       *)
(* HashFor[kind][handle], the recorder's get_hash_for_<kind>.             *)
(***************************************************************************)
EXTENDS Integers, Sequences, SequencesExt

CONSTANT HashFor    \* get_hash_for_<kind>(handle), per kind

Null == "VK_NULL_HANDLE"

\* The Hasher's typed tokens (spec 4.1).
U32(v) == <<"u32", v>>
S32(v) == <<"s32", v>>
U64(v) == <<"u64", v>>
F32(v) == <<"f32", v>>
Str(s) == <<"string", s>>
Blob(d, n) == <<"data", d, n>>

\* The tokens of body(e) for each element e of array s, in order.
Each(s, Body(_)) == FlattenSeq([i \in DOMAIN s |-> Body(s[i])])

\* The "else h.u32(0)" of a null optional struct.
NullBlock == <<U32(0)>>

ConstantFactors == {"CONSTANT_COLOR", "CONSTANT_ALPHA"}

-----------------------------------------------------------------------------
(* The dynamic states compute_hash_graphics_pipeline scans for; any other  *)
(* value falls to the switch's default.                                    *)
DynamicSet(p) ==
    IF p.pDynamicState = <<>> THEN {} ELSE ToSet(p.pDynamicState[1].pDynamicStates)

HashDynamicState(p) ==
    IF p.pDynamicState = <<>> THEN NullBlock
    ELSE LET st == p.pDynamicState[1] IN
         <<U32(Len(st.pDynamicStates)), U32(st.flags)>> \o Each(st.pDynamicStates, U32)

\* One stencil face's three masks, each kept unless its state is dynamic.
HashStencilMasks(ds, dyn) ==
    (IF "STENCIL_COMPARE_MASK" \in dyn THEN <<>>
     ELSE <<U32(ds.front.compareMask), U32(ds.back.compareMask)>>)
    \o (IF "STENCIL_REFERENCE" \in dyn THEN <<>>
        ELSE <<U32(ds.front.reference), U32(ds.back.reference)>>)
    \o (IF "STENCIL_WRITE_MASK" \in dyn THEN <<>>
        ELSE <<U32(ds.front.writeMask), U32(ds.back.writeMask)>>)

(* ds.ops: depthCompareOp, depthTestEnable, depthWriteEnable and the four  *)
(* stencil ops of front and back, hashed unconditionally in that order.    *)
HashDepthStencil(p, dyn) ==
    IF p.pDepthStencilState = <<>> THEN NullBlock
    ELSE LET ds == p.pDepthStencilState[1] IN
         <<U32(ds.flags), U32(ds.depthBoundsTestEnable)>>
         \o Each(ds.ops, U32)
         \o <<U32(ds.stencilTestEnable)>>
         \o (IF "DEPTH_BOUNDS" \notin dyn /\ ds.depthBoundsTestEnable = 1
             THEN <<F32(ds.minDepthBounds), F32(ds.maxDepthBounds)>> ELSE <<>>)
         \o (IF ds.stencilTestEnable = 1 THEN HashStencilMasks(ds, dyn) ELSE <<>>)

HashInputAssembly(p) ==
    IF p.pInputAssemblyState = <<>> THEN NullBlock
    ELSE LET ia == p.pInputAssemblyState[1] IN
         <<U32(ia.flags), U32(ia.primitiveRestartEnable), U32(ia.topology)>>

(* rs.modes: cullMode, depthClampEnable, frontFace,                        *)
(* rasterizerDiscardEnable and polygonMode, hashed unconditionally.        *)
HashRasterization(p, dyn) ==
    IF p.pRasterizationState = <<>> THEN NullBlock
    ELSE LET rs == p.pRasterizationState[1] IN
         <<U32(rs.flags)>> \o Each(rs.modes, U32) \o <<U32(rs.depthBiasEnable)>>
         \o (IF rs.depthBiasEnable = 1 /\ "DEPTH_BIAS" \notin dyn
             THEN <<F32(rs.depthBiasClamp), F32(rs.depthBiasSlopeFactor),
                    F32(rs.depthBiasConstantFactor)>>
             ELSE <<>>)
         \o (IF "LINE_WIDTH" \notin dyn THEN <<F32(rs.lineWidth)>> ELSE <<>>)

\* (rasterizationSamples + 31) / 32 words of the sample mask.
SampleMaskWords(ms) == (ms.rasterizationSamples + 31) \div 32

(* No "else h.u32(0)": a null multisample state feeds no token at all.     *)
HashMultisample(p) ==
    IF p.pMultisampleState = <<>> THEN <<>>
    ELSE LET ms == p.pMultisampleState[1] IN
         <<U32(ms.flags), U32(ms.alphaToCoverageEnable), U32(ms.alphaToOneEnable),
           F32(ms.minSampleShading), U32(ms.rasterizationSamples),
           U32(ms.sampleShadingEnable)>>
         \o (IF ms.pSampleMask = <<>> THEN NullBlock
             ELSE [i \in 1 .. SampleMaskWords(ms) |-> U32(ms.pSampleMask[1][i])])

HashScissor(r) == <<S32(r.x), S32(r.y), U32(r.width), U32(r.height)>>

HashViewportRect(v) ==
    <<F32(v.x), F32(v.y), F32(v.width), F32(v.height), F32(v.minDepth), F32(v.maxDepth)>>

HashViewport(p, dyn) ==
    IF p.pViewportState = <<>> THEN NullBlock
    ELSE LET vp == p.pViewportState[1] IN
         <<U32(vp.flags), U32(vp.scissorCount), U32(vp.viewportCount)>>
         \o (IF "SCISSOR" \notin dyn THEN Each(SubSeq(vp.pScissors, 1, vp.scissorCount), HashScissor) ELSE <<>>)
         \o (IF "VIEWPORT" \notin dyn THEN Each(SubSeq(vp.pViewports, 1, vp.viewportCount), HashViewportRect) ELSE <<>>)

HashVertexInput(p) ==
    IF p.pVertexInputState = <<>> THEN NullBlock
    ELSE LET vi == p.pVertexInputState[1] IN
         <<U32(vi.flags), U32(Len(vi.attributes)), U32(Len(vi.bindings))>>
         \o Each(vi.attributes, LAMBDA a : <<U32(a.offset), U32(a.binding),
                                            U32(a.format), U32(a.location)>>)
         \o Each(vi.bindings, LAMBDA b : <<U32(b.binding), U32(b.inputRate), U32(b.stride)>>)

Factors(a) == {a.dstAlphaBlendFactor, a.srcAlphaBlendFactor,
               a.dstColorBlendFactor, a.srcColorBlendFactor}

HashBlendAttachment(a) ==
    IF a.blendEnable = 0 THEN <<U32(a.blendEnable), U32(0)>>
    ELSE <<U32(a.blendEnable), U32(a.colorWriteMask), U32(a.alphaBlendOp), U32(a.colorBlendOp),
           U32(a.dstAlphaBlendFactor), U32(a.srcAlphaBlendFactor),
           U32(a.dstColorBlendFactor), U32(a.srcColorBlendFactor)>>

\* need_blend_constants: an enabled attachment uses CONSTANT_COLOR or CONSTANT_ALPHA.
NeedBlendConstants(b) ==
    \E i \in DOMAIN b.pAttachments :
        b.pAttachments[i].blendEnable = 1 /\ Factors(b.pAttachments[i]) \cap ConstantFactors # {}

HashColorBlend(p, dyn) ==
    IF p.pColorBlendState = <<>> THEN NullBlock
    ELSE LET b == p.pColorBlendState[1] IN
         <<U32(b.flags), U32(Len(b.pAttachments)), U32(b.logicOpEnable), U32(b.logicOp)>>
         \o Each(b.pAttachments, HashBlendAttachment)
         \o (IF NeedBlendConstants(b) /\ "BLEND_CONSTANTS" \notin dyn
             THEN Each(b.blendConstants, F32) ELSE <<>>)

HashTessellation(p) ==
    IF p.pTessellationState = <<>> THEN NullBlock
    ELSE <<U32(p.pTessellationState[1].flags), U32(p.pTessellationState[1].patchControlPoints)>>

HashSpecializationInfo(si) ==
    <<Blob(si.pData, si.dataSize), U32(si.dataSize), U32(Len(si.pMapEntries))>>
    \o Each(si.pMapEntries, LAMBDA e : <<U32(e.offset), U32(e.size), U32(e.constantID)>>)

HashSpecialization(st) ==
    IF st.pSpecializationInfo = <<>> THEN NullBlock
    ELSE HashSpecializationInfo(st.pSpecializationInfo[1])

HashStage(st) ==
    <<U32(st.flags), Str(st.pName), U32(st.stage), U64(HashFor["shaderModule"][st.module])>>
    \o HashSpecialization(st)

\* The base pipeline, hashed only when its handle is not null.
HashBasePipeline(p, kind) ==
    <<U64(HashFor[kind][p.basePipelineHandle]), S32(p.basePipelineIndex)>>

compute_hash_graphics_pipeline(p) ==
    LET dyn == DynamicSet(p) IN
    <<U32(p.flags)>>
    \o (IF p.basePipelineHandle # Null THEN HashBasePipeline(p, "graphicsPipeline") ELSE <<>>)
    \o <<U64(HashFor["pipelineLayout"][p.layout]), U64(HashFor["renderPass"][p.renderPass]),
         U32(p.subpass), U32(Len(p.pStages))>>
    \o HashDynamicState(p)
    \o HashDepthStencil(p, dyn)
    \o HashInputAssembly(p)
    \o HashRasterization(p, dyn)
    \o HashMultisample(p)
    \o HashViewport(p, dyn)
    \o HashVertexInput(p)
    \o HashColorBlend(p, dyn)
    \o HashTessellation(p)
    \o Each(p.pStages, HashStage)

compute_hash_compute_pipeline(p) ==
    <<U64(HashFor["pipelineLayout"][p.layout]), U32(p.flags)>>
    \o (IF p.basePipelineHandle # Null THEN HashBasePipeline(p, "computePipeline") ELSE NullBlock)
    \o <<U64(HashFor["shaderModule"][p.stage.module]), Str(p.stage.pName),
         U32(p.stage.flags), U32(p.stage.stage)>>
    \o HashSpecialization(p.stage)

-----------------------------------------------------------------------------
SamplerTypes == {"SAMPLER", "COMBINED_IMAGE_SAMPLER"}

\* Immutable samplers count only for the two sampler descriptor types.
HashImmutableSamplers(b) ==
    IF b.pImmutableSamplers # <<>> /\ b.descriptorType \in SamplerTypes
    THEN [j \in 1 .. b.descriptorCount |-> U64(HashFor["sampler"][b.pImmutableSamplers[1][j]])]
    ELSE <<>>

HashBinding(b) ==
    <<U32(b.binding), U32(b.descriptorCount), U32(b.descriptorType), U32(b.stageFlags)>>
    \o HashImmutableSamplers(b)

compute_hash_descriptor_set_layout(l) ==
    <<U32(Len(l.pBindings)), U32(l.flags)>> \o Each(l.pBindings, HashBinding)

HashSetLayoutRef(s) ==
    IF s # Null THEN <<U64(HashFor["descriptorSetLayout"][s])>> ELSE NullBlock

compute_hash_pipeline_layout(l) ==
    <<U32(Len(l.pSetLayouts))>> \o Each(l.pSetLayouts, HashSetLayoutRef)
    \o <<U32(Len(l.pPushConstantRanges))>>
    \o Each(l.pPushConstantRanges, LAMBDA r : <<U32(r.stageFlags), U32(r.size), U32(r.offset)>>)
    \o <<U32(l.flags)>>

compute_hash_shader_module(m) == <<Blob(m.pCode, m.codeSize), U32(m.flags)>>

\* A VkAttachmentReference.
HashRef(r) == <<U32(r.attachment), U32(r.layout)>>

(* hash_subpass: the resolve array, when present, has colorAttachmentCount *)
(* entries and no marker; a null depth-stencil reference is one u32 0.     *)
hash_subpass(sp) ==
    <<U32(sp.flags), U32(Len(sp.pColorAttachments)), U32(Len(sp.pInputAttachments)),
      U32(Len(sp.pPreserveAttachments)), U32(sp.pipelineBindPoint)>>
    \o Each(sp.pPreserveAttachments, U32)
    \o Each(sp.pColorAttachments, HashRef)
    \o Each(sp.pInputAttachments, HashRef)
    \o (IF sp.pResolveAttachments # <<>>
        THEN Each([i \in DOMAIN sp.pColorAttachments |-> sp.pResolveAttachments[1][i]], HashRef)
        ELSE <<>>)
    \o (IF sp.pDepthStencilAttachment # <<>> THEN HashRef(sp.pDepthStencilAttachment[1])
        ELSE NullBlock)

(* An attachment description is the sequence of its nine u32 fields and a  *)
(* dependency of its seven, in the order hash_attachment and               *)
(* hash_dependency feed them.                                              *)
compute_hash_render_pass(rp) ==
    <<U32(Len(rp.pAttachments)), U32(Len(rp.pDependencies)), U32(Len(rp.pSubpasses))>>
    \o Each(rp.pAttachments, LAMBDA a : Each(a, U32))
    \o Each(rp.pDependencies, LAMBDA d : Each(d, U32))
    \o Each(rp.pSubpasses, hash_subpass)

=============================================================================
