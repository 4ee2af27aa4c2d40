-------------------------- MODULE MCArchiveRoundTrip --------------------------
(* Registries of at most one entry per kind, with every reference valid:   *)
(* a set layout's immutable sampler and a pipeline layout's set layout are *)
(* null or index + 1 of an entry that exists.                              *)
EXTENDS ArchiveRoundTrip

MCUpTo(n, S) == UNION {[1 .. m -> S] : m \in 0 .. n}

MCRecorded ==
    {r \in [RecorderKinds -> MCUpTo(1, MCUpTo(1, 0 .. 1))] :
        /\ \A k \in {"samplers", "shader_modules", "render_passes",
                     "compute_pipelines", "graphics_pipelines"} :
              \A i \in DOMAIN r[k] : r[k][i] = <<>>
        /\ \A i \in DOMAIN r["descriptor_sets"] :
              \A j \in DOMAIN r["descriptor_sets"][i] : r["descriptor_sets"][i][j] <= Len(r["samplers"])
        /\ \A i \in DOMAIN r["pipeline_layouts"] :
              \A j \in DOMAIN r["pipeline_layouts"][i] : r["pipeline_layouts"][i][j] <= Len(r["descriptor_sets"])}

MCDocsSerialized == {Serialize(r) : r \in MCRecorded}

===============================================================================
