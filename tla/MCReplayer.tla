------------------------------ MODULE MCReplayer ------------------------------
(* Documents with every subset of the parser's keys present, up to two     *)
(* samplers and two set layouts, and references that are null, resolve or *)
(* dangle by one.                                                          *)
EXTENDS Replayer

MCRefs == {<<>>, <<0>>, <<1>>, <<2>>}

MCOptions(k) ==
    CASE k = "samplers" -> {<<<<>>>>, <<<<>>, <<>>>>}
      [] k = "descriptorSetLayouts" ->
            {<<>>} \cup {<<r>> : r \in MCRefs} \cup {<<r, q>> : r, q \in MCRefs}
      [] k = "pipelineLayouts" -> {<<r>> : r \in MCRefs}
      [] OTHER -> {<<<<>>>>}

MCDocs ==
    UNION {{d \in [K -> UNION {MCOptions(k) : k \in K}] : \A k \in K : d[k] \in MCOptions(k)}
             : K \in SUBSET ParseKinds}

==============================================================================
