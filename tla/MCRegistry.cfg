\* Recording with handle reuse: 2 handle values, up to 4 objects, reference
\* arrays of length 1, set layouts of one binding.
CONSTANTS
    x1 = x1
    x2 = x2
    Handles <- MCHandles
    Null = Null
    MaxCreates = 4
    MaxRefs = 1
    MaxBindings = 1
SYMMETRY HandleSymmetry
SPECIFICATION Spec
\* Recording stops after MaxCreates objects or a crash of the recorder.
CHECK_DEADLOCK FALSE
INVARIANT TypeOK
PROPERTY ImplementsHashRegistry
INVARIANT SetLayoutRefsResolve
INVARIANT PipelineRefsResolve
