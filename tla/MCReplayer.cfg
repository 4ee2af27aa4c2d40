\* StateReplayer::parse with an asynchronous engine, over all small documents.
SPECIFICATION Spec
CONSTANTS
    Docs <- MCDocs
INVARIANT TypeOK
INVARIANT RefsResolvedAtEnqueue
PROPERTY ImplementsReplayOrder
\* parse returns and the engine drains its queue: nothing is left to do.
CHECK_DEADLOCK FALSE
