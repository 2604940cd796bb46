SPECIFICATION Spec
CONSTANT Pairs <- MCPairs
INVARIANTS
    FoldIgnoresMapOrder
    RowsAreDistances
    VerdictIsMutual
