CONSTANTS
    Inputs <- MCInputs
    Backends <- MCBackends
    Reads = {"T", "u"}
    Outputs <- MCOutputs
    Batches <- MCBatches
SPECIFICATION Spec
INVARIANTS ReadsOwn RowsAreOwnOrBlank RoutedByPlace PatchIsAState
