SPECIFICATION Spec
INVARIANT FinalIsDetached
INVARIANT ErrorHasACause
PROPERTY CancellationSurfaces
PROPERTY BudgetEndsTheCall
PROPERTY ContractHolds
