SPECIFICATION Spec
INVARIANT GateMeansExitZero
