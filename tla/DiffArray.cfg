SPECIFICATION Spec
CONSTANTS Keys <- AllKeys Types <- AllTypes Inputs <- SmallInputs
INVARIANTS BecomesAfter NativeListBecomesAfter FastPathAgrees
CHECK_DEADLOCK FALSE
