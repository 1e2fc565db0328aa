CONSTANT Shapes <- MCAligned
SPECIFICATION Spec
CHECK_DEADLOCK FALSE
INVARIANTS HeadsServed ColumnsOnce LogitsInPlace
