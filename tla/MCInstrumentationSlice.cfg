SPECIFICATION Spec
CONSTANTS
 Programs <- SlicePrograms
INVARIANTS Transparent
CHECK_DEADLOCK FALSE
