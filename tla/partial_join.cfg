SPECIFICATION Spec
CONSTANT Proc <- PartialJoin
INVARIANT SubtreeEndsFirst
CHECK_DEADLOCK FALSE
