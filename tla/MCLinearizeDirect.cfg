CONSTANT Shaders <- DirectShaders
SPECIFICATION Spec
INVARIANT BranchFollowedByTarget
CHECK_DEADLOCK FALSE
