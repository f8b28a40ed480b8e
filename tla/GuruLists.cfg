SPECIFICATION Spec
CONSTANT Node = {n1, n2, n3, n4}
INVARIANT CalledOnce
 
CHECK_DEADLOCK FALSE
