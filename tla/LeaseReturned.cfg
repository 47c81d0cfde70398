SPECIFICATION Spec
CONSTANT Operation = {o1}
INVARIANT LeaseReturned
CHECK_DEADLOCK FALSE
