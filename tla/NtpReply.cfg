CONSTANT MaxTime = 3
SPECIFICATION Spec
INVARIANT ReplyNamesRequest
CHECK_DEADLOCK FALSE
