\* The files that nx and the README write.
CONSTANT Sources <- MCDocumented
SPECIFICATION FairSpec
PROPERTY DocumentedParses
CHECK_DEADLOCK FALSE
