SPECIFICATION PartSpec
CONSTANT MaxByte = 12
CHECK_DEADLOCK FALSE
 
 
 
INVARIANT FileWired
PROPERTY ComesToAnEnd
