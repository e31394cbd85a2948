\* load_from_file on every small file, well-formed or not.  Bounds: an int of 18
\* bits, an unsigned long of 20 (a short has its 16).
CONSTANTS
  Refused = Refused
  IntMax = 131071
  UIntSize = 262144
  ULongMax = 1048575
  Files <- SmallFiles
SPECIFICATION Spec
INVARIANTS TypeOK LoadedAsWritten SavedIsLoaded
PROPERTIES ReadIsKept
CHECK_DEADLOCK FALSE
