\* Up to three rows, two changes: any way two lists can differ.
SPECIFICATION MergeFairSpec
CONSTANTS
  Names <- MCNames
  MaxRows = 3
  MaxRowEdits = 2
INVARIANTS ShowsEnd WholeWhen
PROPERTIES Ends
CHECK_DEADLOCK FALSE
