\* A failure of FastDFS.
SPECIFICATION FairSpec
CONSTANTS
  Names = {n1}
  Count = 1
  MaxUploads = 1
  MaxClicks = 0
  MaxFaults = 1
  MaxStarts = 0
PROPERTIES RemovedWhenStored
CHECK_DEADLOCK FALSE
