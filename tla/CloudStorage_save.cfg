\* Uploads, pages and clicks with failing commands and a restart.
SPECIFICATION FairSpec
CONSTANTS
  Names = {n1}
  Count = 2
  MaxUploads = 2
  MaxClicks = 1
  MaxFaults = 2
  MaxStarts = 1
INVARIANTS ListedComplete NewestFirst ClicksKept
PROPERTIES Arrives
CHECK_DEADLOCK FALSE
