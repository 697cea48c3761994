SPECIFICATION FairSpec
CONSTANTS
  Proc = {p1, p2}
  NUM = 7
  UINT16 = 14
  NULL = NULL
PROPERTIES
  RequestFinishes
