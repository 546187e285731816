\* As ReqResp.cfg: the form of a response.
CONSTANTS
  Window = 1
  MaxSent = 3
SPECIFICATION FairSpec
INVARIANTS
  TypeOK
  ResponseProper
CHECK_DEADLOCK FALSE
