SPECIFICATION MsgSpec
CONSTANTS
  Users = {1, 2}
  NoProc = 0
  Texts = {m}
  MSG_SP = 2
  Doomed = {}
INVARIANT
  RecvReturnsMessage
CHECK_DEADLOCK FALSE
