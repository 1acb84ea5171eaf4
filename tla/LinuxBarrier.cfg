SPECIFICATION LinuxSpec
CONSTANTS
  SIZE = 2
  P1 = 1
  Release = 500
  NoPid = 99
PROPERTY
  Terminates
CHECK_DEADLOCK FALSE
