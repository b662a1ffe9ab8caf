SPECIFICATION OffSpec
CONSTANTS
  MaxGen = 3
  Socks = {s1, s2, s3}
  NoSock = NoSock
  MaxMail = 1
  MaxDrops = 2
PROPERTY StaleTouchesNothing
CHECK_DEADLOCK FALSE
