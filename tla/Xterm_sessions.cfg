CONSTANTS
  Kinds = {"pty", "rpty", "ssh"}
  Ids = {"", "a"}
  Legacy = ""
  Opens = 2
  RptyOpens = 1
  SessionMax = 2
  OutputMax = 1
  ChunksMax = 1
  ChannelMax = 1
SPECIFICATION FairSpec
INVARIANTS OutputBeforeClosed LeasesHeld 
 
CHECK_DEADLOCK FALSE
