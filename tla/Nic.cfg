SPECIFICATION NetSpec
CONSTANTS
  RING = 32
  ALLOC = 48
  MAXFRAME = 8
  Lengths = {8, 9, 12, 13}
  TXDESC = 2
  MINLEN = 2
  TxLengths = {1, 3, 5}
  MAXTX = 4
  RXFRAMES = 6
  TXFRAMES = 3
  Addrs = {1, 2}
  MASKBITS = 2
  Masks <- MCMasks
  WAIT = 2
  MAXLEASES = 2
  Digits <- MCDigits
  Bodies <- MCBodies
  MAXCHUNK = 4
  Chars = {"x", "y", " ", "nl", "tab"}
  PageTags <- MCTags
  Urls = {"u", "v"}
  MAXLINKS = 2
  MINCOLS = 3
  Widths = {1, 4}
  BULLET <- MCBullet
  RULE <- MCRule
  TAB <- MCTab
  MAXTOKENS = 5
CHECK_DEADLOCK FALSE
INVARIANTS RingInStep FramesExact ChunksJoined PageShown
PROPERTIES DhcpReportsTruth
