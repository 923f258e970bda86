CONSTANTS
  x = x
  y = y
  long1 = long1
  long2 = long2
  n3 = n3
  n7 = n7
  n300 = n300
  minus1 = minus1
  wide = wide
  hi = hi
  open = open
  EMPTY = EMPTY
  JUNK = JUNK
  NaN = NaN
  None = None
  NULL = NULL
  Tokens <- MCTokens
  number <- MCnumber
  text <- MCtext
  cut <- MCcut
  MAX_SYMBOLS = 2
  MAX_FIXUPS = 2
  FIRST_CAP = 4
  MEMORY = 32
  Sources <- Commented
SPECIFICATION Spec
INVARIANT CommentsAreIgnored
CHECK_DEADLOCK FALSE
