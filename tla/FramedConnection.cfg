\* Up to four messages, of one or two bytes.
SPECIFICATION FairSpec
CONSTANTS
  short = short
  long = long
  Messages <- MCMessages
  Size <- MCSize
  MaxSent = 4
INVARIANT TypeOK
INVARIANT OneWrite
PROPERTY ImplementsFifoChannel
PROPERTY EveryMessageArrives
PROPERTY MuteOnlyAfterFailure
\* A connection with nothing to send rests.
CHECK_DEADLOCK FALSE
