SPECIFICATION FairLimiter
CONSTANTS
  Second = 2
  Rates = {0, 1, 2}
  Http = {h}
  Ftp = {f}
  MaxChunk = 3
PROPERTIES IsTokenBucket SomeoneServed
