SPECIFICATION FairSpec
CONSTANTS
  Hello <- Greeting
  Payloads <- Messages
  MaxSent = 3
  MaxGarbage = 1
PROPERTY
  WrongDelimiterRaises
CHECK_DEADLOCK FALSE
