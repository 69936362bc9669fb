SPECIFICATION FairSpec
CONSTANTS
  Hello <- Greeting
  Payloads <- Messages
  MaxSent = 3
  MaxGarbage = 1
INVARIANTS
  MessagesIntact
  NothingHeldBack
PROPERTIES
  ParseReturns
CHECK_DEADLOCK FALSE
