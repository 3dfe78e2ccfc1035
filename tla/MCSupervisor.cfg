SPECIFICATION FairSpec
CONSTANTS
  a4 = a4
  a6 = a6
  V4 <- OneV4
  V6 <- OneV6
  Profiles = 2
  NoLink = NoLink
  NoPeer = NoPeer
  BadPeer = BadPeer
  Protos = {"h3", "h2", "wg"}
  Forceds <- AnyForced
  Choices <- AnyFamily
  DataCheck = TRUE
  Required = 2
  MaxEvents = 2
  MaxStarts = 2
INVARIANTS
  FreshlyProven
  LastconnWorked
 
CHECK_DEADLOCK FALSE
