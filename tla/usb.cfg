SPECIFICATION FairSpec
CONSTANTS
  Request <- MCRequest
  EP0Size = 2
  MaxSize = 4
  Host = {"early", "giveup", "reset"}
INVARIANTS UsbTypeOK AnswersAreWhole KnownIsServed ConfiguredIsActive
PROPERTIES TransferEnds
