SPECIFICATION Spec
CONSTANTS
  Folder = Folder
  RemoteInit <- MCRemote
  LocalInit <- MCLocal
  MaxQueue = 2
  MaxCommands = 3
  Patient = TRUE
  Events <- Refusals
CHECK_DEADLOCK FALSE
INVARIANTS TransferInStep
PROPERTIES MovedIsCopied Ended
