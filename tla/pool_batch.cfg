SPECIFICATION FairSpec
CONSTANTS
  move = move
  receive = receive
  redrive = redrive
  batch = batch
  Calls = {move, receive, redrive, batch}
  Kind <- Kinds
  Statements <- Lengths
  Patient = {move, receive}
  MaxOpen = 1
PROPERTY EveryCallReturns
CHECK_DEADLOCK FALSE
