SPECIFICATION FairSpec
CONSTANTS
  Commands = {c1}
  NoCommand = NoCommand
  MaxFaults = 3
INVARIANTS
  
  AcceptedWasExecuted
PROPERTIES
  AnswerIsKept
  CommandIsAnswered
CHECK_DEADLOCK FALSE
