SPECIFICATION FairSpec
CONSTANTS
  Users <- MCUsers
  Talks <- MCTalks
  Bodies = {x}
  PollSlots <- MCPollSlots
  SendSlots <- MCSendSlots
  Cap = 3
  PullMax = 2
  MaxLog = 3
  MaxFaults = 1
  MaxCloses = 1
  Nil = Nil
INVARIANTS TypeOK NoLoss OwnMeansDelivered
PROPERTIES Arrives LogImplemented
