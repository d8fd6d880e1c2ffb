SPECIFICATION Spec
CONSTANTS
  Users <- MCUsers
  Talks <- MCTalks
  Bodies = {x}
  PollSlots <- MCPollSlots
  SendSlots <- MCSendSlots
  Cap = 3
  PullMax = 2
  MaxLog = 2
  MaxFaults = 0
  MaxCloses = 1
  Nil = Nil
INVARIANT HistoryShown
