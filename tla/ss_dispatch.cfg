SPECIFICATION FairSpec
CONSTANTS
  Msgs = {m1, m2}
  Devices <- MCDevices
  Rounds <- MCRounds
  Accounts <- MCAccounts
  MaxLoads = 2
  MaxFaults = 2
INVARIANTS TypeOK OncePerLoad NotBeforeTime UnsentStaysDraft OutboxIsTransient
PROPERTY ScheduledGoesOut
