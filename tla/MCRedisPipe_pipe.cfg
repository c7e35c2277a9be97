SPECIFICATION FairSpec
CONSTANTS
  Master = master
  Slave = slave
  MaxStep = 3
INVARIANTS RepliesMatch OwnedOnce NeverSilent
PROPERTIES KeepsOrder StepsEnd
