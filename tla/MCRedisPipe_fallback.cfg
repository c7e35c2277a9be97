SPECIFICATION Spec
CONSTANTS
  Master = master
  Slave = slave
  MaxStep = 2
INVARIANTS ReadsAnswered
