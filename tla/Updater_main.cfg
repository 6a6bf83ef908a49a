CONSTANTS
  Threads = {"t1", "t2"}
  Versions <- AllVersions
  VERSION <- Running03
  MaxCommands = 3
  MaxRounds = 1
  MaxSpawnFailures = 1
SPECIFICATION FairSpec
INVARIANT TypeOK
INVARIANT OneWorker
INVARIANT OnlyVerifiedRuns
INVARIANT StageSettles
PROPERTY OneInstaller
PROPERTY ButtonComesBack
CHECK_DEADLOCK FALSE
