SPECIFICATION FairSpec
CONSTANTS
  t1 = t1
  t2 = t2
  TaskIds = {t1, t2}
  Null = Null
  Kinds <- MCKinds
  Callers <- MCCallers
  Strs <- MCStrs
  SlowKinds = {"mp3"}
  FailKinds = {"notes"}
  MaxLen = 1
  MaxBuf = 1
INVARIANTS TypeOK NoAbort BufferExclusive ChannelOffWhenFree Mp3FlagHonest
PROPERTIES ImplementsChannel CallReturns MutexReleased
