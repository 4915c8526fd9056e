SPECIFICATION FairSpec
CONSTANTS
  Threads = {t1, t2, t3, t4}
  NoThread = NoThread
  SpuriousWakeup = TRUE
INVARIANTS
  TypeOK
  OneWriter
  CountersExact
  NoLostWakeup
  DirectWriterExcludesReaders
PROPERTIES
  WriterProgress
