SPECIFICATION Spec
CONSTANTS
  Threads = {t1, t2}
  NoThread = NoThread
  SpuriousWakeup = FALSE
INVARIANTS WriterExcludesReaders
