\* ptree: one writer and one reader over a four-task tree; paddr: one reader
\* asking about existing, missing and idle pids, mapped, swapped and
\* unmapped pages.
CONSTANTS
  w1 = w1
  r1 = r1
  t1 = t1
  NoMm = NoMm
  Pids <- MCPids
  Parent <- MCParent
  LineLen <- MCLineLen
  MAXLEN = 6
  Writers = {w1}
  Readers = {r1}
  InPids = {2, 3, 4}
  Lengths = {4, 6}
  Mm <- MCMm
  UpperOk <- MCUpperOk
  PteVal <- MCPteVal
  PhysAddr <- MCPhysAddr
  PAGE_SHIFT = 2
  BYTE = 4
  PMAXLEN = 64
  PReaders = {t1}
  PReqPids = {0, 1, 3, 4, 5}
  PReqVAddrs = {1, 6, 2050, 4095}
  PLengths = {64}
SPECIFICATION Spec
INVARIANTS TypeOK PtreeOutput PaddrCorrect
PROPERTIES WriteTerminates
