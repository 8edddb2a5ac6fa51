SPECIFICATION FairSpec
CONSTANTS
  Nobody = Nobody
  Writers = {w1, w2}
  Restorers = {w1, w2}
  Remote = {w2}
  Newer = {w1}
  Collectors = {c1}
  Repairers = {}
PROPERTY AcquisitionEnds
\* Every process may be idle or dead for good.
CHECK_DEADLOCK FALSE
