SPECIFICATION Spec
CONSTANTS
  Nobody = Nobody
  Gc = gc
  Doctor = doctor
  Checkpoints = {c1, c2, c3}
  Restores = {r1}
  Blobs = {b1, b2}
  Second = b2
  Keeps = {0, 2}
  Faulty = TRUE
  Crashing = TRUE
SYMMETRY Symmetry
CONSTRAINT FewAtOnce
INVARIANTS RetainedIsReadable SweepIsComplete RetentionFloor UndoBeforeMutation
PROPERTY InFlightIsSafe
\* Every process may have come to its end.
CHECK_DEADLOCK FALSE
