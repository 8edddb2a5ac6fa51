SPECIFICATION Spec
CONSTANTS
  Nobody = Nobody
  Gc = gc
  Runs = {r1, r2}
  Keys = {k1}
  Removers = {d1}
  Faulty = FALSE
  Crashing = FALSE
SYMMETRY RunSymmetry
INVARIANT WholeIndex
\* Every process may have come to its end.
CHECK_DEADLOCK FALSE
