SPECIFICATION Spec
CONSTANTS
  Nobody = Nobody
  Gc = gc
  Runs = {r1, r2, r3}
  Keys = {k1}
  Removers = {d1}
  Faulty = TRUE
  Crashing = TRUE
SYMMETRY RunSymmetry
CONSTRAINT FewAtOnce
INVARIANTS IndexIsSound RefreshSurvives LookupSucceeds SurvivorsAreWhole
\* Every process may have come to its end.
CHECK_DEADLOCK FALSE
