SPECIFICATION Spec
CONSTANTS
  None = None
  e1 = e1
  e2 = e2
  t1 = t1
  f1 = f1
  w1 = w1
  w2 = w2
  Evaluators = {e1, e2}
  Targets = {t1}
  Forms = {f1}
  Structures <- MCStructures
  Workers = {w1, w2}
  Access = {"enabled", "incomplete_closed"}
  Takes <- MCTakes
INVARIANT
  CompletedMeans
PROPERTIES
  LockCanBeLifted
  LastSubmitCloses
CHECK_DEADLOCK FALSE
