CONSTANTS
  Tasks = {t1}
  Workers = {w1}
  Info = Info
  NULL = NULL
SPECIFICATION Spec
INVARIANT PauseIsHeeded
