SPECIFICATION Spec
CONSTANTS
  InGrid = {p}
  OutGrid = {q}
  Bytes = {0, 1}
  Wide = {300}
  States = {s1, s2}
  NoState = NoState
INVARIANT TypeOK
PROPERTIES ReadsBack 
CHECK_DEADLOCK FALSE
