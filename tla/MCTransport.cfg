CONSTANTS
  Loops = {l1, l2}
  Callers = {c1}
  Workers = {w1}
  Mortal = {l1}
  Topics = {t1, t2}
  NoTopic = NoTopic
  Rounds = 2
  Once = {l2}
  Limit = 3
SPECIFICATION Spec
INVARIANTS
  TypeOK
  InStep
  KeptOpen
PROPERTIES
  EveryRoundEnds
  DescriptorsGivenBack
CHECK_DEADLOCK FALSE
