CONSTANTS
  Writers = {w1, w2}
  Readers = {r1}
  Overlaps = {FALSE, TRUE}
  MaxNode = 3
  NoKey = NoKey
SPECIFICATION Spec
CHECK_DEADLOCK FALSE
SYMMETRY Symmetry
CONSTRAINT NoReaderInRaces
INVARIANTS
  LastWriteStands
  AnswerOfOnePair
  RaceConverges
