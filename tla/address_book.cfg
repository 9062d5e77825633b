CONSTANTS
  Samples = {"04", "05", "06", "07", "08", "09"}
  Adders = {a1, a2}
  Listers = {l1}
  Typed <- TypedPeople
  NoFile = NoFile
  MaxSamples = 1
  MaxDeaths = 1
SPECIFICATION Spec
CHECK_DEADLOCK FALSE
INVARIANTS
  AddedPeopleKept
  UnreadableOnlyByText
  ReadersSeeTheBook
  MergeIsConcatenation
