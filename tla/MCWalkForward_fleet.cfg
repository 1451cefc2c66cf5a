\* Two processes, one after the other, each with any of the command lines,
\* over four markets of which two close together; two tapes in flight.
CONSTANTS
  NumMarkets = 4
  Close <- Closes
  Options <- CommandLines
  Mirrors <- Beginnings
  Fetches = 2
  MaxProcesses = 2
SPECIFICATION FairSpec
INVARIANTS TypeOK NoPeeking ResultsAccounted TapesAreWhole PrepKeepsItsWord
PROPERTIES EvaluationSpec RunsEnd
