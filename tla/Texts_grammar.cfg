\* What a few edits make of values, format strings and patterns.
SPECIFICATION Spec
CONSTANTS
  Inputs <- MCInputs
  Arguments <- MCArguments
  Messages <- MCMessages
  MaxInt = 31
  MaxHistory = 2
INVARIANTS
  
  StringsAreAsWritten
  WrittenIsReadAgain
  FormatAccepts
  WrittenAsSpecified
  PatternIsFollowed
  OnlySetRangesAreOwn
\* A text that has had its edits stays.
CHECK_DEADLOCK FALSE
