\* print_init, vsnprintf and the string functions on small inputs.
SPECIFICATION Spec
CONSTANTS
  Glyphs <- SampleGlyphs
  StringArguments <- SampleStrings
  Numbers <- SampleNumbers
  Modifiers <- SampleModifiers
  OutSize = 40
  Texts <- SampleTexts
  OutLengths <- SampleOutLengths
  Modes <- SampleModes
  Cells = 4
  Character = {0, 1, 200}
INVARIANTS PrintsText LargestMode StringResults
CHECK_DEADLOCK FALSE
