\* strcmp, memcmp and strcat_s in one call each, all three other than C's.
SPECIFICATION Spec
CONSTANTS
  Glyphs <- SampleGlyphs
  StringArguments <- SampleStrings
  Numbers <- SampleNumbers
  Modifiers <- SampleModifiers
  OutSize = 40
  Texts <- SampleTexts
  OutLengths <- SampleOutLengths
  Modes <- SampleModes
  Cells = 4
  Character = {0, 1, 200}
INVARIANT OneStringFunctionIsC
CHECK_DEADLOCK FALSE
