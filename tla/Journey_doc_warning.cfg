\* One trip on a day with one flood, reported twice; nothing fails.
SPECIFICATION Spec
CONSTANTS
  Setups <- OneSetup
  Outside <- OneFlood
  Created = {0}
  LlmEnabled = {TRUE}
  Texts <- TwoTexts
  Waits = {1}
  Directories <- OneDirectory
  Faults <- NoFault
INVARIANTS WarningIsHeeded
