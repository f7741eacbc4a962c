\* Four trips, seventeen states of the outside world, every fault.
SPECIFICATION Spec
CONSTANTS
  Setups <- AllSetups
  Outside <- Outsides
  Created = {0, 1}
  LlmEnabled = {TRUE, FALSE}
  Texts <- TwoTexts
  Waits = {1, 12}
  Directories <- OneDirectory
  Faults <- AllFaults
INVARIANTS TypeOK NeverOnClosedRoute OfficialAlertNeverNormal UnknownWeatherIsNeverLow
  FailuresAreVisible ExplanationIsLocked StoredOnce StagesAgree
