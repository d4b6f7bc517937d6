\* One request, two reloads and whatever becomes of the answer on its way.
SPECIFICATION ReqSpec
CONSTANTS
  Requests = {q1}
  Inputs <- MCInputs
  Specs <- MCSpecs
  Bodies <- MCBodies
  Document <- MCDocument
  DatedIds <- MCDatedIds
  FailClosed = TRUE
  MaxReloads = 2
  MaxFrame = 11
INVARIANTS
  OneEventPerAnswer
  EventPinsTheAdmission
  EventNamesWhatWasPublished
  EventTellsWhatRan
  OutcomeIsDelivery
  ModelSwapIsFlagged
CHECK_DEADLOCK FALSE
