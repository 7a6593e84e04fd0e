CONSTANTS
  Priorities = {1, 255}
  Majors = {1, 2}
  MaxOffers = 3
  Registered = TRUE
SPECIFICATION Spec
INVARIANTS TypeOK SelectionIsBest AnswerIsPinned SelectedWasEnabled
