CONSTANTS
  MAX_PLACES_COUNT = 3
  MaxHits = 3
  MaxFeatures = 4
SPECIFICATION Spec
INVARIANTS
  TypeOK
  RequestsAboutHits
  AnswerComplete
PROPERTIES
  ChoiceAnswered
CHECK_DEADLOCK FALSE
