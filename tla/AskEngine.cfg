SPECIFICATION ScreenSpec
CONSTANTS
  code = code
  card = card
  secret = secret
  long = long
  blank = blank
  j1 = j1
  j2 = j2
  NoClip = NoClip
  Null = Null
  Contents <- AskTexts
  Texts <- AskTexts
  PreviewOf <- AskPreviewOf
  Truncated = {}
  Blank = {}
  Protected = {}
  HonorsFlag = FALSE
  Jobs = {j1, j2}
  TypeOf <- AskTypeOf
  Academic = {}
  SensitiveTexts = {card}
  MaxSaving = 1
CONSTRAINT KeepsReading
SYMMETRY JobSymmetry
INVARIANTS
  TypeOK
  IndicatorTruthful
  ResultForShownText
  EditInPlace
  FollowUpMatches
  ConfirmedUnlessCrossed
  SavedUnderItsSource
CHECK_DEADLOCK FALSE
