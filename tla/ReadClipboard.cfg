SPECIFICATION ScreenFairSpec
CONSTANTS
  code = code
  card = card
  secret = secret
  long = long
  blank = blank
  j1 = j1
  j2 = j2
  NoClip = NoClip
  Null = Null
  Contents <- ReadContents
  Texts <- ReadTexts
  PreviewOf <- ReadPreviewOf
  Truncated = {long, card}
  Blank = {blank}
  Protected = {secret}
  HonorsFlag = TRUE
  Jobs = {j1}
  TypeOf <- ReadTypeOf
  Academic = {}
  SensitiveTexts = {}
  MaxSaving = 0
INVARIANTS
  NoProtectedText
  DisplayFresh
  DerivedFieldsMatch
PROPERTIES
  ReadsOnlyWhenAllowed
  IndicatorEnds
  DisplayCatchesUp
CHECK_DEADLOCK FALSE
