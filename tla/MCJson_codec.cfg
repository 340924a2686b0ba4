CONSTANTS
  Texts <- TokenTexts
  KeyOrder <- MCKeyOrder
  MaxTokens = 5
  MaxDepth = 2
  Numbers <- MCNumbers
  MaxLiteral = 64
  MaxExponent = 40
  MaxShrink = 400
  None = None
SPECIFICATION CodecSpec
INVARIANTS NothingLost RealsRoundTrip
CHECK_DEADLOCK FALSE
