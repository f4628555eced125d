CONSTANTS
  name_a = name_a
  name_b = name_b
  label_x = label_x
  label_y = label_y
  Backslash = Backslash
  Quote = Quote
  Newline = Newline
  LetterN = LetterN
  Comma = Comma
  Invalid = Invalid
  Replacement = Replacement
  Help = Help
  Type = Type
  Open = Open
  Close = Close
  Equals = Equals
  le = le
  PlusInf = PlusInf
  MinusInf = MinusInf
  Nan = Nan
  Unset = Unset
  Nothing = Nothing
  Base = 3
  Leading = 3
  VarintBase = 4
  Collections <- MCCollections
  Serialize <- MCSerialize
SPECIFICATION RenderSpec
INVARIANTS
  TextReadsBack
  FramesReadBack
  ThrowsIffMalformed
  BucketsStayOrdered
CHECK_DEADLOCK FALSE
