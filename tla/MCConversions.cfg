CONSTANTS
  CharBits = 3
  ByteBits = 4
  SIZE_MAX <- MCSizeMax
  Source <- MCSource
  DestSize <- MCDestSize
  Text <- MCText
  BlobSize = {0, 2, 4}
  UnsignedBits = 7
  Buffer <- MCBuffer
  EncodedPoint <- MCEncodedPoint
  Room = {1, 2, 3, 4, 5}
  ByteString <- MCByteString
  ClassText <- MCClassText
  CodepointText <- MCCodepointText
  OutputRoom <- MCOutputRoom
  Hostname <- MCHostname
  UrlString <- MCUrlString
  UrlEncoder <- MCUrlEncoder
  UrlEncoding <- MCUrlEncoding
  CharString <- MCCharString
  Delimiter <- MCDelimiter
  MaxSplit <- MCMaxSplit
  StringList <- MCStringList
  Numeral <- MCNumeral
  DecimalNumber <- MCDecimalNumber
  Whitespace <- MCWhitespace
  CombiningClass <- MCCombiningClass
  Decomposition <- MCDecomposition
  PrimaryComposite <- MCPrimaryComposite
  Disallowed <- MCDisallowed
  Maybe <- MCMaybe
  MaxCcs = 2
  Status <- MCStatus
  Mapping <- MCMapping
  SpacingMarks = {2494}
  MAX_DNS_NAME_LENGTH = 18
  MAX_DNS_LABEL_LENGTH = 11
  Modulus <- MCModulus
  ExponentModulus <- MCExponentModulus
  MANTISSA_BITS = 6
  EXPONENT_BITS = 5
  LeastExponent <- MCLeastExponent
  GreatestExponent = 4
  IntegerBits = 8
SPECIFICATION Spec
CHECK_DEADLOCK FALSE
INVARIANTS
  RoundTrip
  Encodes
  Decodes
  Utf8Decodes
  Utf8Sanitizes
  GraphemeBoundaries
  Decomposes
  Composes
  QuickChecksRight
  IdnaEncodes
  UrlRoundTrip
  SplitsAndJoins
  ParsesDecimal
  ShortestDecimal
  FormatsDecimal
  CastsIntegers
