CONSTANTS
  CharBits = 3
  ByteBits = 4
  SIZE_MAX <- MCSizeMax
  Source = {}
  DestSize = {}
  Text = {}
  BlobSize = {}
  UnsignedBits = 7
  Buffer = {}
  EncodedPoint = {}
  Room = {1, 2, 3, 4, 5}
  ByteString = {}
  ClassText = {}
  CodepointText = {}
  OutputRoom <- MCOutputRoom
  Hostname = {}
  UrlString = {}
  UrlEncoder = {}
  UrlEncoding = {}
  CharString = {}
  Delimiter <- MCDelimiter
  MaxSplit <- MCMaxSplit
  StringList = {}
  Numeral <- MCNumeral
  DecimalNumber = {}
  Whitespace <- MCWhitespace
  CombiningClass <- MCCombiningClass
  Decomposition <- MCDecomposition
  PrimaryComposite <- MCPrimaryComposite
  Disallowed <- MCDisallowed
  Maybe <- MCMaybe
  MaxCcs = 2
  Status <- MCStatus
  Mapping <- MCMapping
  SpacingMarks = {2494}
  MAX_DNS_NAME_LENGTH = 18
  MAX_DNS_LABEL_LENGTH = 11
  Modulus <- MCModulus
  ExponentModulus <- MCExponentModulus
  MANTISSA_BITS = 6
  EXPONENT_BITS = 5
  LeastExponent <- MCLeastExponent
  GreatestExponent = 4
  IntegerBits = 8
SPECIFICATION Spec
CHECK_DEADLOCK FALSE
INVARIANT ReadsFractions
