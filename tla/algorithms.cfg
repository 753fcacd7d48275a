\* Every input of small domains: addresses of three bits, values of three bytes
\* of three bits (nine bits) as five digits of two bits (ten bits, so that the
\* first digit of a value is 0 or 1, as it is with 52 digits for 256 bits).
SPECIFICATION Spec
CONSTANTS
  Width = 3
  ValidHostnames = {1, 2, 3}
  MaxNodes = 3
  MinMtu = 576
  MaxHostLength = 253
  MaxRenderedLines = 20
  DefaultKeepalive = 25
  Bytes = 3
  ByteBase = 8
  Digits = 5
  Radix = 4
  Alphabet <- MCAlphabet
  Letters = {"a", "b"}
  MaxTokens = 13
  MaxDepth = 3
INVARIANTS RoutesLeadHome PreflightProtects IdsRoundTrip IdsCanonical DuplicatesFound
\* An input other than a document takes no step.
CHECK_DEADLOCK FALSE
