SPECIFICATION MCSpec
CONSTANTS
  Base = 16
  Requests = {1, 2, 3, 4}
  MaxConcurrent = 2
  MaxRedirects = 1
  MaxLost = 1
  Urls = {"stream", "segment"}
  Headers = {"credentials", "others"}
  Callers = {1, 2, 3}
  MaxServers = 2
  None = None
  NoFile = NoFile
  Keys <- MCKeys
  Values <- MCValues
  Prefixed <- MCPrefixed
  Encode <- MCEncode
  Decode <- MCDecode
  Faults = {"close"}
INVARIANTS
  NeverTorn
