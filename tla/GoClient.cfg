SPECIFICATION FairSpec
CONSTANTS
  Callers <- MCCallers
  Goroutines = {g1, g2}
  Contexts <- MCContexts
  Configurations <- MCConfigurations
  Strings = {s1, s2}
  Lists = {l1}
  Contents = {v1, v2}
  Documents <- MCDocuments
  Shared = Shared
  MaxEdits = 1
  main = main
  Mistyped = Mistyped
  Uris <- MCUris
  Texts <- MCTexts
  Piece <- MCPiece
  Files <- MCFiles
  Arguments <- MCArguments
  MaxArguments = 3
  Answers <- MCAnswers
  Default <- MCDefault
  TestServer = TestServer
  https = https
  Schemes = {http, https}
  Blank = Blank
  NoValue = NoValue
  Malformed = Malformed
  JsonNull = JsonNull
  Xml = Xml
  resolve = resolve
  validate = validate
  other = other
  Nil = Nil
  http = http
  localhost = localhost
  tcr = tcr
  g1 = g1
  g2 = g2
  s1 = s1
  s2 = s2
  l1 = l1
  v1 = v1
  v2 = v2
  decoded = decoded
  rejected = rejected
INVARIANTS TypeOK LastSettingWins RequestComplete  CrashExplained ErrorCarriesModel
  SentWhereChosen SentAsBuilt NoTraceOfRejected
PROPERTIES ProgramEnds CancelledCallsReturn
