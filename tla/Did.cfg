SPECIFICATION FairSpec
CONSTANTS
  Uris <- MCUris
  Dids = {web, issuer}
  Kind <- MCKind
  Host <- MCHost
  Hostless = Hostless
  Types = {"a", "b"}
  Endpoints <- MCEndpoints
  Docs <- MCDocs
  VCs <- MCVCs
  Configs <- MCConfigs
  Algs = {EdDSA, ES256K}
  Guess = ES256K
  NoProof = NoProof
  ProofList = ProofList
  Nil = Nil
  web = web
  issuer = issuer
  page = page
  tool = tool
  other = other
  h1 = h1
  h2 = h2
  h3 = h3
  EdDSA = EdDSA
  ES256K = ES256K
INVARIANTS TypeOK EndpointsComplete ConfigVerdict VerdictJustified
PROPERTY CallReturns
