CONSTANTS
  i1 = i1  i2 = i2  n1 = n1  n2 = n2  u1 = u1  u2 = u2  t1 = t1  t2 = t2
  p1 = p1  p2 = p2  c1 = c1  c2 = c2  k1 = k1  r1 = r1  f1 = f1
  Ids = {i1}
  Names = {n1}
  Usages = {u1}
  Texts = {t1}
  Pems = {t1}
  Empty = Empty  Absent = Absent  NoDocument = NoDocument
  Portfolios = {p1}
  Clients = {c1}
  NoAccess = NoAccess  NoPortfolio = NoPortfolio
  Submissions <- MCOneDocument
  ConfigurationFiles <- MCTwoFiles
  Passphrases = {"long enough"}
  ShortPassphrases = {}
  PlatformMatches = {TRUE}
  Crashes = TRUE
  WritesFail = TRUE
  Assets <- MCAssets
  Services <- MCServices
  Protocols <- MCProtocols
  Ports = {r1}
  Credentials = {k1}
  Infos = {f1}
  NoMapping = NoMapping
  MappingsSent <- MCMappings
SPECIFICATION AgentFairSpec
PROPERTY OrderlyStopSaves
PROPERTY WritesMemory
PROPERTY LockIsReleased
PROPERTY StopCompletes
PROPERTY AgentServesAgain
