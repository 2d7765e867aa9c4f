CONSTANTS
  i1 = i1  i2 = i2  n1 = n1  n2 = n2  u1 = u1  u2 = u2  t1 = t1  t2 = t2
  p1 = p1  p2 = p2  c1 = c1  c2 = c2
  Ids = {i1, i2}
  Names = {n1, n2}
  Usages = {u1, u2}
  Texts = {t1}
  Pems = {t1}
  Empty = Empty  Absent = Absent  NoDocument = NoDocument
  Portfolios = {p1, p2}
  Clients = {c1, c2}
  NoAccess = NoAccess  NoPortfolio = NoPortfolio
  Submissions <- MCThreePasswords
  ConfigurationFiles <- MCFirstOnly
  Passphrases = {"long enough"}
  ShortPassphrases = {}
  PlatformMatches = {TRUE}
  Crashes = TRUE
  WritesFail = FALSE
  Listers = {c1}
SPECIFICATION ListSpec
INVARIANT ListIsComplete
INVARIANT ListThrowsForCause
