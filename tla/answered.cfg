CONSTANTS
  k1 = k1  k2 = k2  r1 = r1  f1 = f1  m1 = m1  m2 = m2
  Assets <- MCAssets
  Services <- MCServices
  Protocols <- MCProtocols
  Ports = {r1}
  Credentials = {k1}
  Infos = {f1}
  NoMapping = NoMapping
  MappingCrashes = TRUE
  MappingWritesFail = TRUE
  MappingUsers = {m1, m2}
  Nobody = Nobody
  Blank = Blank
  UserCalls <- MCFewCalls
  MailboxSize = 3
SPECIFICATION ClientsFairSpec
PROPERTY CallsAreAnswered
