CONSTANTS
  k1 = k1  k2 = k2  r1 = r1  f1 = f1  m1 = m1  m2 = m2
  Assets <- MCSplitAssets
  Services <- MCSplitServices
  Protocols <- MCOneProtocol
  Ports = {r1}
  Credentials = {k1}
  Infos = {f1}
  NoMapping = NoMapping
  MappingCrashes = FALSE
  MappingWritesFail = FALSE
  MappingUsers = {m1, m2}
  Nobody = Nobody
  Blank = Blank
  UserCalls <- MCSplitCalls
  MailboxSize = 1
SPECIFICATION ClientsSpec
INVARIANT RefusedExists
