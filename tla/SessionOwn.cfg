CONSTANTS
  m1 = m1
  m2 = m2
  m3 = m3
  pcA = pcA
  pcB = pcB
  k1 = k1
  k2 = k2
  MRs = {m1, m2}
  Configs = {pcA, pcB}
  ConfigOf <- OneConfigEach
  Creds = {k1, k2}
  BadCreds = {}
  BadEndpoints = {}
  Forms = {"jwt"}
  Lifetimes = {0, 2}
  Margin = 1
  MaxTime = 3
  Empty = Empty
  Unread = Unread
  NoOne = NoOne
SPECIFICATION Spec
INVARIANT OwnCredentials
