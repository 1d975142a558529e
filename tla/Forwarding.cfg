SPECIFICATION FairSpec
CONSTANTS
  Networks = {n1, n2}
  Cidrs = {c1}
  Links = {l1, l2}
  Dispatchers = {d1}
  Off = Off
  Bare = Bare
  NoLink = NoLink
  Nobody = Nobody
  MaxChanges = 4
  MaxFaults = 2
INVARIANT TypeOK
INVARIANT SuccessIsExact
INVARIANT InsertedOnce
PROPERTY Converges
