SPECIFICATION Spec
CONSTANTS
  n1 = n1
  n2 = n2
  c0 = c0
  c1 = c1
  h0 = h0
  h1 = h1
  k0 = k0
  k1 = k1
  Node = {n1}
  Device = {n1}
  Gw = Gw
  Cli = Cli
  NoAddr = NoAddr
  Challenge = {c0, c1}
  ZeroChallenge = c0
  Digest = {h0, h1}
  Hash <- MCHash
  Key = {k0, k1}
  ZeroKey = k0
  KeyBegin = KeyBegin
  Zero = Zero
  NoCrc = NoCrc
  MaxCount = 2
  Faults = {"late"}
  QueueCap = 2
  CliTargets = {n1}
PROPERTY CliReportsRelay
