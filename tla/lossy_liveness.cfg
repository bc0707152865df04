SPECIFICATION LossySpec
CONSTANTS
  n1 = n1
  n2 = n2
  c0 = c0
  h0 = h0
  k0 = k0
  Node = {n1, n2}
  Device = {n1, n2}
  Gw = Gw
  Cli = Cli
  NoAddr = NoAddr
  Challenge = {c0}
  ZeroChallenge = c0
  Digest = {h0}
  Hash <- MCHash
  Key = {k0}
  ZeroKey = k0
  KeyBegin = KeyBegin
  Zero = Zero
  NoCrc = NoCrc
  MaxCount = 2
  Faults = {"loss"}
  QueueCap = 2
  CliTargets = {n1}
PROPERTIES JoinCompletes RelayCommandAnswered
