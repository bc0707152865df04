SPECIFICATION FairSpec
CONSTANTS
  Zero = "0000"
  Hex = "hex"
  None = none
  Two <- MCTwo
  Six <- MCSix
  Rest <- MCRest
  Prefix <- MCPrefix
  Node <- MCNode
  Host <- MCHost
  MaxOut = 3
  MaxIn = 3
INVARIANTS TypeOK RadioOnlyAsRoot RootOnHostsPrefix NoBounce FramesIntact
PROPERTIES MeshPacketsPass RadioComesUp
