SPECIFICATION Spec
CONSTANTS
  Mac <- MCMac
  DeviceList <- MCDeviceList
  Rand <- MCRand
  RawKey <- MCRawKey
  Counter <- MCCounter
  Report <- MCReport
INVARIANTS OpensIsExact JoinOpens FrameArrives ReportArrives ReplyMatches SenderFound ReachesNode
