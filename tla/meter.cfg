SPECIFICATION FairSpec
CONSTANTS
  Sample <- MCSample
  NoiseByte = {0, 161}
  Disturbances = {"no_answer", "lost_byte", "noise"}
  MaxGlitches = 2
INVARIANT MeterTypeOK
PROPERTIES ReportsWhatWasMeasured ReportsResume
