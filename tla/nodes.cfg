SPECIFICATION NetSpec
CONSTANTS
  BufferSize = 2
  Bytes = {"SCALE=C", "STOP", "OFF", "PERIOD=-1"}
  StreamLength = 4
  LogOptions = {TRUE}
  HasButton = TRUE
  MaxSamples = 1
  Links = {"stdin", "tcp", "tls"}
INVARIANTS NetTypeOK LogTellsTheTruth OffThenShutdown
PROPERTIES OffIsObeyed ButtonEndsProgram PeerGoneEndsSampling
