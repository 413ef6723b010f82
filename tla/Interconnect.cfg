CONSTANTS
  Sources <- MCSources
  Kinds = {"arbiter", "crossbar", "router"}
  PortCounts = {0, 3}
  UpOut = 1
  UpIn = 1
  DownOut = 1
  DownIn = 1
  AddrLimit = 16
  start_addr = 4
  end_addr = 12
  Uninitialised = {1, 14}
  num_requests = 1
  DMA = 8
  MMIO = 12
  MaxPackets <- MCMaxPackets
SPECIFICATION FairSpec
INVARIANTS SourceOrder NothingLost AddressRecovers
PROPERTY NoBlocking
CHECK_DEADLOCK FALSE
