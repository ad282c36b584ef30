CONSTANTS
  Target = "ES2K"
  CharSigned = FALSE
  MaxClock = 1
  Threads <- TwoThreads
  ThreadId <- Ids2
  TxAccVsiParam <- MCTxAccVsi
  Vlans <- MCVlans
  SrcPorts <- VsiPorts
  TunnelSrcPorts <- TunnelPorts
  RxTunnels <- BothFamilies
  IpMacMaps <- Maps
SPECIFICATION MCSpec
INVARIANTS
  HostPortMapped
PROPERTIES
  ImplementsV3Fdb
  ImplementsV3Tunnel
  ImplementsV3Dpdk
  SmallerImplementV3
