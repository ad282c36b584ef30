CONSTANTS
  Threads <- Threads2
  ThreadId <- Ids2
  MaxClock = 1
  TxAccVsi <- MCTxAccVsi
  Vlans <- AliasVlans
  SrcPorts <- VsiPorts
  TunnelSrcPorts <- TunnelPorts
  RxTunnels <- BothFamilies
  IpMacMaps <- Maps
SPECIFICATION MCSpec
INVARIANTS
  PortsTypeOK
  PortsStatusTruthful
  PopBacked
  IpMacMapDone
