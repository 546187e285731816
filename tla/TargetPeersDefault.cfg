CONSTANTS
  Unset = Unset
  Networks = {"mainnet", "hoodi", "other"}
  DbTypes = {"clickhouse", "other"}
  Keys = {"valid", "invalid"}
  IPs = {"ipv4", "ipv6", "junk"}
  TargetPeers = {20}
  Estimates = {0, 1}
  Ports = {9000, 74536}
  DatabasePort = 9000
  Uint16 = 65536
  MaxSignals = 2
SPECIFICATION FairSpec
INVARIANT
  TargetPeersDefault
CHECK_DEADLOCK FALSE
