\* Two connections of one TlsSocket, every kind of server and configuration.
CONSTANTS
  Configs <- MCConfigs
  Servers <- MCServers
  Faults = {"configure", "resolve", "connect", "hostname", "reset", "sign"}
  MaxConnects = 2
SPECIFICATION FairSpec
INVARIANTS FirstConnectAuthenticates EchoMeansMutual
PROPERTIES ConnectReturns JoinReturns
CHECK_DEADLOCK FALSE
