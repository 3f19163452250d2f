\* A second Connect on a TlsSocket that has completed a handshake.
CONSTANTS
  Configs <- MCConfigs
  Servers <- MCServers
  Faults = {}
  MaxConnects = 2
SPECIFICATION Spec
INVARIANT ConnectAuthenticates
CHECK_DEADLOCK FALSE
