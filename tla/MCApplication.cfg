CONSTANTS
  Sessions = {s1}
  Logins = {l1}
  Servers = {v1}
  MaxPosted = 1
  Patient = TRUE
  DnsServers <- Addresses
  OwnServers <- UserServers
  DnsLines = 2
  DnsReadable = TRUE
SPECIFICATION AppFairSpec
INVARIANTS
  AppTypeOK
  RouteOrNoGateway
  InterruptRestoresRoute
  TunnelClosed
  HostRoutesRemoved
  OwnServersKept
PROPERTIES
  StopEndsRunning
  ProcessUsesService
CHECK_DEADLOCK FALSE
