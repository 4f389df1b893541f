SPECIFICATION Spec
CONSTANTS
  Capacity = 4096
  IpHeader = 20
  PacketSizes = {20, 1501, 4000}
  Hosts = {30}
  Agents = {157}
  Mimes <- MCMimes
  Servers = {7}
  Ages = {5}
  Garbage <- AnyGarbage
  MaxPackets = 3
INVARIANTS
  TypeOK
  HeadFits
  RoundTrip
  PrefixReading
CHECK_DEADLOCK FALSE
