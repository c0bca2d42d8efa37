SPECIFICATION FairSpec
CONSTANTS
  Domains = {d1, d2}
  Netstat = Netstat
  IPs = {listed, other, private}
  Routable = {listed, other}
  C2IPs = {listed}
  NoIP = NoIP
  Resolve = TRUE
  Collecting = Collecting
  Sent = Sent
  MaxRows = 2
INVARIANTS EverySourceIsAccounted PeersAreCompared
PROPERTY CheckEnds
CHECK_DEADLOCK FALSE
