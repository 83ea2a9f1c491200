CONSTANTS
  c1 = c1  c2 = c2  Nobody = Nobody  NoLease = NoLease
  Clients <- MCClients
  ArpClients <- MCArpClients
  Ips <- MCIps
  Lease = 23
  DiscoverRetries = 2
  TryAgain = 2
  OfferTime = 4
  ConflictTime = 3
  DeclineTime = 3
  MaxEvents = 2
SPECIFICATION FairSpec
INVARIANTS TypeOK HeldIsLeased
PROPERTIES ReservedStays GetsAddress
CHECK_DEADLOCK FALSE
