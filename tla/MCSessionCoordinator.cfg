SPECIFICATION FairSpec
CONSTANTS
  Client = {c1, c2, c3}
  Session = {s1, s2}
  Entry = {e1, e2, e3}
  NoEntry = NoEntry
  NoSession = NoSession
  NoClient = NoClient
INVARIANTS
  TypeOK
  LeaseExclusive
  ReferencesExact
  RejectNeverWaits
PROPERTIES
  NoBarging
  EveryWaiterServed
  ImplementsLease
