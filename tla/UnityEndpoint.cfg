\* Two connections that may be up together, two calls, one request of Unity.
CONSTANTS
  Conns = {1, 2}
  Calls = {1, 2}
  Requests = {r1}
  Topics = {"svc"}
  Service = "svc"
  Pool = 1
  FirstId = 1001
  MaxSent = 1
  MaxUnread = 2
  None = None

SPECIFICATION FairSpec

INVARIANTS RegistryInv WaitsUnderItsId QueueIsServed ExactOnOneConnection
PROPERTIES LostIsReleased CallsAsPromised

CHECK_DEADLOCK FALSE
