\* Two clients and a stranger who share a bucket, a burst of one request.
SPECIFICATION RemoteLiveSpec
CONSTANTS
  Tenants = {"default", ""}
  Burst = 1
  Refill = 40
  MaxOwed = 80
  Clients <- MCClients
  Config <- MCConfig
  ServerToken = "secret"
  NoToken = ""
  Seed = {}
  Probers = {"c3"}
INVARIANTS
  WindowBound
  OnlyAuthorisedEvaluated
  AllowIsServers
PROPERTIES
  LimiterSpec
  TokenPerAdmission
  RetriesServed
