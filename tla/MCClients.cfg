CONSTANTS
  Parts = {"auth", "contracts", "channel", "light", "send", "invoices", "issuing"}
  Parties = {"a", "b", "c"}
  MaxScriptOps = 256
  MaxScriptStack = 64
  MaxScriptWitness = 32
  MaxScriptSigChecks = 6
  MaxSmallInt = 1000
  MaxMultisigKeys = 16
  Lock = 3
  Workers = {"w1", "w2"}
  CacheMax = 2
  Heights = {2, 3, 4}
  Unlock = 3
  MaxHeight = 5
  Capacity = 3
  ChFee = 1
  ExpireIn = 3
  Wealth = 8
  MaxOpens = 1
  MaxChHeight = 5
  MaxFaults = 2
  G = G
  a1 = a1
  a2 = a2
  b2 = b2
  b3 = b3
  d1 = d1
  x = x
  y = y
  Commands = {"update", "add", "watch", "forget", "verify", "anchor", "balance", "fastsync"}
  PageLimit = 2
  Maturity = 1
  MaxCommands = 3
  MaxFailures = 1
  Payments = {"p1", "p2"}
  Fees = {1, 2}
  Tools = {"send", "sendmany", "issue", "assetop", "anchor", "name", "bump", "cancel", "sponsor"}
  MaxAttempts = 2
  MaxReorgs = 1
  Tills = {"t1", "t2"}
  Payers = {"q1"}
  PaysTo <- MCPaysTo
  Amount = 1
  Confirmations = 2
  ExpiresIn = 0
  MaxInvoices = 2
  MaxInvHeight = 5
  MaxInvReorgs = 1
  MaxInvFaults = 1
SPECIFICATION Spec
INVARIANTS ScriptsMatchShapes VerdictsSound ContractsHonoured ChannelSafe WalletExact PaysOnce AddressesFresh
PROPERTIES  ChannelResolves SettledIsTold
CHECK_DEADLOCK FALSE
