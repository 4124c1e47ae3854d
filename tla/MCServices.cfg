CONSTANTS
  Services = {"mining", "pool", "faucet", "webhook", "inbound"}
  Txs = {"t", "b"}
  Bad = {"b"}
  MaxBuildAttempts = 2
  MaxTips = 2
  MaxTxs = 2
  MaxCalls = 1
  Nodes <- MCNodes
  Sessions = {"m", "n"}
  AddressOf <- MCAddressOf
  FilterCommit = FALSE
  MaxJobs = 2
  WindowMax = 2
  MaxMiners = 1
  Factors = {1, 2}
  Rewards = {0, 1, 5}
  MaxTip = 1
  Setups <- MCSetups
  MaxEvents = 3
  Requests <- MCRequests
  Cooldown = 2
  MaxKeys = 2
  Amount = 1
  Rates = {1, 2}
  Funds = 5
  MaxPending = 2
  MaxTime = 3
  Urls = {1, 2}
  WebhookQueue = 1
  WebhookRetries = 1
  MaxEmitted = 3
  Ips = {"i", "j", "k", "lo"}
  IpGroup <- MCIpGroup
  Exempt = {"lo"}
  MaxInbound = 2
  MaxInboundPerGroup = 1
  IpBanThreshold = 2
  IpBanHandshake = 1
  MaxPerIp = 2
SPECIFICATION Spec
INVARIANTS PoolBooks FaucetPaysOnce InboundSlots
PROPERTIES MinerRecovers LongPollAnswers JobsFollowTip EventsSettle
CHECK_DEADLOCK FALSE
