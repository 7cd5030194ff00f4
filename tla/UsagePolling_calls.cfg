\* The coordinator, a dashboard request and a forced refresh share the cache.
SPECIFICATION FairPolling
CONSTANTS
  Accounts = {1, 2}
  Broken = {}
  Driver = driver
  Viewers = {v}
  Refreshers = {q}
  Interval = 3
  TTL = 2
  Backoff = 1
  RetryAfters = {0, 9}
  RetryMin = 1
  RetryMax = 2
  Oldest = 3
PROPERTIES PoliteToUpstream EveryCallerIsAnswered
