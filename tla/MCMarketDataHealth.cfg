\* A lost delta, and the health afterwards.
SPECIFICATION Spec
CONSTANTS
  eth = eth
  btc = btc
  bid = bid
  ask = ask
  Symbols = {eth}
  Levels = {bid, ask}
  Bids = {bid}
  MaxUpdates <- MCUpdates
  MaxLost = 1
  MaxTwice = 1
  MaxCandles = 1
  MaxDisconnects = 0
INVARIANT HealthyMeansInSync
