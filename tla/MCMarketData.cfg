\* Two books that share a connection, under everything the stream may do.
SPECIFICATION FairSpec
CONSTANTS
  eth = eth
  btc = btc
  bid = bid
  ask = ask
  Symbols = {eth, btc}
  Levels = {bid, ask}
  Bids = {bid}
  MaxUpdates <- MCUpdates
  MaxLost = 1
  MaxTwice = 1
  MaxCandles = 1
  MaxDisconnects = 1
INVARIANTS
  BooksAreReal
PROPERTIES
  GapHeals
