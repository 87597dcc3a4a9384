SPECIFICATION PubSubSpec
CONSTANTS
  news = news
  all = all
  Conn = {c1, c2}
  Channel = {news}
  Pattern = {all}
  Matches <- EveryChannel
  Capacity = 1
  MaxSender = 2
  MaxSent = 2
SYMMETRY PubSubSymmetry
INVARIANT PubSubTypeOK
INVARIANT NoDeadEntries
