CONSTANTS
  c1 = c1
  c2 = c2
  a = a
  b = b
  d = d
  Cards = {c1, c2}
  Mentions = {a}
  CardOf <- OnCard
  Trusted = {a}
  MaxEvents = 1
  MaxCrashes = 1
SPECIFICATION LiveSpec
PROPERTIES
  MentionsGetQueued
  NothingStaysOpen
  NewsIsFetched
  RunReturns
