SPECIFICATION CacheSpec
CONSTANTS
  Databases = {"shop", "logs", "main"}
  SchemaNames = {"public", "old"}
  Classes = {"objects"}
  Requests <- MCRequests
  Loaders = {l1, l2}
  Catalogue <- MCCatalogue
  Connected = {0, 2}
  MaxVersion = 3
  MaxGen = 1
  NoName = NoName
  Missing = Missing
  Nothing = Nothing
CHECK_DEADLOCK FALSE
INVARIANTS
  Fresh
PROPERTY Answered
