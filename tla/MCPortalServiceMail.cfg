\* The mail of a critical crossing.
CONSTANTS
  Saver = {s1, s2}
  Bodies <- Saves
  FirstRow <- FirstSettings
  MaxSaves = 2
  User = {u1, u2}
  Top = 2
  MaxMonths = 1
  MaxFaults = 1
  Provider = {p1, p2}
  Clerk = {k1, k2}
  NoProvider = NoProvider
  MaxRequests = 3
  Client = {c1, c2}
  Country = {here}
  NoCountry = NoCountry
  Editor = {e1}
  Shell = {sh}
  Booter = booter
  Nobody = Nobody
  OldCodes <- CodeLeft
  MaxWrites = 2
  Restricted = {c1}
  Home = {here}
  Works <- QuotasUsedUp
  MaxStarts = 1
  Name = {v1}
  Shown <- OneAnswer
  Caller = {t1}
  Loop = loop
  Ttl = 1
  MaxChanges = 1
  MaxRefusals = 1
  Kind = {"city"}
  MaxPages = 2
  MaxBuilders = 2
  MaxReleases = 2
  MaxBreaks = 1
SPECIFICATION Spec
PROPERTY CriticalMailed
