\* Two files that may parse, break, vanish and return in any order, for ever.
SPECIFICATION HistorySpec
CONSTANTS
  NoPath = NoPath
  NoName = NoName
  NoNode = NoNode
  NoEntry = NoEntry
  Broken = Broken
  Absent = Absent
  main = main
  lib = lib
  os = os
  f = f
  Files = {main, lib}
  MainFile = main
  Outside = {os}
  Symbols = {f}
  Bodies <- MCBodies
  Entries <- MCEntries
INVARIANTS MergeSucceeds FactsAreLastGood EverythingContained
PROPERTY FreshEdgesPublished
