\* IncidentEdgesKept alone, under the bounds of MCGraphHistory.cfg.
SPECIFICATION HistorySpec
CONSTANTS
  NoPath = NoPath
  NoName = NoName
  NoNode = NoNode
  NoEntry = NoEntry
  Broken = Broken
  Absent = Absent
  main = main
  lib = lib
  os = os
  f = f
  Files = {main, lib}
  MainFile = main
  Outside = {os}
  Symbols = {f}
  Bodies <- MCBodies
  Entries <- MCEntries
PROPERTY IncidentEdgesKept
