SPECIFICATION HistorySpec
CONSTANTS
  f = f
  g = g
  small = small
  huge = huge
  folder = folder
  Absent = Absent
  Torn = Torn
  Path = {f, g}
  Content = {small, huge, folder, Absent, Torn}
  Folders = {folder}
  SizeOf <- Bytes
  MaxCheckpoints = 3
  MaxTotalBytes = 3
  MaxFileBytes = 1
  MaxWriteBytes = 1
  MaxStamp = 4
INVARIANT ReversibleWithinLimits
