\* Three runs of one child that find any number of directories, at most four and
\* three in place of eight and five, and two things that go wrong.
CONSTANTS
  Runs = 3
  Children = {c1}
  Name <- Names
  MaxDirs = 4
  Removed = 3
  MaxFaults = 2
SPECIFICATION Spec
INVARIANTS TypeOK OwnResults WorkingDirExists DirsBounded
CHECK_DEADLOCK FALSE
