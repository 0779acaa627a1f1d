SPECIFICATION PagesSpec
CONSTANTS
  Parts = {"dialogs", "queries", "logs", "listing", "editor", "labels"}
  Pods = {"p1", "p2", "p3", "p4"}
  Order <- ByName
  ApiServer = "api"
  RunnerOf <- RunnerOfPods
  StatusOf <- StatusOfPods
  Old = {"p2", "p3"}
  Canary = {"p3"}
  Debug = {"p2"}
  ContainersOf <- ContainersOfPods
  Replicas = 2
  NoPod = "no pod"
  MaxMoves = 1
  Words <- FourWords
  Pieces <- WordsInLines
  Alike <- SameLetters
  Pattern <- WhatMatches
  NoRegexp = {"("}
  Unquoted <- WhatIsRead
  Runners = {"r"}
  MaxFilters = 1
  Texts <- SomeTexts
  Preset <- CreatedByMe
  Multiple = {"creator"}
  Single = {"sort"}
  Options = {"a", "b"}
  Ranges = {"d1", "d2"}
  Total = 2
  Count = 2
  MaxActs = 3
  Clusters = {"c1"}
  Bentos <- TwoVersions
  RunnersOf <- RunnersOfBento
  Edited = {"name"}
  MaxEdits = 2
  MaxOpens = 2
  Users = {"u"}
  Keys = {"k", "l"}
  Values = {"a", "b"}
  Typed = {"b"}
  MaxOps = 2
INVARIANTS TypesOK ShownOnce Follows OwnData ReadsOwnWrite LogShowsWanted FollowsUrl 
PROPERTIES Kept LabelsKept
CHECK_DEADLOCK FALSE
