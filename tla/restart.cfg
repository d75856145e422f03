SPECIFICATION Spec
CONSTANTS
  Parts = {"life"}
  MaxLines = 4
  Managers = {"f1", "f2", "f3"}
  Paths = {"any", "p", "m"}
  Classes = {"c1", "c2", "c3"}
  Helped = {"c1", "c2"}
  Matching <- MCMatching
  AnyPath = "any"
  Libraries = {"d", "s", "x"}
  Requests = {"d", "winvde_d", "./winvde_d", "winvde_s", "winvde_x", "winvde_n"}
  Finds <- MCFinds
  NoLibrary = NoLibrary
  Exporting = {"d", "s"}
  Prefixed = {"winvde_d", "./winvde_d", "winvde_s", "winvde_x", "winvde_n"}
  NameOf <- MCNameOf
  MaxRefs = 2
  Bits = 2
  MinSize = 3
  MaxSize = 5
  Eps = {"e1", "e2"}
  Buffers = {"b1", "b2", "b3"}
  Lengths = {0, 2}
  StdLength = 2
  Switches = {"a", "b", "c", "e"}
  CtlDir <- MCCtlDir
  MgmtSocket <- MCMgmtSocket
  NoOption = NoOption
  PidFile <- MCPidFile
  NoFile = NoFile
  Stale = Stale
  MaxCrashes = 1
  Taps = {"t1", "t2", "t3"}
  Letters = {1, 3}
  BuffSize = 3
  MaxHistory = 1
  MaxCommands = 2
  MaxReplies = 2
  MaxData = 2
  MaxDebug = 1
  Tags <- MCTags
  OtherTags <- MCOtherTags
  Values <- MCValues
  TextChars <- MCTextChars
  MaxElements = 2
  PlugWords = {"-l", "-p", "-g", "-", "=", "u1", "u2"}
  MaxArgs = 4
  UrlModule <- MCUrlModule
  Complete = {"winvde"}
  PluginPath <- MCPluginPath
  SameDir = "same"
  Installed <- MCInstalled
  NotGiven = NotGiven
  LineWords <- MCLineWords
  MaxWords = 3
  GoodValues <- MCGoodValues
  Structs = {s1, s2, s3, s4}
  MaxPeriod = 2
  GC_INTERVAL = 2
CHECK_DEADLOCK FALSE
INVARIANT RefusedOnlyInUse
