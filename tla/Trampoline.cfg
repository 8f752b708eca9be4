SPECIFICATION Spec
CONSTANTS
  Patches <- SafePatches
  Upids = {1, 2, 5, 15}
  jumpData <- MCjumpData
  jumpToOriginal <- MCjumpToOriginal
  UpidWord <- MCUpidWord
INVARIANTS
  RightFunctionRuns
  RunsAsUnpatched
  FitsBuffer
