SPECIFICATION Spec
CONSTANTS
  Patches <- LinkagePatches
  Upids = {1, 2, 5, 15}
  jumpData <- MCjumpData
  jumpToOriginal <- MCjumpToOriginal
  UpidWord <- MCUpidWord
INVARIANTS
  RunsAsUnpatched
