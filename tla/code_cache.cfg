CONSTANTS
  Threads = {t1, t2}
  Methods = {"m", "n"}
  Regions <- const_Regions
  NoOwner = NoOwner
  MaxVersion = 2
  CompiledBefore <- const_EarlierCode
SPECIFICATION Spec
INVARIANTS TypeOK VersionsUnique TablesAgree SomeCallGoesOn FindsCurrentCode
PROPERTIES UnloadFindsRange VersionsNeverReused
CHECK_DEADLOCK FALSE
