SPECIFICATION FairSpec
CONSTANT Retries = 30
INVARIANT PicturesMatch
PROPERTY ScriptEnds
CHECK_DEADLOCK FALSE
