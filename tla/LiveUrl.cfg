\* Two requests for two matches, of which the first stops being live.
SPECIFICATION FairSpec
CONSTANTS
    Calls = {c1, c2}
    Matches <- Ids
    Retries = 1
    CacheTtl = 2
    FieldTtl = 2
    MaxTime = 4
INVARIANTS TypeOK FieldsExpire
  
CHECK_DEADLOCK FALSE
