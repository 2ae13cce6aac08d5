CONSTANTS
  UrlLength = 5
  Urls <- MCUrls
  Stale <- MCStale
SPECIFICATION Spec
INVARIANTS InPlace UrlExact
CHECK_DEADLOCK FALSE
