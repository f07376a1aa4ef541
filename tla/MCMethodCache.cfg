CONSTANTS
  Domain = {d1, d2}
  Site = {"last", "middle"}
  NoSite = NoSite
  Class = {"one", "three", "five"}
  Tags <- MCTags
  Fit <- MCFit
  SiteTag <- MCSiteTag
SPECIFICATION FairSpec
INVARIANTS CacheSound
PROPERTY LookupReturns
