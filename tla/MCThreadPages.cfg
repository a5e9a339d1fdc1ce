SPECIFICATION Spec
CONSTANTS
  NULL = NULL
  Grants <- MCGrants
  Citations <- MCCitations
  PostLimit = 2
INVARIANTS PagesOmitWhatWasGone RepliesMirrorLinks
PROPERTIES OffersAreHonoured TextIsNeverLost
CHECK_DEADLOCK FALSE
