SPECIFICATION Spec
CONSTANTS
  t1 = t1
  t2 = t2
  u1 = u1
  NULL = NULL
  KEPT = KEPT
  Entries <- MCEntries
  Tabs <- MCTabs
  Users <- MCOneUser
  MaxTokens = 1
  MaxCsrf = 3
  MaxFlash = 1
INVARIANTS SessionsTakeEveryFactor SignInReturnsToWhatWasWanted OpenFormsAreAccepted FlashIsShownOnce
PROPERTIES LeaversActNoMore
