SPECIFICATION Spec
CONSTANTS
  Runs = {r1, r2, r3}
  Segs = {s1, s2}
  Downpipes = {d1, d2}
  TreeNames = {"manifest", "root"}
  Indices = {1, 2, 3}
  MaxKeep = 2
  ApplyFlags = {TRUE, FALSE}
  ReceiptFlags = {TRUE}
  SharingDuringPass = FALSE
  ReadsMayFail = TRUE
SYMMETRY Symmetry
INVARIANTS TypeOK NewestRunRestorable NothingStranded ExitZeroMeansPlanDone ReceiptAccounts
PROPERTIES LiveSegmentsSurvive IntentBeforeDelete
