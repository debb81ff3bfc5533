SPECIFICATION FairSpec
CONSTANTS
  Runs = {r1, r2}
  Segs = {s1}
  Downpipes = {d1}
  TreeNames = {"manifest", "root"}
  Indices = {1, 2}
  MaxKeep = 1
  ApplyFlags = {TRUE}
  ReceiptFlags = {FALSE}
  SharingDuringPass = FALSE
  ReadsMayFail = FALSE
PROPERTIES FailedDeletesRetried
