SPECIFICATION FairSpec
CONSTANTS
  Runs = {r1, r2}
  Segs = {s1, s2}
  Downpipes = {d1}
  TreeNames = {"root"}
  Indices = {1, 2}
  MaxKeep = 1
  ApplyFlags = {TRUE}
  ReceiptFlags = {FALSE}
  SharingDuringPass = FALSE
  ReadsMayFail = TRUE
PROPERTIES SegmentsReclaimed
