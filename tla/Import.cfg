SPECIFICATION FairSpec
CONSTANTS
  u1 = u1
  u2 = u2
  x = x
  y = y
  blank = blank
  Users = {u1, u2}
  Importer = u1
  Texts = {x, y}
  BadTexts = {blank}
  Batches <- MCBatches
  ModeArgs = {"skip", "overwrite", "duplicate", "merge"}
  InitPools <- MCPools
  MaxImport = 3
  MaxExport = 4
  MaxOthers = 2
INVARIANTS TypeOK EveryEntryAccounted ReportIsTrue NoSilentCopy NoCopyOfKept OverwriteRestores ImportInv
PROPERTIES ImportEnds
