SPECIFICATION Spec
CONSTANTS
  Run = {a1, a2}
  NoRun = NoRun
  Company = {"A", "B"}
  CompanyOf <- AllOfA
  LookAlike <- NoLookAlike
  OtherModes <- AtMostOneOther
  FxOn = TRUE
  MaxCalls = 2
  MaxVer = 1
  GateFile = {"f", "g"}
  NoGateFile = ""
  Sendable = {"f"}
  MaxPage = 2
  MaxEdit <- EditsOfFirst
  Row = {"a", "b"}
  Cur = {"H", "U"}
  NoCur = ""
  Invented = "H"
  Receipt <- ReceiptsInU
  PrintedIn <- FirstPrinted
  Offered = {"H", "U"}
  MaxActs = 4
  TableRow = {"r1", "r2", "r3", "r4"}
  NoRow = ""
  First <- TableRows
  IdNumber <- IdNumbers
  WithCrop = {"r2", "r4"}
  Matched = {"k1"}
  FailedPage = "r1"
  Rebuilt <- RetriedRows
  Posted = {"r2"}
  MaxEdits = 3
  File = {"f1", "f2"}
  Batches = 2
  Name <- OwnName
  Placed <- OneEach
  MaxRow <- TwoAndOne
  Returns = FALSE
  MaxBatchActs = 3
  Journal = {"j", "k"}
  NoJournal = ""
  Line = {"a"}
  Stored = {"j"}
  MaxChange = 1
  MaxJournalActs = 2
SYMMETRY Runs
INVARIANTS
  NothingOfAnotherRun
  NoEditLost
  ApprovedOnce
  PanelOfSelected
  OwnAmount
PROPERTY OthersKept
CHECK_DEADLOCK FALSE
