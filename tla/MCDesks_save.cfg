SPECIFICATION Spec
CONSTANTS
  Runs = {a, b}
  NoOne = NoOne
  MaxReqs = 1
  Module = {"AP", "BANK"}
  BankModule = {"BANK"}
  Batch = {"x", "y", "z"}
  ModuleOf <- BatchModule
  GridRow = {"a", "b", "c", "d"}
  BatchOf <- RowBatch
  Pos <- RowPos
  StatusValue = {"done", "review", "open"}
  StatusOf <- RowStatus
  Offers <- StatusList
  Locked = {"c"}
  MaxActs = 5
  Company = {"A", "B"}
  NoCompany = ""
  NewCompany = "B"
  SkillMode = {"AR", "AP"}
  FirstMode = "AR"
  NoBalance = 0
  Balance = {1, 2}
  MaxClicks = 3
  Name = {"n", "m"}
  NoName = ""
  FirstName = "n"
  Workspace = {"A", "B"}
  NoWorkspace = ""
  Created = "B"
  MaxSecret = 2
  MaxAccountActs = 6
  Rule = {"r", "s"}
  NoRule = ""
  StoredRules = {"r"}
  MaxRuleActs = 6
  Job = {"j1", "j2"}
  Lossy = FALSE
  MaxJobActs = 4
  Firm = {"A", "B"}
  NoFirm = ""
  Task = {"t1", "t2", "t3"}
  NoTask = ""
  Stored = {"t1"}
  Home = "A"
  MaxTaskActs = 3
  Chat = {"a", "b", "d"}
  NoChat = ""
  StoredTasks = {"a", "b"}
  ModeOf <- ChatModes
  MaxComposerActs = 6
  Bank = {"b1", "b2", "b3"}
  Ledger = {"l1", "l2"}
  Amount <- RowAmount
  Currency <- RowCurrency
  NoCurrency = ""
  HasCode = {"b2"}
  BatchSize = 2
  MaxGroups = 3
  MaxTaps = 4
  Group = {"g"}
  NoGroup = ""
  Stays = {"g"}
  Workers = 1
  Seeding = TRUE
  MaxVersion = 3
  MaxVoucherActs = 3
  Entity = {"A", "B"}
  Key = {"k1", "k2"}
  Slot = {"s1"}
  MaxId = 5
  MaxMoves = 4
  Account = {"ar", "ap", "bank", "cash", "sales", "capital"}
  Suspense = "s"
  NoCode = ""
  Category <- AccountClass
  Opening <- AccountOpening
  ArControl = "ar"
  ApControl = "ap"
  Banks = {"bank", "cash"}
  DefaultBank = "bank"
  Doc = {"d"}
  DocKind <- KindOfDoc
  DocAmount <- AmountOfDoc
  Journal = {"i", "j", "k"}
  GroupOf <- VoucherGroup
  Lines <- VoucherLines
  NoReport = NoReport
  MaxReportActs = 4
  Business = {"A", "B"}
  Empty = {"A"}
  Nickname = {"", "HSBC"}
  MaxAccounts = 2
  BankFirst = 10
  BankLast = 11
  CashCodes = {1}
  DirectorCodes = {20}
  Builtin <- BuiltinAccounts
  MaxWizardActs = 7
  Parts = {"books"}
PROPERTY SavePersists
CHECK_DEADLOCK FALSE
