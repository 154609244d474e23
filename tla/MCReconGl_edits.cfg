SPECIFICATION Spec
CONSTANTS
  b1 = b1
  b2 = b2
  l1 = l1
  l2 = l2
  g1 = g1
  g2 = g2
  g3 = g3
  j1 = j1
  j2 = j2
  j3 = j3
  Bank = {b1, b2}
  Ledger = {l1, l2}
  Group = {g1, g2}
  Journal = {j1, j2}
  NoGroup = NoGroup
  NoJournal = NoJournal
  Amount <- AmountOf
  Currency <- OneCurrencyForAll
  Books = {b1, l1}
  Features = {"edits"}
SYMMETRY Ids
INVARIANTS
  ModuleDraftsCollapsed
