SPECIFICATION Spec
CONSTANTS
  b1 = b1
  b2 = b2
  l1 = l1
  l2 = l2
  g1 = g1
  g2 = g2
  g3 = g3
  j1 = j1
  j2 = j2
  j3 = j3
  Bank = {b1, b2}
  Ledger = {l1, l2}
  Group = {g1, g2, g3}
  Journal = {j1, j2}
  NoGroup = NoGroup
  NoJournal = NoJournal
  Amount <- AmountOf
  Currency <- TwoCurrencies
  Books = {b1, b2, l1, l2}
  Features = {"crash"}
SYMMETRY Ids
INVARIANTS
  SoleOwner
  StatusAgrees
  VoucherOneCurrency
  BookedOnce
PROPERTIES
  PostedGroupFrozen
