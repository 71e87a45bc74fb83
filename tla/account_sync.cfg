SPECIFICATION FairSpec
CONSTANTS
  NoName = NoName
  acme = acme
  holder = holder
  vat = vat
  bogus = bogus
  gst = gst
  Names <- MCNames
  Holder = holder
  NameBytes <- MCNameBytes
  MetadataMax = 20
  Ellipsis = 5
  TaxIDs = {vat, bogus, gst}
  Invalid = {bogus}
  TaxLists <- MCTaxLists
  MaxUpsets = 2
INVARIANTS
  SyncInv
  NothingForgotten
PROPERTIES
  Converges
  ComesToRest
CHECK_DEADLOCK FALSE
