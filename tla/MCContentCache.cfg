SPECIFICATION Spec
CONSTANTS
  notes = notes
  glyphs = glyphs
  payload = payload
  font = font
  Paths = {notes, glyphs}
  Readers = {r1, r2}
  Inodes = {payload, font}
  Native = {payload}
  ValidAssets <- ValidUnder
  Opaque <- OpaqueUnder
  Payloads = {payload}
  NamedPayloads = {glyphs}
  Length <- LengthOf
  PrefixLength = 1
  Capacity = 2
  NoInfo = NoInfo
  NoEntry = NoEntry
  NoCall = NoCall
  NoData = NoData
  Excluded = Excluded
  MaxChanges = 2
SYMMETRY Symmetry
INVARIANTS CacheIsWhole ReadsAreFresh PolicyIsKept AccountingIsExact
