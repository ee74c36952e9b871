SPECIFICATION Spec
CONSTANTS
  NoCallback <- NoCb
  t1 = t1
  t2 = t2
  r1 = r1
  r2 = r2
  a = a
  b = b
  c = c
  Tpdos <- TwoTpdos
  Rpdos <- TwoRpdos
  Map <- Mapping
  Entries = {a, b, c}
  Values = {v1, v2}
  Initial = v1
  Partial = Partial
  Refused <- Nothing
  Payloads <- Pairs
  SdoWrites = {c}
  LocalWrites = {c}
  Parameters <- CobIdOrMapping
  Aborts = FALSE
  Periods <- NoPeriod
  MaxCalls = 3
INVARIANTS DeliveredTogether NoPartialValueSent CallbacksFollowChanges
CHECK_DEADLOCK FALSE
