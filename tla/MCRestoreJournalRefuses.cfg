SPECIFICATION Spec
CONSTANTS
  ledger = ledger
  snapshot = snapshot
  marked = marked
  Data = {ledger, snapshot, marked}
  Marked = {marked}
  None = None
INVARIANTS
  PublishedIsVerifiable
