SPECIFICATION Spec
CONSTANTS
  owner = owner
  ann = ann
  bob = bob
  key = key
  ban = ban
  address = address
  None = None
  Elsewhere = Elsewhere
  Rows <- MCRows
  Seeds <- MCSeeds
  TableOf <- MCTableOf
  Needs <- MCNeeds
  Mail <- MCMail
  Ledger <- MCLedger
  Requests = {1, 2, 3}
  LastTable = 4
  MaxVersion = 3
  MaxCrash = 1
  MaxOutage = 1
CHECK_DEADLOCK FALSE
INVARIANTS AnonymisedIsWritten
