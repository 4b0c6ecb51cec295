SPECIFICATION FairSpec
CONSTANTS
  charge = charge
  again = again
  pay = pay
  chargeKey = chargeKey
  NoKey = NoKey
  Intents <- ThreeIntents
  KeyOf <- Keys
  Idempotent = {charge}
  Reversible = {again}
  Cost <- Costs
  Capacity = 2
  Slots = 2
  MaxRetries = 1
  LiveDuringStart = FALSE
  MaxCrashes = 1
  MaxFailures = 1
INVARIANTS AttentionInv
PROPERTIES ImplementsContract SucceededKeysAreSkipped AuthorizedIsSettled
