SPECIFICATION Spec
CONSTANTS
  NPorts = 2
  Registered = {0, 1}
  RuleInput <- MCRuleInput
  Data = {x, y}
  MaxLen = 3
  Timeout = 1
  Wrap = 3
SYMMETRY DataSymmetry
INVARIANTS
  TypeOK
  DeliveredAsReceived
PROPERTIES
  CleanStartIsDelivered
