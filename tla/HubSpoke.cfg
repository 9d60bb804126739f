SPECIFICATION LinkFairSpec
CONSTANTS
  HeartbeatTTL = 1
  MaxDirectives = 3
  NoStatus = NoStatus
INVARIANTS
  LinkTypeOK
  HandledInOrder
  NoLossWithoutFault
  HealthyIsTrue
PROPERTIES
  IsMailbox
  ForgottenIsNoticed
