SPECIFICATION FairSpec
CONSTANTS
  Key = {1}
  MaxRequest = 3
  MaxLoader = 2
  MaxFault = 1
  MaxForeign = 1
  ReceiptLimit = 2
  MaxOperations = 2
  MaxBytes = 3
  ReadCharge = 2
INVARIANTS ReservationExact IoIsCharged LeaseCoversIo
PROPERTIES ImplementsOpaqueStore ForgottenWasSettled RequestsSettle
CHECK_DEADLOCK FALSE
