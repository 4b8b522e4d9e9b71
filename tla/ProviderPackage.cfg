SPECIFICATION Spec
INVARIANTS
  ExactClosedData
  CarriersAgree
  SameThroughDefault
  EventsAccepted
