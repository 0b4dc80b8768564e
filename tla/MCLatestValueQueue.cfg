SPECIFICATION Spec
CONSTANTS
  p1 = p1
  p2 = p2
  c1 = c1
  c2 = c2
  c3 = c3
  Producers <- MCProducers
  Consumers <- MCConsumers
  RequestedCapacity = 2
  MaxSent = 5
INVARIANTS NoValueStranded NoSpaceStranded ClosedWakesAll Ordered
PROPERTIES ImplementsChannel
