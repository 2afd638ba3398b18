SPECIFICATION Spec
CONSTANTS
    RingSize = 3
    MaxSends = 2
    MaxArrivals = 3
INVARIANTS TypeOK DeliveredOnce TransmittedIntact SentInOrder
