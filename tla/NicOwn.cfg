SPECIFICATION Spec
CONSTANTS
    RingSize = 3
    MaxSends = 2
    MaxArrivals = 3
INVARIANT EmptiedIsReturned
