SPECIFICATION FairSpec
CONSTANTS
    RingSize = 2
    MaxSends = 2
    MaxArrivals = 3
PROPERTIES EventuallySent FramesDelivered HandlerReturns
