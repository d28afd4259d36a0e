\* Three messages: one that cannot be routed, two of one chat and two senders.
\* Modes change with every message, nothing is dropped once accepted, /stop at
\* any time.
SPECIFICATION LiveSpec
CONSTANTS
    Messages <- ThreeMessages
    Route <- ThreeRoutes
    Auth <- ThreeSenders
    Settings <- NoOverflow
    MaxQueues = 3
    StopAllowed = TRUE
INVARIANTS
    TypeOK
    NoOrphanedQueue
    
    AnsweredOnceInOrder
    BatchIsHomogeneous

    
