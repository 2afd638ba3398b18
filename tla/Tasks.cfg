SPECIFICATION Spec
CONSTANTS
    t1 = t1
    t2 = t2
    t3 = t3
    main = main
    Task <- MCTask
    Main = main
    MaxTasks = 3
    MaxWork = 2
INVARIANTS TypeOK ContextsKept
PROPERTIES NeverBack ImplementsRoundRobin
