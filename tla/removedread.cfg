SPECIFICATION Spec
CONSTANTS
    n1 = n1
    n2 = n2
    n3 = n3
    c1 = c1
    q1 = q1
    q2 = q2
    None = None
    Noop = Noop
    Node = {n1, n2, n3}
    Command = {c1}
    ConfigChange <- Changes
    ReadCtx = {q1, q2}
    MaxEntries = 2
    Setups <- RemovedReadSetups
CHECK_DEADLOCK FALSE
INVARIANTS ReadLinearizable
