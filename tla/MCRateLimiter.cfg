SPECIFICATION Spec
CONSTANTS
    Addr = {home, office}
    Request = {r1, r2, r3, r4, r5}
    Window = 3
    Burst = 2
    Stall = 1
    MaxTime = 4
SYMMETRY Interchangeable
INVARIANTS BudgetKept NoFalseAlarm
