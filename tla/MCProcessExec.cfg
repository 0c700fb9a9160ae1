SPECIFICATION Spec
CONSTANTS
    Kids = {1, 2}
    Statuses = {0, 1}
    Interrupts = 1
    None = None
INVARIANTS
    ParentWaits
