\* Four tasks: an owner, two asleep and a newcomer.
CONSTANTS
    Task = {t1, t2, t3, t4}
    MaxDepth = 2
SPECIFICATION LockSpec
INVARIANTS LockTypeOK AssertsHold NoLostWakeup LockInv
PROPERTIES Exclusion SomebodyEnters
