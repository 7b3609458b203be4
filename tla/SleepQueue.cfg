SPECIFICATION Spec
CONSTANTS
    Thread = {t1, t2, t3, t4, t5}
INVARIANTS
    Conservation
    ReleaserIsNeverStuck
