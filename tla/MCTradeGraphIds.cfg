SPECIFICATION Spec
CONSTANTS
    Runs = {r1, r2}
    Faults = {"build_account_facts", "persist_decision"}
    Raising = {"ai_policy_assessment"}
    MaxTime = 1
CHECK_DEADLOCK FALSE
PROPERTY DecisionsAreKept
