CONSTANTS
    Units = {1}
    Heavy = {1}
    MaxDeferrals = 2
    MaxTriggers = 2
    Overlap = {1}
    Blind = {}
    Forgetful = {}
SPECIFICATION Spec
INVARIANTS EveryTriggerCapped
