\* One listener is enough to be credited for a track that was ended.
SPECIFICATION Spec
CONSTANTS
    Users = {u1}
    Half = 2
    MaxHeard = 2
    MaxTabs = 1
    MaxWaiting = 0
INVARIANTS
    OnlyListenersAreCredited
