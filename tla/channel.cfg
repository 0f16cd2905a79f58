SPECIFICATION Spec
CONSTANTS
    Fields = {obs_seq, layout_hash, element1, element2}
    Values = {0, 1, 2, 3}
    Messages <- MCMessages
    Initial <- MCInitial
INVARIANTS
    TypeOK
    NeverTorn
PROPERTIES
    ImplementsRegister
    ExecutorNeverWaits
