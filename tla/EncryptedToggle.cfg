SPECIFICATION Spec
CONSTANTS
    Tenants = {t1}
    Names = {n1}
    Masters = {m1}
    Workers = {w1}
    Provider = "static"
    MayDisable = TRUE
    Accidents = {}
    Anyone = Anyone
    Cleartext = Cleartext
    Damaged = Damaged
    NoAnswer = NoAnswer
    TTL = 1
    MaxTime = 2
    MaxShreds = 0
    MaxRestarts = 1
INVARIANTS ReadsWhatWasPut
SYMMETRY Symmetry
