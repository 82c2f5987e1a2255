SPECIFICATION Spec
CONSTANTS
    Tenants = {t1, t2}
    Names = {n1}
    Masters = {m1, m2}
    Workers = {w1}
    Provider = "kms"
    MayDisable = FALSE
    Accidents = {}
    Anyone = Anyone
    Cleartext = Cleartext
    Damaged = Damaged
    NoAnswer = NoAnswer
    TTL = 2
    MaxTime = 3
    MaxShreds = 0
    MaxRestarts = 2
INVARIANTS NoLostEntry
SYMMETRY Symmetry
