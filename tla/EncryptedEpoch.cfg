SPECIFICATION Spec
CONSTANTS
    Tenants = {t1}
    Names = {n1, n2}
    Masters = {m1, m2}
    Workers = {w1}
    Provider = "epoch"
    MayDisable = FALSE
    Accidents = {"damage", "misplace"}
    Anyone = Anyone
    Cleartext = Cleartext
    Damaged = Damaged
    NoAnswer = NoAnswer
    TTL = 1
    MaxTime = 2
    MaxShreds = 1
    MaxRestarts = 2
INVARIANTS TypeOK ShredErases ReadsWhatWasPut NoLostEntry
SYMMETRY Symmetry
