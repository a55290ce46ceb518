CONSTANTS
    a1 = a1
    a2 = a2
    a3 = a3
    p1 = p1
    d1 = d1
    s0 = s0
    s1 = s1
    s2 = s2
    NoRecord = NoRecord
    Accounts <- MC_Accounts
    ProofKeys <- MC_ProofKeys
    Addresses <- MC_Addresses
    Secrets <- MC_Secrets
    EmptySecret <- MC_EmptySecret
    MaxBlock <- MC_MaxBlock

SYMMETRY MC_Symmetry

SPECIFICATION Spec

PROPERTIES
    UnlockedClaimNotTransferable
