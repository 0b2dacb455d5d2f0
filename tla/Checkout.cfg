SPECIFICATION Spec
CONSTANTS
    None = None
    b1 = b1
    b2 = b2
    Setups <- MCSetups
    MaxLifetime = 3
    CredLifetime = 9
    Leeway = 1
    CsrLifetime = 2
    PopLifetime = 1
    NonceTtl = 1
    Nonces = {n1, n2}
INVARIANTS TypeOK AnswerIsTrue RevokedNeverPays EnrolledNotRefused
PROPERTIES PurchasesSpec
CHECK_DEADLOCK FALSE
