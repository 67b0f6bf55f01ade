SPECIFICATION Spec
CONSTANTS
    Prohibited = Prohibited
    Garbage = Garbage
    NotUtf8 = NotUtf8
    NoBytes = NoBytes
    NoAuthzid = NoAuthzid
    Kinds <- MCKinds
    Materials <- MCMaterials
    SaslPrep = TRUE
    Prep <- MCPrep
    Creds <- MCCreds
    Messages <- MCMessages
    U32Max = 3
INVARIANTS
    TypeOK
    AcceptanceOracle
    NoSilentSkip
    ProofSentOnce
    DerivedAsSpelled
    PreparedTogether
    ExpectationMatchesProof
PROPERTIES
    FailuresChangeNothing
    ImplementsContract
