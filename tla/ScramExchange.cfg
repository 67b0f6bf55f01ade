SPECIFICATION ExchangeSpec
CONSTANTS
    Prohibited = Prohibited
    Garbage = Garbage
    NotUtf8 = NotUtf8
    NoBytes = NoBytes
    NoAuthzid = NoAuthzid
    Kinds <- MCKinds
    Materials <- MCMaterials
    SaslPrep = TRUE
    Prep <- MCPrep
    Creds <- MCCreds
    Messages = {}
    U32Max = 3
    Stored <- MCStored
    ServerNonces = {"s"}
    MaxExchanges = 2
INVARIANTS
    Agreement
    BindingAgreement
    NoDowngrade
PROPERTIES
    EventuallyDecided
    HonestSucceeds
