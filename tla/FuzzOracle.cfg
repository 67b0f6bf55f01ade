SPECIFICATION FuzzSpec
CONSTANTS
    Prohibited = Prohibited
    Garbage = Garbage
    NotUtf8 = NotUtf8
    NoBytes = NoBytes
    NoAuthzid = NoAuthzid
    Kinds = {}
    Materials = {}
    SaslPrep = TRUE
    Prep <- MCPrep
    Creds <- MCTypedCreds
    Messages = {}
    U32Max = 4
    RawMessages <- MCRawMessages
    Extensions <- MCExtensions
    Salts = {"salt", "other"}
    Counts = {0, 1}
    MaxIterations = 2
INVARIANT
    OracleAgrees
