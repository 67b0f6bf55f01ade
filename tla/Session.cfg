SPECIFICATION SessionSpec
CONSTANTS
    Prohibited = Prohibited
    NoAuthzid = NoAuthzid
    NoMessage = NoMessage
    Kinds = {}
    Materials = {}
    SaslPrep = TRUE
    Prep <- MCPrep
    Sasls <- MCSasls
    Inputs <- MCInputs
    Names = {}
    MaxWrites = 3
    Accounts <- MCAccounts
    Nonces <- MCNonces
    ErrorJson <- MCErrorJson
    MaxExchanges = 2
INVARIANTS
    OutcomesAgree
    PromptsAnswered
    RejectionReported
PROPERTIES
    EventuallyDecided
    HonestSucceeds
