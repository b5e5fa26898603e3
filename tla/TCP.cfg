SPECIFICATION Spec
CONSTANTS
    A = A
    B = B
    Machines = {A, B}
    Id <- IdOfTwo
    NoMachine = NoMachine
    Scripts <- SendingScripts
    Listeners = {}
    Token <- Differ
    InfoToken = 50
    MaxCatch = 1
    MaxReemissions = 2
    MaxConnectionReemissions = 2
INVARIANTS SendReliable PiecesInOrder HandshakeAgreement
CHECK_DEADLOCK TRUE
