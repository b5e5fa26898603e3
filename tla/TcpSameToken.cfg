SPECIFICATION Spec
CONSTANTS
    A = A
    B = B
    Machines = {A, B}
    Id <- IdOfTwo
    NoMachine = NoMachine
    Scripts <- StringScripts
    Listeners = {}
    Token <- Same
    InfoToken = 50
    MaxCatch = 1
    MaxReemissions = 2
    MaxConnectionReemissions = 2
INVARIANT SentMeansReceived
CHECK_DEADLOCK TRUE
