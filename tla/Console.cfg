SPECIFICATION Spec
CONSTANTS
    R1 = R1
    R2 = R2
    W1 = W1
    W2 = W2
    NoThread = NoThread
    EOF = EOF
    Readers = {R1, R2}
    Writers = {W1, W2}
    Chars = {"a", "b"}
    Output <- TwoWriters
    MaxTyped = 3
    MaxAnnounced = 2
INVARIANTS NoCharLost BufferedIsAnnounced PutCharNotBusy
PROPERTIES CharsArrive WritesReturn
CHECK_DEADLOCK TRUE
