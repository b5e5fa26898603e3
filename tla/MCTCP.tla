------------------------------- MODULE MCTCP -------------------------------
(* TCP for TLC: machine A connects to machine B.                           *)
EXTENDS TCP

CONSTANTS A, B

IdOfTwo == [m \in {A, B} |-> IF m = A THEN 0 ELSE 1]

Sync(m) == [call |-> "SyncWithMachine", target |-> m]
Do(name) == [call |-> name]

(* A string is sent.  Calls are also made where they are refused: those    *)
(* that need a connection before there is one, the others after.           *)
StringScript ==
    [m \in {A, B} |->
        IF m = A
        THEN <<Do("SendString"), Do("EndConnection"), Sync(B), Do("SendString")>>
        ELSE <<Do("ReceiveString"), Do("OpenConnection"), Do("ReceiveString"),
               Do("OpenConnection"), Sync(A)>>]

(* A file is sent.                                                         *)
FileScript ==
    [m \in {A, B} |->
        IF m = A THEN <<Sync(B), Do("SendFile")>>
        ELSE <<Do("ReceiveFile"), Do("OpenConnection"), Do("ReceiveFile")>>]

(* A string or a file is sent and the connection is ended, perhaps while B *)
(* waits.                                                                  *)
StringEndScript ==
    [m \in {A, B} |->
        IF m = A THEN <<Sync(B), Do("SendString"), Do("EndConnection")>>
        ELSE <<Do("OpenConnection"), Do("ReceiveString")>>]

FileEndScript ==
    [m \in {A, B} |->
        IF m = A THEN <<Sync(B), Do("SendFile"), Do("EndConnection")>>
        ELSE <<Do("OpenConnection"), Do("ReceiveFile")>>]

SendingScripts == {StringScript, FileScript}
StringScripts == {StringScript}
EndScripts == {StringEndScript, FileEndScript}

(* What the theorems about conversations assume holds of them.             *)
ASSUME SendingScriptsConverse == \A s \in SendingScripts : Conversation(s, A, B)

(* What the theorem about meetings assumes holds of them, too.             *)
ASSUME SendingScriptsMeet == \A s \in SendingScripts : Meeting(s, A, B)

(* First characters: those of the pieces differ, or not.                   *)
Differ == <<97, 98>>
Same == <<97, 97>>

ASSUME DifferIsDistinct == Token = Differ => Distinct
=============================================================================
