------------------------------ MODULE FlatFile ------------------------------
(* What OpenFile promises its callers (filesys/openfile.h): files that are *)
(* arrays of bytes, and handles with a position of their own.  A call      *)
(* moves the bytes of its range one way or the other, each once, in any    *)
(* order and grouping, between its invocation and its return, and touches  *)
(* no other byte.  It answers how many it moved; a Read or a Write, which  *)
(* starts at the position of its handle, advances it by as many.           *)
EXTENDS Integers, Sequences, FiniteSets

CONSTANTS Threads, Handles,
          Length,       \* [files -> Nat], their lengths in bytes
          NoFile,       \* what a closed handle is on
          NoCall        \* for a thread that is not in a call

VARIABLES content,      \* [files -> [offsets -> bytes]]
          on,           \* [Handles -> the file it is on]
          position,     \* [Handles -> Nat], where Read and Write go on
          call,         \* [Threads -> the call a thread is in]
          answer        \* [Threads -> what its last call returned]

fvars == <<content, on, position, call, answer>>

Span(c) == {p \in c.at .. c.at + c.n - 1 : p < Length[c.f]}

FInit ==
    /\ on = [h \in Handles |-> NoFile]
    /\ position = [h \in Handles |-> 0]
    /\ call = [t \in Threads |-> NoCall]

Open(h, f) ==
    /\ on' = [on EXCEPT ![h] = f]
    /\ position' = [position EXCEPT ![h] = 0]
    /\ UNCHANGED <<content, call, answer>>

Seek(h) ==
    /\ position' = [position EXCEPT ![h] = position'[h]]
    /\ UNCHANGED <<content, on, call, answer>>

(* A thread asks for c.n bytes of a file, or has c.n bytes to store.       *)
Invoke(t) ==
    LET c == call'[t]
    IN  /\ call[t] = NoCall /\ c # NoCall
        /\ call' = [call EXCEPT ![t] = c]
        /\ c.f = on[c.h]
        /\ c.advances => c.at = position[c.h]
        /\ c.todo = Span(c) /\ c.into = <<>>
        /\ UNCHANGED <<content, on, position, answer>>

(* Some of the bytes that are left move.                                   *)
Move(t) ==
    LET c == call[t]
        S == c.todo \ call'[t].todo
    IN  /\ c # NoCall /\ call'[t] # NoCall /\ S # {}
        /\ \/ /\ c.kind = "read"
              /\ call' = [call EXCEPT ![t].todo = c.todo \ S,
                    ![t].into = [p \in DOMAIN c.into \cup S |->
                                    IF p \in S THEN content[c.f][p] ELSE c.into[p]]]
              /\ UNCHANGED content
           \/ /\ c.kind = "write"
              /\ call' = [call EXCEPT ![t].todo = c.todo \ S]
              /\ content' = [content EXCEPT ![c.f] =
                    [p \in DOMAIN @ |-> IF p \in S THEN c.from[p - c.at + 1] ELSE @[p]]]
        /\ UNCHANGED <<on, position, answer>>

Return(t) ==
    LET c == call[t]
        n == Cardinality(Span(c))
    IN  /\ c # NoCall /\ c.todo = {}
        /\ call' = [call EXCEPT ![t] = NoCall]
        /\ answer' = [answer EXCEPT ![t] = [n |-> n, into |-> [k \in 1..Cardinality(DOMAIN c.into) |->
                                                         c.into[c.at + k - 1]]]]
        /\ position' = IF c.advances THEN [position EXCEPT ![c.h] = @ + n] ELSE position
        /\ UNCHANGED <<content, on>>

FNext ==
    \/ \E h \in Handles : Seek(h) \/ \E f \in DOMAIN Length \cup {NoFile} : Open(h, f)
    \/ \E t \in Threads : Invoke(t) \/ Move(t) \/ Return(t)

FSpec == FInit /\ [][FNext]_fvars
=============================================================================
