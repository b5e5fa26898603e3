----------------------------- MODULE MCOpenFile -----------------------------
(* OpenFile for TLC: sectors of two bytes, index blocks of two pointers,   *)
(* and two threads whose calls meet in every way on a file of five bytes.  *)
EXTENDS OpenFile

CONSTANTS T1, T2, H1, H2, H3, H4

Lengths == [f |-> 5, dir |-> 3, small |-> 1, med |-> 5, test |-> 6, even |-> 4, huge |-> 3, empty |-> 0]
ABytes == <<"a", "b", "c", "d", "e", "f">>
UnixFiles == [f \in DOMAIN Lengths |-> SubSeq(ABytes, 1, Lengths[f])]
Blanks == [f \in DOMAIN Lengths |-> [k \in 1 .. Lengths[f] |-> "o"]]

Letters == <<"m", "e", "d">>

Some(h, f, at, cs) == <<OpenC(h, f, 2), SeekC(h, at)>> \o cs \o <<CloseC(h)>>
Payload(b, n) == SubSeq(b, 1, n)
Any1 == {Some(H1, "f", at, <<WriteC(H1, Payload(<<"1", "2", "3", "4">>, n), "once"),
                             ReadC(H1, 3, "once")>>) : at \in 0 .. 5, n \in {0, 1, 2, 4}}
Any2 == {Some(H4, "f", at, <<WriteC(H4, Payload(<<"5", "6", "7", "8">>, n), "once")>>) :
            at \in 0 .. 5, n \in {1, 2, 3, 4}}
        \cup {Some(H4, "f", at, <<ReadC(H4, n, "once"), ReadC(H4, 2, "once")>>) :
            at \in 0 .. 5, n \in {1, 2, 3, 4}}

Theirs == [t \in {T1, T2} |->
    IF t = T1
    THEN Any1 \cup {Test2(H1, H2, H3, "med", "small", <<"x", "y">>, <<"u", "v", "w">>),
                    Test2(H1, H2, H3, "huge", "small", <<"x", "y">>, <<"u", "v", "w">>),
                    PerformanceTest(H1, "test"), Copy(H1, "med") \o PrintFile(H1, "med"),
                    Copy(H1, "even") \o PrintFile(H1, "even"), Copy(H1, "empty"),
                    Copy(H1, "huge") \o PrintFile(H1, "huge"), Copy(H1, "f"),
                    <<OpenC(H1, "dir", 2), WriteAtC(H1, <<"1", "2", "3">>, 0),
                      ReadAtC(H1, 3, 0), CloseC(H1)>>}
    ELSE Any2 \cup {PrintFile(H4, "med"), PrintFile(H4, "test"),
                    <<OpenC(H4, "dir", 2), ReadAtC(H4, 3, 0), CloseC(H4)>>}]
=============================================================================
