----------------------------- MODULE AtomicDisk -----------------------------
(***************************************************************************)
(* What SynchDisk promises its callers (filesys/synchdisk.h): a disk whose *)
(* sectors are read and written atomically by any number of threads.  A    *)
(* call is invoked, takes effect at one instant between its invocation and *)
(* its return, and returns the value the sector had at that instant.       *)
(***************************************************************************)
CONSTANTS Threads,     \* the kernel threads that use the disk
          Sectors,     \* sector numbers
          Data,        \* what a sector can hold
          NoOp         \* "no request", for a thread that is not in a call

VARIABLES content,     \* [Sectors -> Data], what the sectors hold
          request,     \* [Threads -> Request], the call a thread is in
          phase,       \* [Threads -> {"idle", "called", "done"}]
          result       \* [Threads -> Data], what the last read returned

avars == <<content, request, phase, result>>

Request == [kind : {"read", "write"}, sector : Sectors, data : Data]

AInit ==
    /\ content \in [Sectors -> Data]
    /\ request = [t \in Threads |-> NoOp]
    /\ phase = [t \in Threads |-> "idle"]
    /\ result \in [Threads -> Data]

Invoke(t, r) ==
    /\ phase[t] = "idle"
    /\ phase' = [phase EXCEPT ![t] = "called"]
    /\ request' = [request EXCEPT ![t] = r]
    /\ UNCHANGED <<content, result>>

TakeEffect(t) ==
    /\ phase[t] = "called"
    /\ phase' = [phase EXCEPT ![t] = "done"]
    /\ \/ /\ request[t].kind = "read"
          /\ result' = [result EXCEPT ![t] = content[request[t].sector]]
          /\ UNCHANGED content
       \/ /\ request[t].kind = "write"
          /\ content' = [content EXCEPT ![request[t].sector] = request[t].data]
          /\ UNCHANGED result
    /\ UNCHANGED request

Return(t) ==
    /\ phase[t] = "done"
    /\ phase' = [phase EXCEPT ![t] = "idle"]
    /\ request' = [request EXCEPT ![t] = NoOp]
    /\ UNCHANGED <<content, result>>

ANext ==
    \E t \in Threads :
        \/ \E r \in Request : Invoke(t, r)
        \/ TakeEffect(t)
        \/ Return(t)

ASpec == AInit /\ [][ANext]_avars
=============================================================================
