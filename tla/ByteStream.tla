----------------------------- MODULE ByteStream -----------------------------
(***************************************************************************)
(* What the shared-memory ring of gcos/osprims/shm.py promises its two     *)
(* processes: a first-in first-out stream of bounded size, in which every  *)
(* message travels whole, as a frame that starts with its length.          *)
(***************************************************************************)
EXTENDS Frames

CONSTANTS
    Capacity,   \* bytes in the ring
    Messages    \* the payloads, sequences of bytes

VARIABLES
    stream,      \* the bytes sent and not yet received
    accepted,    \* history: the messages that send() took
    delivered    \* history: the messages that recv() returned

Init ==
    /\ stream = <<>>
    /\ accepted = <<>>
    /\ delivered = <<>>

Put(m) ==
    /\ Len(stream) + Len(Frame(m)) <= Capacity
    /\ stream' = stream \o Frame(m)
    /\ accepted' = Append(accepted, m)
    /\ UNCHANGED delivered

Get(m) ==
    /\ Len(Frame(m)) <= Len(stream)
    /\ SubSeq(stream, 1, Len(Frame(m))) = Frame(m)
    /\ stream' = SubSeq(stream, Len(Frame(m)) + 1, Len(stream))
    /\ delivered' = Append(delivered, m)
    /\ UNCHANGED accepted

Next == \E m \in Messages : Put(m) \/ Get(m)

Spec == Init /\ [][Next]_<<stream, accepted, delivered>>
=============================================================================
