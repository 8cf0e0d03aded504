------------------------------ MODULE ShmRing ------------------------------
(***************************************************************************)
(* The ring in POSIX shared memory of gcos/osprims/shm.py, between the     *)
(* process that sends and the process that receives.  Each call reads the  *)
(* header once, works on the bytes, and writes the whole header back: the  *)
(* field that is its own and the one it has read.  No lock is involved.    *)
(* Overlap says whether a send() and a recv() may run at the same time;    *)
(* with TRUE a header is still written in one piece, so the behaviours of  *)
(* torn headers come on top of those of the model.                         *)
(***************************************************************************)
EXTENDS Frames, SequencesExt

CONSTANTS
    Capacity,   \* bytes in the ring
    Messages,   \* the payloads that are sent, sequences of bytes
    Overlap,    \* may the two processes be inside the ring together?
    MaxSends    \* bound: calls of send() that are accepted

Byte == 0 .. 255

\* struct.pack("<I") raises for a length that four bytes cannot hold.
ASSUME RingAssumption ==
    /\ Capacity \in Nat \ {0}
    /\ \A m \in Messages : m \in Seq(Byte) /\ Len(m) \div 16777216 < 256
    /\ Overlap \in BOOLEAN
    /\ MaxSends \in Nat

VARIABLES
    head, tail,   \* the header's offsets, which only grow
    ring,         \* the bytes after the header
    sender,       \* send(): its point, its message and the header it read
    receiver,     \* recv(): its point, its result and the header it read
    accepted,     \* history: the messages that send() took
    delivered     \* history: the messages that recv() returned

shared == <<head, tail, ring>>
ringVars == <<shared, sender, receiver, accepted, delivered>>

Idle == [at |-> "idle", msg |-> <<>>, head |-> 0, tail |-> 0]

Call(points) ==
    [at : points, msg : Seq(Byte), head : Nat, tail : Nat]

\* The ring never holds more than its capacity, cells hold bytes, and locals
\* are well-formed.
RingTypeOK ==
    /\ tail \in Nat /\ head \in tail .. tail + Capacity
    /\ ring \in [0 .. Capacity - 1 -> Byte]
    /\ sender \in Call({"idle", "write", "commit"})
    /\ receiver \in Call({"idle", "read", "commit"})
    /\ accepted \in Seq(Messages)
    /\ delivered \in Seq(Seq(Byte))

RingInit ==
    /\ head = 0
    /\ tail = 0
    /\ ring = [i \in 0 .. Capacity - 1 |-> 0]
    /\ sender = Idle
    /\ receiver = Idle
    /\ accepted = <<>>
    /\ delivered = <<>>
-----------------------------------------------------------------------------
\* The cell for an offset.
Cell(offset) == offset % Capacity

\* The n bytes from an offset on, as the ring holds them now.
Bytes(offset, n) == [i \in 1 .. n |-> ring[Cell(offset + i - 1)]]

\* struct.unpack of the four bytes before a payload.
LengthAt(offset) ==
    LET b == Bytes(offset, 4)
    IN  b[1] + 256 * b[2] + 65536 * b[3] + 16777216 * b[4]

\* Mutant of Fits: the length prefix is forgotten.
FitsPayload(m) == Len(Frame(m)) <= Capacity /\ head - tail + Len(m) <= Capacity

\* A frame larger than the ring raises, one that does not fit now is refused.
Fits(m) == Len(Frame(m)) <= Capacity /\ head - tail + Len(Frame(m)) <= Capacity

SendBegin(m) ==
    /\ sender.at = "idle"
    /\ Overlap \/ receiver.at = "idle"
    /\ Len(accepted) < MaxSends
    /\ Fits(m)
    /\ sender' = [at |-> "write", msg |-> m, head |-> head, tail |-> tail]
    /\ UNCHANGED <<shared, receiver, accepted, delivered>>

SendWrite ==
    /\ sender.at = "write"
    /\ LET frame == Frame(sender.msg)
       IN  ring' = [c \in DOMAIN ring |->
                LET written == {i \in 1 .. Len(frame) : Cell(sender.head + i - 1) = c}
                IN  IF written = {} THEN ring[c]
                    ELSE frame[CHOOSE i \in written : TRUE]]
    /\ sender' = [sender EXCEPT !.at = "commit"]
    /\ UNCHANGED <<head, tail, receiver, accepted, delivered>>

\* _set(head + len(frame), tail)
SendCommit ==
    /\ sender.at = "commit"
    /\ head' = sender.head + Len(Frame(sender.msg))
    /\ tail' = sender.tail
    /\ accepted' = Append(accepted, sender.msg)
    /\ sender' = Idle
    /\ UNCHANGED <<ring, receiver, delivered>>

\* Less than a length prefix in the ring: recv() returns None.
RecvBegin ==
    /\ receiver.at = "idle"
    /\ Overlap \/ sender.at = "idle"
    /\ head - tail >= 4
    /\ receiver' = [at |-> "read", msg |-> <<>>, head |-> head, tail |-> tail]
    /\ UNCHANGED <<shared, sender, accepted, delivered>>

\* The receiver's frame is all there; if not, recv() returns None.
Whole == receiver.head - receiver.tail >= 4 + LengthAt(receiver.tail)

\* The length, then the payload.
RecvRead ==
    /\ receiver.at = "read"
    /\ receiver' = IF Whole
          THEN [receiver EXCEPT !.at = "commit",
                    !.msg = Bytes(receiver.tail + 4, LengthAt(receiver.tail))]
          ELSE Idle
    /\ UNCHANGED <<shared, sender, accepted, delivered>>

\* _set(head, tail + 4 + n)
RecvCommit ==
    /\ receiver.at = "commit"
    /\ head' = receiver.head
    /\ tail' = receiver.tail + 4 + Len(receiver.msg)
    /\ delivered' = Append(delivered, receiver.msg)
    /\ receiver' = Idle
    /\ UNCHANGED <<ring, sender, accepted>>

RingNext ==
    \/ \E m \in Messages : SendBegin(m)
    \/ SendWrite \/ SendCommit
    \/ RecvBegin \/ RecvRead \/ RecvCommit

RingSpec == RingInit /\ [][RingNext]_ringVars
-----------------------------------------------------------------------------
Abstract == INSTANCE ByteStream WITH stream <- Bytes(tail, head - tail)

\* Calls that do not overlap implement the bounded byte stream: frames wrap
\* round the end of the ring, are never overwritten before they are received
\* and are never cut, up to a ring that is exactly full.
ImplementsStream == Abstract!Spec

\* shm.py: "Cross-process safe for the 1:1 pipe pattern": what is received is
\* what was sent, in order, nothing twice.
FifoDelivery == IsPrefix(delivered, accepted)
=============================================================================
