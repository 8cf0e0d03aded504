------------------------------- MODULE Frames -------------------------------
(***************************************************************************)
(* How a message looks on the wire: gcos/osprims/shm.py puts its length    *)
(* before it, as four bytes, the least significant first.                  *)
(***************************************************************************)
EXTENDS Naturals, Sequences

\* struct.pack("<I", len(payload)) + payload
Frame(m) ==
    <<Len(m) % 256, (Len(m) \div 256) % 256, (Len(m) \div 65536) % 256,
      (Len(m) \div 16777216) % 256>> \o m
=============================================================================
