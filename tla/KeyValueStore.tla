--------------------------- MODULE KeyValueStore ---------------------------
(***************************************************************************)
(* What the page store of gcos/osprims/vmem.py promises: a dictionary of   *)
(* page bodies in a region that is given out in whole pages and never      *)
(* taken back, and nothing left behind when it is closed or could not be   *)
(* opened.  Where the bodies lie and which of them are resident does not   *)
(* show.                                                                   *)
(***************************************************************************)
EXTENDS Naturals, Sequences

CONSTANTS
    Keys,       \* the keys of pages
    Bodies,     \* page bodies, sequences of bytes
    PageSize,   \* bytes in a page
    Slots       \* pages in the region

VARIABLES
    content,   \* the body under each key that was stored
    room,      \* bytes that are not given out
    reply,     \* what the last call returned or raised
    life,      \* opening | open | ended
    holds      \* the resources of its own that are held

abstractVars == <<content, room, reply, life, holds>>

Reply(kind, b) == [kind |-> kind, body |-> b]

\* n is the number of pages for body b: as few as hold it, and never none.
Takes(b, n) ==
    /\ n >= 1 /\ Len(b) <= n * PageSize
    /\ n = 1 \/ (n - 1) * PageSize < Len(b)

Init ==
    /\ content = [k \in {} |-> <<>>]
    /\ room = Slots * PageSize
    /\ reply = Reply("none", <<>>)
    /\ life = "opening" /\ holds = {}

\* Opening acquires what the store needs.
Open ==
    /\ life = "opening" /\ life' \in {"opening", "open"}
    /\ holds' \in SUBSET {"file", "fd"}
    /\ UNCHANGED <<content, room, reply>>

Put(k, b) ==
    /\ life = "open"
    /\ \E n \in 1 .. Len(b) + 1 :
          /\ Takes(b, n)
          /\ \/ /\ n * PageSize <= room
                /\ room' = room - n * PageSize
                /\ content' = [x \in DOMAIN content \cup {k} |->
                                  IF x = k THEN b ELSE content[x]]
                /\ reply' = Reply("stored", <<>>)
             \/ /\ n * PageSize > room
                /\ reply' = Reply("MemoryError", <<>>)
                /\ UNCHANGED <<content, room>>
    /\ UNCHANGED <<life, holds>>

Get(k) ==
    /\ life = "open"
    /\ reply' = IF k \in DOMAIN content THEN Reply("body", content[k])
                ELSE Reply("KeyError", <<>>)
    /\ UNCHANGED <<content, room, life, holds>>

\* Opening fails, or the store is closed.
End ==
    /\ life \in {"opening", "open"} /\ life' = "ended"
    /\ holds' = {}
    /\ UNCHANGED <<content, room, reply>>

Next ==
    \/ Open \/ End
    \/ \E k \in Keys : Get(k) \/ \E b \in Bodies : Put(k, b)

Spec == Init /\ [][Next]_abstractVars
=============================================================================
