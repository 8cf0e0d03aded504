----------------------------- MODULE MessageBus -----------------------------
(***************************************************************************)
(* The mailboxes of gcos/ipc/message_bus.py.  A mailbox comes into being   *)
(* the first time anybody sends to it or receives from it, and lives until *)
(* drop_mailbox().  A message is represented by its sender (from_pid).     *)
(***************************************************************************)
EXTENDS Naturals, Sequences, Pids

CONSTANTS
    MailboxCap,   \* mailbox_capacity
    PipeTo,       \* PipeTo[a]: pipe_to, or NoAgent
    InputFrom     \* InputFrom[a]: input_from of a prompt with {INPUT}

ASSUME BusAssumption ==
    /\ MailboxCap \in Nat \ {0}
    /\ PipeTo \in [Agents -> Agents \cup {NoAgent}]
    /\ InputFrom \in [Agents -> Agents \cup {NoAgent}]

VARIABLES
    opened,     \* the keys of _mailboxes
    mailbox,    \* mailbox[a]: the messages waiting for a
    listening   \* agents for which a recv() waits on their present mailbox

busVars == <<opened, mailbox, listening>>

BusTypeOK ==
    /\ opened \subseteq Agents
    /\ listening \subseteq Agents
    /\ mailbox \in [Agents -> Seq(Agents)]

BusInit ==
    /\ opened = {}
    /\ mailbox = [a \in Agents |-> <<>>]
    /\ listening = {}
-----------------------------------------------------------------------------
\* recv(): the mailbox is created on demand before the wait begins.
Listen(a) ==
    /\ opened' = opened \cup {a}
    /\ listening' = listening \cup {a}
    /\ UNCHANGED mailbox

\* recv() returning a message.  A mailbox dropped during the wait and created
\* anew by a sender is another queue: the waiting recv() never sees it.
Receive(a) ==
    /\ a \in listening
    /\ mailbox[a] # <<>>
    /\ mailbox' = [mailbox EXCEPT ![a] = Tail(@)]
    /\ listening' = listening \ {a}
    /\ UNCHANGED opened

\* recv() timing out, which it does only on an empty mailbox.
ReceiveNothing(a) ==
    /\ mailbox[a] = <<>> \/ a \notin listening
    /\ listening' = listening \ {a}
    /\ UNCHANGED <<opened, mailbox>>

\* send(), not blocking: a full mailbox drops the message.
Send(from, to) ==
    /\ opened' = opened \cup {to}
    /\ mailbox' = IF Len(mailbox[to]) < MailboxCap
                  THEN [mailbox EXCEPT ![to] = Append(@, from)] ELSE mailbox
    /\ UNCHANGED listening

\* drop_mailbox() for every member of S.
Drop(S) ==
    /\ opened' = opened \ S
    /\ mailbox' = [a \in Agents |-> IF a \in S THEN <<>> ELSE mailbox[a]]
    /\ listening' = listening \ S
=============================================================================
