-------------------------------- MODULE Pids --------------------------------
(***************************************************************************)
(* The PIDs of one kernel boot.  PidAllocator.next() never returns a PID   *)
(* twice, so an agent is identified with its PID, and spawning takes a PID *)
(* that was not taken before.                                              *)
(***************************************************************************)
CONSTANTS
    Agents,    \* the PIDs that may be spawned
    NoAgent    \* None where a PID is optional

ASSUME PidAssumption == NoAgent \notin Agents
=============================================================================
