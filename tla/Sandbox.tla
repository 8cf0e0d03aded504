------------------------------ MODULE Sandbox ------------------------------
(***************************************************************************)
(* gcos/sandbox: the choice of a runner, the two runners, and the posture  *)
(* that the status page reports, against a Docker daemon that comes and    *)
(* goes.  Each coder thread makes a runner and runs one program in it.     *)
(*                                                                         *)
(* The daemon may stop answering between any two calls, and a call may     *)
(* fail although the daemon has done what it asked for (the client waits   *)
(* two seconds for an answer).  What a program prints is left out, and     *)
(* with it the calls that fetch the logs, whose failure is ignored.        *)
(***************************************************************************)
EXTENDS Naturals, FiniteSets

CONSTANTS
    Coders,    \* the threads that run programs
    TTL,       \* _DOCKER_PROBE_TTL_S, in ticks
    MaxRuns    \* bound: programs a thread runs

ASSUME SandboxAssumption == TTL \in Nat /\ MaxRuns \in Nat

VARIABLES
    preference,   \* GCOS_SANDBOX
    failClosed,   \* GCOS_SANDBOX_FAILCLOSED
    daemon,       \* does the Docker daemon answer?
    cached,       \* _DOCKER_AVAILABLE: yes | no | none
    age,          \* ticks since _DOCKER_PROBE_TS, as far as they matter
    shown,        \* what the status page shows, until the clock ticks
    at,           \* at[c]: idle | connect | start | wait | kill | remove
    runner,       \* runner[c]: the runner of c's last run
    killed,       \* killed[c]: killed
    code,         \* code[c]: exit_code, as ok | failed | unknown
    result,       \* result[c]: how c's last run ended, for its agent
    program,      \* program[c]: none | running | ok | failed | killed
    present,      \* present[c]: does c's container, or its directory, exist?
    runs,         \* runs[c]: programs c has begun
    lost,         \* history: runs in which a call failed after the start
    seen          \* history: seen[n]: what the daemon was, n ticks ago

daemonVars == <<daemon, seen>>
statusVars == <<cached, age, shown>>
runVars == <<at, runner, killed, code, result, program, present, runs, lost>>
settings == <<preference, failClosed>>
vars == <<settings, daemonVars, statusVars, runVars>>

Answer(up) == IF up THEN "yes" ELSE "no"

\* The posture that sandbox_info() derives from the cached probe.
Posture(available) ==
    CASE preference = "subprocess" -> [runner |-> "subprocess", isolation |-> "WEAK"]
      [] available = "yes" -> [runner |-> "docker", isolation |-> "STRONG"]
      [] preference = "docker" -> [runner |-> "unavailable", isolation |-> "NONE"]
      [] OTHER -> [runner |-> "subprocess", isolation |-> "WEAK"]

Nothing == [runner |-> "none", isolation |-> "none"]

\* Every variable has a value of its domain.
TypeOK ==
    /\ preference \in {"auto", "docker", "subprocess"}
    /\ failClosed \in BOOLEAN /\ daemon \in BOOLEAN
    /\ cached \in {"yes", "no", "none"}
    /\ age \in 0 .. TTL + 1
    /\ shown \in [runner : {"docker", "subprocess", "unavailable", "none"},
                  isolation : {"STRONG", "WEAK", "NONE", "none"}]
    /\ at \in [Coders -> {"idle", "connect", "start", "wait", "kill", "remove"}]
    /\ runner \in [Coders -> {"none", "docker", "subprocess"}]
    /\ killed \in [Coders -> BOOLEAN]
    /\ code \in [Coders -> {"ok", "failed", "unknown"}]
    /\ result \in [Coders -> {"none", "ok", "failed", "timeout", "raised"}]
    /\ program \in [Coders -> {"none", "running", "ok", "failed", "killed"}]
    /\ present \in [Coders -> BOOLEAN]
    /\ runs \in [Coders -> 0 .. MaxRuns]
    /\ lost \subseteq Coders
    /\ seen \in [0 .. TTL -> SUBSET BOOLEAN]

Init ==
    /\ preference \in {"auto", "docker", "subprocess"}
    /\ failClosed \in BOOLEAN
    /\ daemon \in BOOLEAN
    /\ seen = [n \in 0 .. TTL |-> {daemon}]
    /\ cached = "none" /\ age = 0 /\ shown = Nothing
    /\ at = [c \in Coders |-> "idle"]
    /\ runner = [c \in Coders |-> "none"]
    /\ killed = [c \in Coders |-> FALSE]
    /\ code = [c \in Coders |-> "unknown"]
    /\ result = [c \in Coders |-> "none"]
    /\ program = [c \in Coders |-> "none"]
    /\ present = [c \in Coders |-> FALSE]
    /\ runs = [c \in Coders |-> 0]
    /\ lost = {}
-----------------------------------------------------------------------------
(***************************************************************************)
(* The surroundings: the daemon, the clock, the programs                   *)
(***************************************************************************)
Flap ==
    /\ daemon' = ~daemon
    /\ seen' = [seen EXCEPT ![0] = @ \cup {~daemon}]
    /\ UNCHANGED <<settings, statusVars, runVars>>

Tick ==
    /\ age' = IF age <= TTL THEN age + 1 ELSE age
    /\ seen' = [n \in 0 .. TTL |-> IF n = 0 THEN {daemon} ELSE seen[n - 1]]
    /\ shown' = Nothing
    /\ UNCHANGED <<settings, daemon, cached, runVars>>

\* A program comes to its end by itself.
Ends(c) ==
    /\ program[c] = "running"
    /\ \E e \in {"ok", "failed"} : program' = [program EXCEPT ![c] = e]
    /\ UNCHANGED <<settings, daemonVars, statusVars, at, runner, killed, code, result,
                   present, runs, lost>>
-----------------------------------------------------------------------------
(***************************************************************************)
(* sandbox_info()                                                          *)
(***************************************************************************)
\* Mutant of Stale: the boot-time value is kept.
StalePinned(refresh) == refresh \/ cached = "none"

Stale(refresh) == refresh \/ cached = "none" \/ age > TTL

\* sandbox_info().  The test, the probe and the assignment of the two globals
\* are one step: two status requests at once may both probe, and the later
\* assignment wins, which is not modelled.
SandboxInfo(refresh) ==
    /\ cached' = IF Stale(refresh) THEN Answer(daemon) ELSE cached
    /\ age' = IF Stale(refresh) THEN 0 ELSE age
    /\ shown' = Posture(cached')
    /\ UNCHANGED <<settings, daemonVars, runVars>>
-----------------------------------------------------------------------------
(***************************************************************************)
(* make_runner()                                                           *)
(***************************************************************************)
Goto(c, p) == at' = [at EXCEPT ![c] = p]

\* The exception leaves the runner; the agent ends in ERROR.
Raise(c) ==
    /\ Goto(c, "idle")
    /\ result' = [result EXCEPT ![c] = "raised"]

\* A new call: its locals are fresh, and what an earlier run left behind is
\* not this one's any more.
MakeRunner(c) ==
    /\ at[c] = "idle" /\ runs[c] < MaxRuns
    /\ runs' = [runs EXCEPT ![c] = @ + 1]
    /\ killed' = [killed EXCEPT ![c] = FALSE]
    /\ code' = [code EXCEPT ![c] = "unknown"]
    /\ program' = [program EXCEPT ![c] = "none"]
    /\ present' = [present EXCEPT ![c] = FALSE]
    /\ lost' = lost \ {c}
    /\ \/ /\ preference = "subprocess"
          /\ runner' = [runner EXCEPT ![c] = "subprocess"]
          /\ Goto(c, "start")
          /\ UNCHANGED result
       \/ /\ preference # "subprocess" /\ daemon
          /\ Goto(c, "connect")
          /\ UNCHANGED <<runner, result>>
       \/ /\ ~daemon
          /\ preference = "docker" \/ (preference = "auto" /\ failClosed)
          /\ Raise(c)
          /\ UNCHANGED runner
       \/ /\ ~daemon /\ preference = "auto" /\ ~failClosed
          /\ runner' = [runner EXCEPT ![c] = "subprocess"]
          /\ Goto(c, "start")
          /\ UNCHANGED result
    /\ UNCHANGED <<settings, daemonVars, statusVars>>

\* Mutant of Connect: without a connection the weak runner is used.
ConnectOrFallBack(c) ==
    /\ at[c] = "connect"
    /\ runner' = [runner EXCEPT ![c] = IF daemon THEN "docker" ELSE "subprocess"]
    /\ Goto(c, "start")
    /\ UNCHANGED <<settings, daemonVars, statusVars, killed, code, result, program,
                   present, runs, lost>>

\* DockerSandboxRunner(): the daemon that answered the probe may be gone, which
\* the client may find out only when it is used.
Connect(c) ==
    /\ at[c] = "connect"
    /\ \/ /\ runner' = [runner EXCEPT ![c] = "docker"]
          /\ Goto(c, "start")
          /\ UNCHANGED result
       \/ /\ ~daemon
          /\ Raise(c)
          /\ UNCHANGED runner
    /\ UNCHANGED <<settings, daemonVars, statusVars, killed, code, program, present,
                   runs, lost>>
-----------------------------------------------------------------------------
(***************************************************************************)
(* run_python() of either runner                                           *)
(***************************************************************************)
Able(c) == runner[c] = "docker" => daemon

Start(c) ==
    /\ at[c] = "start" /\ Able(c)
    /\ program' = [program EXCEPT ![c] = "running"]
    /\ present' = [present EXCEPT ![c] = TRUE]
    /\ Goto(c, "wait")
    /\ UNCHANGED <<settings, daemonVars, statusVars, runner, killed, code, result, runs,
                   lost>>

\* Nothing was started; or the container was made, and perhaps started, and the
\* call failed; or the directory was made and the script could not be written.
StartFails(c) ==
    /\ at[c] = "start"
    /\ \/ UNCHANGED <<program, present, lost>>
       \/ /\ Able(c)
          /\ \/ runner[c] = "docker" /\ program' = [program EXCEPT ![c] = "running"]
             \/ UNCHANGED program
          /\ present' = [present EXCEPT ![c] = TRUE]
          /\ lost' = lost \cup {c}
    /\ Raise(c)
    /\ UNCHANGED <<settings, daemonVars, statusVars, runner, killed, code, runs>>

\* Mutant of Wait: the exit code of a program that is still running.
WaitGuesses(c) ==
    /\ at[c] = "wait" /\ Able(c)
    /\ code' = [code EXCEPT ![c] = IF program[c] = "failed" THEN "failed" ELSE "ok"]
    /\ Goto(c, "remove")
    /\ UNCHANGED <<settings, daemonVars, statusVars, runner, killed, result, program,
                   present, runs, lost>>

\* container.wait() or subprocess.run() returns.
Wait(c) ==
    /\ at[c] = "wait" /\ Able(c)
    /\ program[c] \in {"ok", "failed"}
    /\ code' = [code EXCEPT ![c] = program[c]]
    /\ Goto(c, "remove")
    /\ UNCHANGED <<settings, daemonVars, statusVars, runner, killed, result, program,
                   present, runs, lost>>

\* Mutant of WaitFails: no timeout is given, and only the connection can fail.
WaitFailsNever(c) ==
    /\ at[c] = "wait" /\ ~Able(c)
    /\ killed' = [killed EXCEPT ![c] = TRUE]
    /\ Goto(c, "kill")
    /\ UNCHANGED <<settings, daemonVars, statusVars, runner, code, result, program,
                   present, runs, lost>>

\* It raises: the time is over, or the connection is (treated the same).
WaitFails(c) ==
    /\ at[c] = "wait"
    /\ killed' = [killed EXCEPT ![c] = TRUE]
    /\ Goto(c, "kill")
    /\ UNCHANGED <<settings, daemonVars, statusVars, runner, code, result, program,
                   present, runs, lost>>

Killed(c) == IF program[c] = "running" THEN [program EXCEPT ![c] = "killed"] ELSE program

\* container.kill(), whose failure is ignored; subprocess.run() kills its child
\* before it raises.
KillProgram(c) ==
    /\ at[c] = "kill"
    /\ \/ Able(c) /\ program' = Killed(c) /\ UNCHANGED lost
       \/ runner[c] = "docker" /\ UNCHANGED program /\ lost' = lost \cup {c}
    /\ Goto(c, "remove")
    /\ UNCHANGED <<settings, daemonVars, statusVars, runner, killed, code, result,
                   present, runs>>

\* SandboxResult: killed_by_timeout goes before the exit code.
Verdict(c) == IF killed[c] THEN "timeout" ELSE code[c]

\* Mutant of Cleanup: only after a normal end.
CleanupUnlessKilled(c) ==
    /\ at[c] = "remove"
    /\ present' = [present EXCEPT ![c] = killed[c]]
    /\ result' = [result EXCEPT ![c] = Verdict(c)]
    /\ Goto(c, "idle")
    /\ UNCHANGED <<settings, daemonVars, statusVars, runner, killed, code, program, runs,
                   lost>>

\* finally: container.remove(force=True), whose failure is ignored, or rmtree.
Cleanup(c) ==
    /\ at[c] = "remove"
    /\ \/ /\ Able(c)
          /\ present' = [present EXCEPT ![c] = FALSE]
          /\ program' = IF runner[c] = "docker" THEN Killed(c) ELSE program
          /\ UNCHANGED lost
       \/ /\ runner[c] = "docker"
          /\ lost' = lost \cup {c}
          /\ UNCHANGED <<present, program>>
    /\ result' = [result EXCEPT ![c] = Verdict(c)]
    /\ Goto(c, "idle")
    /\ UNCHANGED <<settings, daemonVars, statusVars, runner, killed, code, runs>>
-----------------------------------------------------------------------------
RunPython(c) ==
    \/ Connect(c) \/ Start(c) \/ StartFails(c) \/ Wait(c) \/ WaitFails(c)
    \/ KillProgram(c) \/ Cleanup(c)

Next ==
    \/ Flap \/ Tick
    \/ \E refresh \in BOOLEAN : SandboxInfo(refresh)
    \/ \E c \in Coders : Ends(c) \/ MakeRunner(c) \/ RunPython(c)

Spec == Init /\ [][Next]_vars

\* A thread in run_python() goes on: every call it makes has a timeout.
Fairness == \A c \in Coders : WF_vars(RunPython(c))

FairSpec == Spec /\ Fairness
-----------------------------------------------------------------------------
\* The posture on the status page is that of a moment within the last TTL,
\* however often the page is asked for and the daemon comes and goes.
PostureFresh ==
    shown # Nothing =>
        \E n \in 0 .. TTL : \E up \in seen[n] : shown = Posture(Answer(up))

\* A program runs without isolation only where the operator asked for it, or
\* left the choice open and did not ask to fail closed: a daemon that goes away
\* between the probe and the connection opens no way round.
WeakOnlyByConsent ==
    \A c \in Coders : at[c] # "idle" /\ runner[c] = "subprocess" /\ program[c] # "none" =>
        preference = "subprocess" \/ (preference = "auto" /\ ~failClosed)

\* An agent is told "ok" or "failed" only of a program that came to this end by
\* itself, and "timeout" never of one that still runs, unless the daemon did not
\* answer: also when the end and the timeout come together.
VerdictHonest ==
    \A c \in Coders : at[c] = "idle" =>
        /\ result[c] \in {"ok", "failed"} => program[c] = result[c]
        /\ result[c] = "timeout" /\ c \notin lost => program[c] # "running"

\* A run leaves neither a container nor a directory nor a running program,
\* whatever it raised, unless a call to start or to remove it got no answer.
NothingLeftBehind ==
    \A c \in Coders :
        at[c] = "idle" /\ c \notin lost => ~present[c] /\ program[c] # "running"

\* Every run_python() ends, with a result or an exception, also when the program
\* never does and the daemon stops answering.
EveryRunEnds == \A c \in Coders : at[c] # "idle" ~> at[c] = "idle"
=============================================================================
