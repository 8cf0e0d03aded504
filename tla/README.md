# A TLA+ model of GCOS

GCOS (`src/gcos`) is a small "operating system for LLM agents": a kernel that
keeps agents in a process table, schedules them on worker threads or worker
processes, meters their LLM calls against one budget, pipes results between
them, pages their context and runs the code they write in a sandbox.  This
directory models its control in TLA+, checks it with TLC on small instances, and
proves its safety with TLAPS for instances of any size.

## 1. The system

| Component | State | Operations | Talks to |
|---|---|---|---|
| Agent control block (`kernel/pcb.py`) | state of an agent, its counters and wiring | `transition()` | written by workers and by `kill()` |
| Ready queue (`kernel/ready_queue.py`) | queue, in-flight count | put, pop, pop_best, task_done, drained test | workers, spawn, kill |
| Scheduling policies (`kernel/scheduler.py`) | none | FCFS, priority with aging, round robin | choose in the queue |
| OS quota (`kernel/quota.py`) | units left, ceiling | acquire, acquire_up_to, acquire_blocking, refund, topup | workers, summaries |
| Message bus (`ipc/message_bus.py`) | one bounded mailbox per PID | send, recv, drop | workers, kill, reap |
| Thread pool (`kernel/worker_pool.py`) | threads, stop event | _loop, _dispatch, _repark_waiting, _run_one_step | everything above |
| Step runners (`executor.py`, `agent_loop.py`, `coder.py`) | none of their own | one LLM call and what follows | worker, sandbox, pager |
| Process pool (`kernel/process_pool.py`) | registry of children | admit, fork, read result, reap, settle, kill_running | queue, quota, the operating system |
| Kernel facade (`kernel/kernel.py`, `process_table.py`, `process_tree.py`, `pid_alloc.py`) | process table, children lists | spawn, kill (cascade), reap_terminal, topup, swap_in, shutdown | everything |
| Context pager (`memory/`) | pages of an agent, swap files | assemble with three eviction policies, swap_in | quota, LLM client |
| Throttle (`backend/batcher.py`) | token bucket, semaphore, statistics | chat | LLM client |
| Shared-memory ring (`osprims/shm.py`) | header and bytes in shared memory | send, recv | two processes |
| Real-process scheduler (`osprims/preempt.py`, `osprims/realproc.py`, `osprims/cgroup.py`) | child processes, flags of what was signalled, groups | stop, cont, kill, rr_order, cpu_share | the operating system |
| Demand-paged store (`osprims/vmem.py`) | a mapped file, references to bodies in it | store, page_out, read, close | the operating system |
| seccomp, eBPF (`osprims/`) | kernel objects | thin wrappers | the operating system |
| Sandbox (`sandbox/`) | cached Docker probe | policy gate, make_runner, run_python | coder |
| Front ends (`api/`, `shell/`, `web/`, `main.py`), evaluation (`eval/`) | none | call the kernel | kernel |

What is hard here.  Every worker, every front-end thread and every child process
runs at the same time as the others, the agent control block has no lock, and
`spawn()` and `kill()` are many critical sections long.  A kill may strike between
any two of them; the mailbox of a consumer may be full, dropped or never filled; a
call may fail after its unit of quota was taken; a child may die with its result
half written; an operator may restore pages while the pager waits for a summary; a
child may end between two signals of the scheduler, and the Docker daemon between two
calls of a runner.
`PROJECT.json` lists these hazards at the lines where they bite, with the
properties that would notice.

What makes it correct, component by component: an agent is run by one worker at a
time; the in-flight count is exact, so that `wait_idle()` can be believed; the
budget is conserved; no agent exceeds its own quota; no agent is forgotten; a
killed agent stays dead; only successful results are piped, once; every agent
ends; shutdown ends every worker; every child is reaped and only live children are
signalled; no turn of a conversation vanishes except where LRU drops it, summaries
are paid for, and the pager stops; the throttle keeps to its bounds; the ring is a
first-in first-out stream and the page store a dictionary; aging gets an agent past the stream of
higher priorities that strict priority would starve it by; real processes run one at a time, in turn,
and are all reaped; code runs unprotected only by consent, and a sandboxed run ends, tells the
truth about its program and leaves nothing behind.

## 2. Modules

| Module | Models | Extends |
|---|---|---|
| `Pids` | agents, threads, the wiring between agents (constants) | |
| `Pcb` | `pcb.py`: states, `transition()` | `Pids` |
| `ReadyQueue` | `ready_queue.py`, `scheduler.py` | `Pcb` |
| `Quota` | `quota.py` | |
| `MessageBus` | `message_bus.py` | `Pids` |
| `WorkerLoop` | what the loops of both pools share: pop, receive, re-park, re-queue, pipe, and the conditions of a step | all of these |
| `WorkerPool` | the thread pool: `_dispatch`, the quota gate, the step | `WorkerLoop` |
| `KernelApi` | `kernel.py`, process table and tree, for the threads that call them | `WorkerLoop` |
| `Kernel` | composition of `WorkerPool` and `KernelApi` | both |
| `ApiProps`, `KernelProps` | properties of either kernel, and of the thread-backed one with its fairness | |
| `ProcessPool` | the process pool, its children, pipes and registry | `WorkerLoop` |
| `ProcessKernel`, `ProcessProps` | its composition with `KernelApi`, and its properties | |
| `ContextPager` | `memory/`, for one agent | `Quota` |
| `Batcher` | `batcher.py` | |
| `Aging` | the Priority policy of `scheduler.py` over time | |
| `KeyValueStore`, `PageStore` | the abstract dictionary; `vmem.py`, which implements it | |
| `Frames`, `ByteStream`, `ShmRing` | a frame; the abstract byte stream; `shm.py`, which implements it | |
| `RealProcess` | `preempt.py`, `realproc.py` and the groups of `cgroup.py` that it makes | |
| `Sandbox` | `make_runner()`, `sandbox_info()` and both runners of `sandbox/` | |
| `ListProofs`, `ApiProofs` | lemmas about lists, and about what both kernels share | |
| `KernelProofs`, `ProcessProofs`, `PagerProofs`, `RealProcessProofs`, `OsprimsProofs`, `ServiceProofs` | theorems | the modules they are about |
| `MCKernel`, `MCProcess`, `MCRealProcess`, `MCRing` | instances for TLC | |
| `MCMemory` | instance of `ContextPager`, `ShmRing` and `PageStore` together | |
| `MCServices` | instance of `Batcher`, `Aging` and `Sandbox` together | |

### State and actions of the kernel

A variable carries the name of the field it stands for where TLA+ allows it:
`state` (the PCB's `state`), `queue` and `inFlight`, `remaining` and `total`,
`mailbox`, `table`, `stop`.  `pc` says where a worker is in `_loop`/`_dispatch`, `cpc` where a
caller is in `spawn()`, `kill()` or `shutdown()`.  One action is one critical
section, or one stretch of code between two points at which another thread can be
noticed.  The comment over `WorkerLoop`, `WorkerPool`, `KernelApi` and
`ProcessPool` lists the points.

* `transition()` tests for a terminal state and assigns later.  With
  `PreemptInTransition = TRUE` a thread switch between the two is possible: the
  thread holds a *pending write*, which `CompleteWrite` carries out.  With FALSE
  the two are one step.  CPython allows the switch; runs with FALSE say what holds
  when it does not happen; the other runs, and the theorems that do not name it,
  make no such assumption.
* An LLM call succeeds, fails or times out, freely; an agent may be killed during
  the call.  A message is its sender, a prompt or an answer is nothing at all.
* `put()` tests for a terminal agent and `transition()` tests again: a kill between the
  two makes the transition refuse, and the zombie is appended all the same.
* Bounds on what happens at all: `Killable` has the agents that `kill()` is called on,
  `Ops` the other operations called, where `"late"` stands for calls after `shutdown()`
  has returned, and `Failures` the states in which a failed LLM call ends an agent.
* A child's report is whole or cut short: the worker treats an empty one and one it
  cannot decode alike.
* `Quantum = 0` stands for no quantum; the code's cap of 10,000 steps per slice is
  then out of reach of every bound.
* Priority scheduling may select any queued agent in the kernel's modules: its key
  depends on the clock.  `Aging` has the key itself.
* `fork()` or `pipe()` may fail after the reservation (`ForkMayFail`).  Nothing catches
  the exception: `task_done()` runs in the `finally` clause, then the thread is gone, while its
  agent stays RUNNING and its reservation taken.
* Some things are one step although the code takes several: the registration, the
  link to the parent and the WAITING state of `spawn()`, of which no other thread can
  act on a part; the loop over mailboxes at the end of `kill()`; the opening of a pipe, with
  admission; a child's last close and its exit.
* A `recv()` that waits on a mailbox which is dropped meanwhile never sees a later
  message: the worker's `listening` flag says whether its mailbox is still the
  current one.
* Time: a deadline may expire at any point where the code looks at the clock.
  `MaxPolls` bounds how often a consumer is re-parked.
* `StepCap` stands for the 64 steps a child may make.  The runs keep it above every
  agent's quota.  Above it, a child would report RUNNING and its agent would be
  neither re-queued nor finished.

### The other components

`ContextPager` keeps the pages of one conversation with the turns each page tells
of, the policy loop of `assemble()`, the three policies, the swap files, which
survive `Reboot`, and `swap_in()`, which appends page by page at any time.  The pinned prompt
exists in conversations of many turns, as in the evaluation harness and the tests.
`Batcher` counts time in ticks of one over the rate, so that tokens are whole.
`ShmRing` splits `send()` and `recv()` at their accesses to shared memory; the
header is written in one step, so torn headers would only add behaviours: with
overlapping calls (`Overlap = TRUE`) only a violation is claimed.
`PageStore` keeps the mapped bytes and the references, and has one stage per step of `__init__()`
that may fail.  `Aging` counts time in ticks of one over the aging rate, so that an agent gains one
point per tick; it has one worker, steps that last up to `StepTicks` ticks, and agents that come
again and again without end.
`RealProcess` has the children's side (they work, exit, are killed by the system) and
the parent's: `fork()`, the freezing of all children, the rotation with its
polls, the competition in cgroups, and the cleanup, each signal a step of its own.
`Sandbox` has one action per call to the daemon or to the system.  A call to the daemon may fail
although it was carried out, and the history variable `lost` notes that one did; the clock is
counted in ticks, of which `TTL` are the five seconds of the cached probe.

## 3. Runs

| Run | Shows | Bounds |
|---|---|---|
| `KernelRace` | single dispatch, conserved budget, per-agent quota, with thread switches inside `transition()`; the types of the kernel | 2 workers, 1 caller, a multi-step producer and its consumer, a ceiling of 2 or 3 units; kill, top-up, reap, shutdown |
| `KernelAtomic` | no agent forgotten, killed agents stay dead, only DONE is piped and once, only documented transitions | 2 workers, a chain of three agents (multi-step, coder, plain), priority scheduling, quantum 1, 2 units |
| `KernelLive` | every agent ends and leaves the queue; shutdown ends every worker | 2 workers, a multi-step producer, the consumer it is the parent of, and a third agent that competes for the 2 units; kill of the producer and shutdown at any point |
| `KernelAbsorbing` | *violation*: a terminal state is overwritten | thread switches inside `transition()` |
| `KernelKillReap` | *violation*: a kill that another request's `reap_terminal()` interrupts leaves a descendant alive | 2 callers, parent and child |
| `ProcessSafety` | the same safety for the process pool, the exact in-flight count, and: the registry names the worker's own child, idle means reaped, the budget is never under-charged | 2 workers, 2 processes, 2 or 3 units, kill, reap, top-up, failing forks |
| `ProcessLive` | every agent ends and shutdown ends every worker, with agents put back for want of quota, children killed at any point, and children that inherit each other's pipes | 2 workers, 2 processes, 2 agents, 1 unit and a top-up to 2; kill of one agent and shutdown at any point, no failing fork |
| `Memory` | pager: nothing vanishes, the pinned prompt stays, order is kept, the context fits or nothing can be done, summaries are paid, `assemble()` ends; ring: calls that do not overlap implement a byte stream; page store: it implements a dictionary | pager: 10 turns, three policies, 1 swap-in, reboots; ring: 11 bytes, messages of 0 to 8 bytes, 6 messages; store: 2 keys, 4 slots of 2 bytes, bodies of 0 to 3 bytes, 2 page-outs |
| `RingOverlap` | *violation*: overlapping calls lose or repeat messages | 3 messages |
| `RealProcess` | one child runs at a time, in turn, and in one block when not preempted; only unreaped children are signalled, none is left, and the call returns | 3 children, rotation, convoy and competition for shares |
| `Services` | throttle: concurrency and token bounds, exact statistics, every call returns; scheduler: only rivals that have aged themselves can starve an agent; sandbox: the status page is at most one `TTL` old, no unprotected run without consent, honest verdicts, nothing left behind, every run ends | throttle: 3 threads, 2 calls each, 2 permits, 2 tokens; scheduler: agents of priority 5, 8 and 9 that keep coming, up to 4 steps of up to 3 ticks (30 seconds), bonus up to 8; sandbox: 1 coder, 2 runs, every setting, a daemon that comes and goes freely, `TTL` of 1 tick |
| `AgingStarves` | *violation*: priority 0 starves among agents of priority 9, though each stays for a short time only | one such agent among two, up to 2 steps of up to a tick |

`Memory` and `Services` each join three components that share no variable and never call each
other.  A behaviour of all three is an interleaving of one behaviour of each, so an invariant of one of them, a
refinement by it or a liveness property of it holds of the whole exactly if it holds of the
component alone: the instances let one component move while the others stay in their initial
states, which explores the sum of their state spaces and not the product.

Why these bounds are enough to meet the interesting cases.  Two workers and two
agents are what every race of dispatch needs, a third agent gives a kill a
grandchild and the queue a choice.  The budget is below what the agents want
together, so that refusal, blocking, refund and top-up all happen.  A multi-step
agent with a quantum below its steps is preempted and re-queued.  A mailbox of one
message is full when the consumer is slow.  The ring's size is a multiple of no frame, so that
prefix and payload wrap at every byte and the ring gets exactly full.  The pager's floors
make each policy both work and fail.  The bodies of the page store are empty, part of a page, a page and
more than a page, and fill the store exactly or not; with two keys one is stored again next to the
other.  Two agents of high priority are as many as it takes for the stream never to dry up while one of
them runs; their four steps of three ticks outlast the cap of the bonus, so that they too can earn all of it.  Three children let the rotation's list shrink before,
at and after its index.  Coders share nothing but the daemon, which may do to one whatever it
does to all, so one is enough; its second run meets what the first left.  Workers (and processes) are symmetric where
no liveness is checked.

The two liveness runs of the kernels share the work.  `KernelLive` has the agents that wait for
input, whose code the process pool inherits (`_repark_waiting`, the deadline, the pipe), and a budget that one
agent wants while another holds it.  `ProcessLive` has what only the process pool does.  Its agents are not
wired, since a producer and its consumer would never have children at the same time, and its
budget is such that with one unit an agent is put back, and after the top-up two children run at once and hold
the ends of each other's pipes.  The runs of the process pool have no thread switch inside
`transition()`; the theorems about it that allow one are listed in section 4.

`CHECK_DEADLOCK FALSE` appears everywhere because the instances really come to an
end: agents, turns, messages and calls are finite in number, and a kernel without
work waits.

### Fairness

`KernelProps` and `ProcessProps` assume weak fairness of each worker, of each API
call that is under way and of each child process: the operating system schedules
every runnable thread and process, LLM calls and `recv()` have timeouts, and locks are held
for a few instructions.  Every step of a thread changes its point, its pending write or the list it
works through, and these are the subscripts.  Nothing makes an operator spawn, kill or top up.
`EveryAgentFinishes` excuses a kernel that is shut down, and, agent by agent, one for whom nothing but
quota is missing when the budget is gone for good (it may then wait for ever, by design): with threads,
when every unit of the ceiling went to a call that was made; with processes, when nothing is left, no worker has
a reservation of which some could come back, and the units went to calls, or in part to the reservation of a
child that was killed before it reported.  A unit that is lost, or held and not given back, excuses nobody.  `ContextPager` assumes that the
worker inside `assemble()` goes on, `Batcher` that time passes and threads run,
`Aging` that steps end (the LLM call has a timeout), that an idle worker picks, and that time goes on:
strong fairness of `Elapse`, since a tick is disabled again and again by picks, which take far less than a
tick, and no infinite number of steps fits between two ticks; that anybody arrives is not assumed;
`RealProcess` that the parent goes on and that a `waitpid()` for a child that was killed returns,
and `Sandbox` that a thread inside `run_python()` goes on, since each of its calls has a
timeout; that a program ends by itself is not assumed.

### Disagreements between comments and code

Four have a run and an entry under "findings":

* a terminal state is not absorbing, when a thread switch hits `transition()` (`KernelAbsorbing`);
* `kill()` does not reap "all its descendants" when `reap_terminal()` of another request removes
  the target from the table before the descendants are looked up again (`KernelKillReap`);
* the ring is not safe between two processes (`RingOverlap`);
* aging does not keep agents from starving.  One of priority 0 never gets past agents of priority 9, because
  the bonus stops at 8 (`AgingStarves`).  One of the default priority 5 starves too, among agents of priority 8 and 9 that stay
  for several steps: their bonus grows from their creation on, while they wait and while they run, and 9 + 4 is as much as
  5 + 8.  TLC finds this as well, when `NoStarvation` is checked with the bounds of `Services`.  What aging does
  achieve is `OnlyAgedRivalsStarve`: new arrivals alone, however high, starve nobody whose priority plus 8
  is above theirs.

Others were met while modelling; most are described under "hazards", with notes:

* `kill()` dequeues only its target: reaped descendants stay in the ready queue until a
  worker skips them (`ready_queue.py:42` says a finalized agent must never be there).
* A producer that finishes after its consumer was killed creates the consumer's
  mailbox anew, and nothing frees it before `reap_terminal()`.
* `kill()` does not reach a grandchild either when the agent between was reaped from the table before.
* A worker of the process pool whose `fork()` fails is gone for good; its agent stays RUNNING, holds its
  reservation, and `wait_idle()` reports an idle system (`ready_queue.py:15` says there is no such window).
* With one worker and Priority a consumer that polls for its input may keep a producer of lower priority
  from running until its own deadline.
* `MmapPageStore.store()` of a key that exists takes new slots; the old ones are lost until `close()`.
* A consumer takes the first message of its mailbox, whoever sent it.
* `kill_running()` sends its signal after it released the lock: the child may have been
  reaped, and its PID reused.
* A kill between fork and registration of a child signals nothing.
* A process-pool worker that put an agent back for want of quota may pipe its result a second time.
* In the default pager stack LRU and swap have the same floor, so that neither swap nor
  summaries ever happen.
* Swap files are named by PID alone and survive the kernel, so `swap_in()` restores pages of an
  earlier boot's agent, and a second `swap_in()` restores the same pages again.
* The throttle lets almost twice the rate pass in one second.
* `rr_order()` forks and freezes outside its `try`: a `fork()` that fails leaves the
  earlier children unreaped.
* The Docker runner uses neither `--rm` nor `timeout(1)`, which its comment shows; a
  container whose creation was not acknowledged, or whose removal failed, stays, and its
  program may go on.
* `sandbox_info()` reports the subprocess runner where `make_runner()` refuses because it
  is to fail closed.
* The subprocess runner leaves its directory when the script cannot be written.

## 4. Proofs

Every safety property that a passing run checks, and both refinements, are theorems: they hold
for any sets of agents, callers and (finite) workers, any wiring, budget, capacity, list of policies
and number of children, not only in the instances of section 3.  Each proof finds an inductive
invariant, most of which TLC checked first on those instances, and shows for one action after the other that
it is kept.

### The two kernels

`ApiProofs` has what both backends share: the operations of PCB, queue, quota, mailboxes and kernel API, and
for each invariant the part that the calls of the API disturb.  `KernelProofs` and `ProcessProofs` add
the steps of their workers.

| Property | Thread-backed (`KernelProofs`) | Process-backed (`ProcessProofs`) | Invariant |
|---|---|---|---|
| `TypeOK` | `TypeCorrect` | `ProcessTypeCorrect` | `ApiInv`, with `Grip`: a worker at a point where it uses its PCB has one; with processes also `Forked`: it knows its child's PID |
| `SingleDispatch` | `NoDoubleDispatch` | `ProcessNoDoubleDispatch` | `PutInv`: at which points a `put()` may still be to come; `BornInv`: what is queued, held or registered was spawned, so a fresh PID is nowhere yet |
| `InFlightExact` | `InFlightCorrect` | `ProcessInFlightCorrect` | itself, by cardinalities |
| `QuotaConserved` | `BudgetConserved` | (`BudgetNeverUnderCharged` instead: a child whose result is lost is charged for its whole reservation) | `UnitInv`: at which points a worker holds a unit |
| `AgentWithinQuota` | `QuotaPerAgent` | `ProcessQuotaPerAgent` | `CallsInv`, `CostInv`: calls counted and calls under way |
| `NoAgentLost` | `NothingForgotten` | `ProcessNothingForgotten` | `LifeInv`: at each point of a worker or a caller the states the agent in its hand can have |
| `OnlyLegalTransitions` | `LegalEdgesOnly` | `ProcessLegalEdgesOnly` | the same |
| `SlainAreDead` | `KillReachesAll` | `ProcessKillReachesAll` | `KillInv`: until `reap_descendants()` looks again, the victims are still found under the target |
| `PipedOnceByDone` | `PipesCarryDone` | (false: see below) | `SentInv`: an agent whose result was sent is DONE and in nobody's hands; `BoxInv`: no mailbox has a result twice or one its owner received |
| `RegistryNamesOwnChild`, `DrainedMeansReaped` | | `RegistryCorrect`, `IdleMeansReaped` | `ChildInv`: each child has one worker that has yet to wait for it, and the registry agrees with the worker |
| `BudgetNeverUnderCharged` | | `BudgetNeverOutspent` | `JobInv`, `ResultInv`: what a child has used is within its reservation, and a result says what was used; `Due`: what each worker still owes |

The first five rows hold with thread switches inside `transition()`.  The rest have hypotheses, each a
condition under which the runs check the property too:

* `~PreemptInTransition` for the rows from `NoAgentLost` to `PipedOnceByDone`; `KernelAbsorbing` shows what
  happens without.
* `NoReapAmidKill` for `SlainAreDead`: `reap_terminal()` is never called, or there is only one caller.
  `KernelKillReap` shows what happens without.
* `CapSuffices` for the process-backed kernel: the step cap of a child is above an agent's quota or its
  bound on tool calls.  In the code the cap is 64, the default quota 10 and the bound 8 or 20.

`PipedOnceByDone` is not claimed of the process pool: a worker that put an agent back for want of quota may
pipe its result a second time (section 3).

`Descendants` is written as the least set that contains the children of all its members, which is what the
walk over the children lists computes, so that it can be reasoned about without recursion.
The sum of the units reserved by workers in `BudgetNeverUnderCharged` is the cardinality of the set `Units(Outstanding)` of such
units, for the same reason.

### The memory manager

`PagerProofs`, for any list of policies: `TurnsAreKept` (`NothingVanishes`), `TurnsStayInOrder`
(`InTurnOrder`), `EverySummaryPaid` (`SummariesPaid`), `LoopGivesUpLast` (`FitsOrStuck`) and the types.
The folds that remove a batch of pages are shown to have an explicit solution (`Removing`, `Adding`), so that
what they return is known for lists of any length.  The pages chosen by last access are a bijection of
ranks to positions (`FS_Injection` for its being onto); `PagerInv` says that last accesses grow along the
list behind the summaries while nobody swaps in, from which it follows that a batch is a stretch of neighbours, and that is
why a summary put at the place of the first keeps the order of turns.  `LoopGivesUpLast` assumes
`LargeBatches`: every summarising policy takes at least two pages (the default is 4), since the code
takes a batch of one for a success that freed nothing, and goes on to the next policy.

### The real-process scheduler

`RealProcessProofs`, without further hypotheses: `OneChildAtATime`, `SignalsReachChildren`, `NoChildLeft`,
`TurnsAreFair` and the types.  `RealInv` says at each point of `rr_order()` and `cpu_share()` which
children exist, which of them are frozen and what the flags of the call know of them.  `TurnInv` says that those
before the index of the rotation had one slice more than those from it on, and that the blocks of
children that run to their end do not come back.

### The operating-system primitives

`OsprimsProofs`, for any capacity, page size, keys, bodies and messages:

* `StoreIsDictionary`: the page store implements `KeyValueStore`.  `StoreInv` says that every reference lies
  below `nextOff`, so what `store()` writes, from there on, touches no other body, and rounding up to slots
  (`RoundUp`) covers the body.  `FaultCountersSound` relates the counters to the pages that are out.
* `RingIsStream`: the ring implements `ByteStream` when calls do not overlap (`~Overlap`; `RingOverlap` shows
  what happens when they do), and `RingFifo`: what is received is a prefix of what was sent.  `RingInv`
  says that some list of offsets cuts the bytes between tail and head into the frames of the messages
  sent and not received, in their order.  Two offsets less than a capacity apart have different cells
  (`CellsDiffer`), so `send()` writes none of these bytes; the four bytes of the length add up to the length
  (`FrameProperties`), so `recv()` finds the end of the frame.  Only the last step of each call is a step of
  the stream.

### Throttle and sandbox

`ServiceProofs`:

* `ThrottleTypeCorrect`, `NeverOverConcurrent` and `RateLimited` for any finite
  set of threads, any rate, burst and number of permits.  `ThrottleInv` says that every permit is in the
  semaphore or with a thread between acquisition and release, that the counter is the number of threads
  between the two updates of it, and that those all have permits, which is why the peak is bounded.
  `BucketInv` ties the tokens granted in a window to those in the bucket: what was granted and what the bucket
  could hand out now is never more than a full bucket and what dripped in during the window.
* For any set of coders, any number of runs and any time to live:
  `NoWeakRunWithoutConsent` (`ConsentInv`: the weak runner was chosen by consent, and a thread that cleans up has
  given up on its program or has its exit code), `VerdictsHonest` and `RunsLeaveNothing` (`RunInv` follows one
  run from its start to its verdict), `PostureIsFresh` (`ProbeInv`: a probe that is still used was true of the
  daemon at the tick it was made), and the types.

### Assumptions, and what stays with TLC

Apart from the hypotheses named above the proofs assume only what the modules state as `ASSUME`: threads
are workers and callers, which are disjoint, workers are finitely many, bounds are naturals; rate, burst,
permits, page size and capacities are positive; keys and client threads are finitely many; bodies and
messages are sequences, and the length of a message fits in the four bytes of its prefix (`struct.pack("<I")`
raises otherwise); the batch of a policy is positive (with zero the summariser would index an empty list).

`ListProofs` has the induction that several proofs use: a set of naturals that is not empty has a least
element, from which statements about lists of any length follow.

Only model-checked are the liveness properties (`EveryAgentFinishes`, `ShutdownStopsWorkers`, `AssembleEnds`,
`CallReturns`, `EveryCallReturns`, `OnlyAgedRivalsStarve`, `EveryRunEnds`): fairness and ENABLED are out of the
prover's reach.  `Aging`, whose one property is of that kind, has no theorem.

## 5. Left out, and the plan

Not modelled: regular expressions of the policy gate, prompts, tools and parsing
(data); the options and the output of containers; the LLM client (one request; its result or
exception is a free choice of the models); HTTP and the dashboard (input and output; the requests
that reach the kernel are the callers of `KernelApi`); the trace log (a bounded deque under one
lock, on which nothing decides); seccomp and eBPF wrappers (system calls without a protocol of
their own); argument parsing and benchmarks; a second `start()`; `run_rr_quantum()`, which nothing calls.

Left out of operations that are modelled:

* an interrupt of `rr_order()` or `cpu_share()` outside the waits of their `try` blocks: in the loop that freezes the
  children, or between a `fork()` and the `append()` that remembers its PID, it would leave children behind;
* two threads inside `sandbox_info()` at once, which write the cached probe and its time without a lock;
* an exception after an LLM call was counted, which ends the agent in ERROR as a failed call does, but with
  the call counted;
* a client factory of the summariser that raises after the unit was acquired: the unit would not come back; the
  executors always pass a client.

Next, in this order:

1. Theorems: safety lemmas behind the liveness properties, such as a bound on how often an agent can be
   passed by in `Aging` by rivals that have not outgrown it, and a measure that every round of `assemble()` decreases.
2. A restart of the kernel over the swap files of the one before, as a run of its own.
3. The forked child's inherited locks, of which `ring_log.py` resets its own.
