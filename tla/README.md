# Iris, in TLA+

This directory is a verification development for the Iris actor runtime
(`src/src/*.rs`): TLA+ models of its stateful parts, TLC runs that check them on
small instances, and theorems that TLAPS proves for every value of the
constants. Each definition that models code carries its source lines in
`PROJECT.json` under `map`.

## 1. The system

A `Runtime` owns a slab of pids, a table of mailbox senders, a global
supervisor, a map of path supervisors, a registry of names and paths, timers and
a network manager. Everything runs on one multi-threaded tokio runtime.
The tables are `DashMap`s: single operations are atomic, sequences of them and
iterations are not, and there is no common lock.

| part | code | state it keeps | model |
|---|---|---|---|
| slab allocator of pids | `pid.rs` | entries with generation and occupancy, a free list; one mutex | `Pid`, `DiscoveryProofs` |
| registry of names and paths | `registry.rs` | one map | `Registry`, `DiscoveryProofs` |
| addressing: `send_named`, `send`, `stop`, `wait` | `lib.rs` | mailbox table | `Discovery`, `DiscoveryProofs`, `MCDiscovery` |
| resolve protocol | `network.rs` | a connection and a handler per call | `Discovery`, `DiscoveryProofs` |
| mailbox | `mailbox.rs` | two unbounded channels, a shared counter, a deferred queue | `Mailbox`, `MailboxSpec`, `MCMailbox`, `MailboxProofs` |
| actor loop | `lib.rs` (spawn variants) | none of its own | `Mailbox!LoopSpec` |
| exit path of an actor | `lib.rs` (spawn variants) | mailbox table; calls the supervisors, frees the pid, sends Exit | `Supervisor` |
| supervisors, global and of paths | `supervisor.rs`, `lib.rs` | children, links, restarting marks, errors; restart tasks | `Supervisor`, `SupervisorProofs`, `SupervisorCalmProofs`, `MCSupervisor` |
| timers | `lib.rs` | a counter, a table of cancel channels, a task per timer | `Timers`, `TimersProofs` |
| remote sends | `network.rs` | a pool of connections, a writer task and a bounded channel each; a handler at the peer | `PeerPool`, `NetworkProofs` |
| remote monitor, ping | `network.rs` | one task: failures, back-off | `Monitor`, `NetworkProofs` |
| observed actors | `lib.rs`, `py.rs` | a vector of messages under a mutex | `Observed`, `ObservedProofs`, `MCObserved` |
| buffers | `buffer.rs`, `py.rs` | one map; capsules in Python | `Observed`, `ObservedProofs` |
| Python push actors | `py.rs` | GIL worker pool, dedicated threads and their counter, behaviour cells | `ReleaseGil`, `ReleaseGilProofs` |
| Python mailboxes, `join` | `py.rs` | none of their own | cancelled receives of `Mailbox`; `PollAlive` of `Discovery` |
| configuration, Node bindings, Python package | `lib.rs`, `node.rs`, `iris/__init__.py` | single values | not modelled |

How the parts meet: an actor's task receives from its mailbox until the mailbox
is closed or its handler ends. Its wrapping task then removes the mailbox, calls
`notify_exit` of the global supervisor and of every path supervisor that has the
pid as a child, frees the pid, takes the pid's links and sends `Exit` to the
linked actors. `notify_exit` starts a restart task, or one per child, which
calls a factory that spawns an actor. A remote monitor that gives up on a node
calls `stop` and `notify_exit` for its pid from outside. Names, stale pids and
remote answers lead callers to pids whose slot may have a new owner. In the
models, `Discovery` composes the slab, the registry, the mailbox table and the
resolve server (it extends `Pid` and `Registry`). The other meeting points are
shared by name: `Supervisor` has the monitor's two calls as `MonitorDown` and the
exit path's calls as its own steps, `Monitor` ends with the same two calls, `Pid`
supplies the fact that a pid is used once, which `Supervisor` takes for granted,
and `Mailbox` the delivery of an `Exit` that was sent.

## 2. The modules

Properties of a module are at its end, each with a comment. Mutants, small
deviations of one definition each that a run must notice, stand right before the
definition they deviate from and are marked as such.

**`Pid`** (`pid.rs`). `entries` and `free_list` are the fields of
`SlabAllocator`; `AllocateReused`, `AllocateNew` and `Deallocate` are its
methods, `is_valid` the query. All calls are made under one mutex, so a method
is one step. A pid is the number `generation * IdxMod + index` and is split by
division, as the code shifts and masks. `GenMod` and `IdxMod` stand for 2^32.
`frees` and `tickets` are history: how often a slot was freed and which
allocations were made.

**`Registry`** (`registry.rs`). `names` is the map; `register`, `unregister` and
`resolve` are single operations on it. `norm`, `matcher` and the two listings
translate the string handling on names that are sequences of characters. A
listing iterates and is not atomic in the code; the property about it is stated
for the map at rest.

**`Discovery`** (`lib.rs`, `network.rs`, `py.rs`). A node and one caller, which is
in the node's process or on another node. Actors are spawned (slot and mailbox
under the slab's mutex) and end in the two steps of the exit path that matter
here, the removal of the mailbox and the release of the slot. Names are bound
and unbound by anyone at any time. The caller looks a name up, by `resolve` or by
`resolve_remote`, and later sends to the pid it got or stops it; or it waits for
a pid. A remote call is one step per write or read: connect and header, the
check of the name's length (behind the header, as in the code), the name, the
answer. The handler's steps mirror it, with a limit of its own. Every one of
them may fail or time out, and the node may restart, which empties its tables
and starts its slab anew. A reference is a pid together with the identity of the
actor it was issued for, which only the properties look at; `strays` records
each use that reached somebody else, `seen` the bindings of the name asked for
during a call.

**`Mailbox`** (`mailbox.rs`, the loops in `lib.rs`, timeouts in `py.rs`). A step
is one operation on shared state. Senders count, push and, when the receiver is
gone, take the count back; dropping a sender drops its two channel ends one
after the other. The receiver's program counter `rpc` follows `recv`, `try_recv`
and `selective_recv`: the look into the stash, the try on the system channel,
the biased `select!` (system first, then user), the pending state and its
wake-up, and the decrement after a message has left the channel. A pending call
may be dropped (`Cancel`), as the timeouts of the Python mailbox do. The
receiver's work on its private stash is joined to the shared operation next to
it. `LoopSpec` restricts the receiver to what the runtime's actors do: `recv`
until `None`, then drop. There system messages may come for ever: `Recount` makes
the history forget those that were returned, so that `MaxSys` bounds how many are
told apart and not how many are sent.

**`MailboxSpec`** is what `Mailbox` promises: two queues, and calls that take the
oldest message they accept out of one of them in a single step, or nothing. A
message carries its number in the order of acceptance, so that a queue is a set.
`Mailbox` implements it under the mapping `Promise`: the user queue is the user
messages of the stash, of the receiver's hand and of the channel, the system
queue those of the stash and of the other channel.

**`Supervisor`** (`supervisor.rs`, exit path in `lib.rs`). Every operation on
`children`, `links`, `restarting` and the mailbox table is a step of its own.
`phase` is where an actor and its wrapping task are, `call` the `notify_exit` of
the exit path and of the monitor, on each supervisor, `tasks` the restart tasks
with their attempts. Supervisor 0 is the global one, the others are objects in
`path_supervisors`, which may be created, filled and removed (`mount`) while an
exit path iterates over them: the iteration meets what is there all along
(`visit`) and may meet what is added meanwhile. Links exist in the global one
only, since `Runtime::link` writes only there.
Whoever removes a link list leaves in `cleaning` the peers whose lists it still
has to clean, one step each. The iteration over `children` in a RestartAll has a
beginning and an end, and may or may not meet what came or went in between;
marks are set one at a time. The tasks of a wave are spawned in one step, which
loses nothing, since a spawned task need not run. `half` holds the calls from
outside that are between two map operations, any number at once. A behaviour starts from one of
the `Scenarios`: which specs the first actors have, their links, who is
monitored, which calls may come from outside, and the bounds. `owed` and
`missed` are history.

**`Timers`** (`lib.rs`). Callers take an id, insert the entry and spawn the task;
the task sleeps, sends, and removes the entry; `cancel_timer` removes the entry
and fires the channel under the table's lock. The `select!` there is not biased:
with both branches ready either is taken. Delays are not numbers; a delay
elapses at any moment. A task ignores what its send returns, so that the target's
life is not part of the state.

**`PeerPool`** (`network.rs`). One peer. `task` is the `send_remote` call of each
message: pool lookup, connect, insert, hand-over to the connection's channel,
and after a failed hand-over one retry that first removes the pool's entry,
whatever it is. A writer task moves frames to the wire and, when it fails or its
channel is closed and empty, removes the pool's entry, whatever it is. The peer's
handler reads frames, and may time out. A write after the peer has closed is
taken once by the kernel and lost; the next one fails. A write to a peer that does
not read may also time out at the writer; the frames before it stay on the wire
and are read. That the TCP connection breaks is external to the code and marked
so in the map.

**`Monitor`** (`network.rs`). The loop of one monitor task: local liveness check,
sleep, probe, count, back-off, and after `Threshold` failures in a row `stop` and
`notify_exit`. The node goes up and down freely.

**`ReleaseGil`** (`py.rs`, `spawn_py_handler`). `actor` follows each call: the
`fetch_add` on the thread counter, the comparison with the limit, the retraction
or the spawn of a thread, the pool. Methods called from Python hold the GIL, so
that spawn calls do not overlap each other, while threads end beside them. A
loop takes a message (swaps first) and hands it to the actor's thread, to the
pool, or executes it; an executor takes the GIL, then the behaviour's lock,
calls, and releases both. A callback may let go of the GIL once, as `time.sleep`
or I/O in it does. `Stop` closes the mailbox, `Finalize` shuts the interpreter
down. `taken` and `ran` are history. GIL, interpreter and what a callback does
are external.

**`Observed`** (`lib.rs`, `buffer.rs`, `py.rs`). Python threads allocate buffers,
send them, drop their capsules, read all messages and start receives; the
actor's loop pushes what it receives into its vector; a receiver takes the
vector's mutex, asks its matcher about one message after the other under the
GIL, removes the first it accepts, or sleeps and tries again. The loop's `recv` is
two steps, the poll of `rx_sys` and that of `rx_user`. `stop` drops the only
sender; the loop is over when it polls `rx_sys` next, whatever is queued, and the
queue is dropped with the receiver (`LoopEnds`). A stop between the two polls
lets one more message through. Two locks are explicit, the mutex and the GIL. A thread may be made to hand the GIL over
whenever it runs Python. A future may be cancelled at any time, which takes
effect at its sleep.

## 3. The runs

| run | module, configuration | what it checks |
|---|---|---|
| `names` | `MCDiscovery`, `MCDiscovery.cfg` | four scenes: 2 slots and 6 actors without names; 2 slots, 3 actors and a name; 1 slot, a restart of the node and 3 actors with one name, or 2 actors with two. `FreeListExact`, `ValidMeansOwnAllocation`, `ZeroOnlyAfterWrap`, `StraysExplained`, `AnswerWasBound`, `ListingIsTree`; under fairness `CallsEnd`, `WaitReturns` |
| `mailbox` | `MCMailbox`, `MCMailbox.cfg` | 2 senders, 3 user messages of 2 kinds, 2 system messages, all calls. `CounterExact`, `SystemPassedOnce`, and `ImplementsQueues`, the refinement of `MailboxSpec` |
| `mailbox_loop` | `MCMailbox`, `MCMailboxLoop.cfg` | the actor loop under fairness. `StopEndsLoop`, `QueuedIsServed` |
| `sup` | `MCSupervisor`, `MCSupervisor.cfg` | eight scenarios: one-for-one with a monitor, one-for-all, a watched child in a group, a factory that fails for good, a child added from outside, one call that unlinks, removes or stops, two such calls, an actor under two supervisors. `NoLeakedMark`, `RestartOneDebounced`, `ChildrenNeverLost`, `NoDeadChild`, `RunningIsSupervised`, `UnsupervisedLinkedAreTold`, `LinksSettle` |
| `sup_live` | `MCSupervisor`, `MCSupervisorLive.cfg` | five scenarios under fairness, one of them with path supervisors that come and go: `SupervisionSettles` |
| `sup_waves` | `MCSupervisor`, `MCSupervisorWaves.cfg` | violated, see section 5. `AtMostOneRestart` |
| `sup_lost_exit` | `MCSupervisor`, `MCSupervisorLostExit.cfg` | violated, see section 5. `LinkedAreTold` |
| `timers` | `Timers`, `Timers.cfg` | 2 callers, 3 timers. `NoLeakedEntry`, `OneShotExact`; under fairness `CancelEnds` |
| `pool` | `PeerPool`, `PeerPool.cfg` | 3 messages, 5 connections of capacity 1, connects refused, up to 2 connections broken or timed out at either end. `AtMostOnce`, `NoDeadEntry`; under fairness `SendReturns`, `AcceptedIsDelivered` |
| `gil` | `ReleaseGil`, `ReleaseGil.cfg` | 2 actors of any kind, limit 1, pool of 2 workers, 2 messages and a swap. `CountExact`, `ThreadBound`, `SwapsInOrder`, `OnlyPoolSticks`; under fairness `TakenIsRun`, `ThreadIsReturned` |
| `monitor` | `Monitor`, `Monitor.cfg` | threshold 8. `NotifiedAfterStreak`; under fairness `MonitorEnds` |
| `observed` | `MCObserved`, `MCObserved.cfg` | 3 buffers of 2 kinds, 2 receivers whose matchers overlap, a Python thread, 2 calls of `get_messages` or `stop` or cancellations. `EachInOnePlace`, `OldestMatch`; under fairness `OnlyEmbraceSticks`, `MatchIsServed` |

What the less obvious ones say. `StraysExplained`: a message or a stop that goes to
an old pid reaches the actor it was issued for or nobody; the only exceptions are
a full lap of the generation and a restart of a remote node, whose slab issues
the same pids again. `AnswerWasBound`: an answer of `resolve_remote` may be old,
but the name had that binding at some moment of the call. `WaitReturns`: `wait`
does not return before the actor has ended, and does return, though the slot may
have a new owner by the next poll. `RunningIsSupervised`: supervision leaves no
running actor behind except the live siblings that a RestartAll wave replaces.
`SupervisionSettles`: again and again all exit paths are over, no pid is marked
and no dead actor is registered. `EachInOnePlace`: every buffer is in exactly one
of registry, mailbox, loop, vector, receiver, or at an end, and an end is a
return to Python, a free, a cancelled receive, a refused send or the end of a
stopped actor's loop; the last two happen only after the stop.
`QueuedIsServed`: a user message waits for ever only if the senders are gone or,
from some time on, every call of `recv` finds a system message.
`OnlyEmbraceSticks`: the lock inversion of section 5 is the only way in which
the actor, `get_messages` or a receiver can wait for ever.

**Bounds.** `names`: with two generations a slot wraps at its second free, so
that six actors in two slots try stale pids of the last lap and beyond; one slot
and three actors let a name, a held pid and a remote answer all be older than
the slot's owner; two starts of the node are one restart. Of the three names
callers ask for, one fits both limits, one only the caller's and one neither.
`mailbox`: two senders race on the counter; three user messages allow one to be
deferred, one to be passed and one to be queued behind; two system messages allow
one to be stashed and one in the channel. `sup`: two exits are the smallest
number at which exit paths, restart tasks and waves overlap, and the pids left
over let a wave of two children complete while a second one can start. Two calls
from outside around one exit are the smallest case in which a `link` meets a
`remove_child` that is still taking the same link back. The live scenarios have pids enough
for every restart they can ask for, so that no factory is stuck on the bound.
`pool`: three messages fill the channel of a connection that is replaced while a
third sender connects; five connections are more than three senders with one
retry can open under two failures. `timers`: three timers on two callers let a
third start overlap with the end of a first. `monitor`: a threshold (1 by
default) above the number of steps of the back-off, so that the delay reaches its
maximum and successes fall between failures. `gil`: with a limit of one the
second actor is refused, or admitted after the first one's thread has ended; two
workers are needed for tasks of one actor to overlap, and two messages around a
swap to tell their order. `observed`: three messages of which one is refused by a
matcher in front of two that both accept, two receivers that race for them, and
a stop that finds two messages queued.

**Deadlock** is not checked where the modelled program may come to rest:
all actors ended, all messages sent, all timers ended. It is checked for
`Monitor`, where the node can always flip.

**Fairness.** Weak fairness of the steps of tasks that tokio polls: an exit path,
a `notify_exit`, a restart task, an actor loop, a timer task, a writer, a handler,
a resolve call, `wait`. None of them waits for a lock that another step holds
across steps, and every socket operation has a timeout. In `ReleaseGil` callbacks
return, and since messages are finitely many nobody waits for the GIL for ever
unless it is stuck. In `Observed` two locks are held across steps, and the steps
that take them are strongly fair: a receiver sleeps between two attempts, so that
the mutex is free again and again, and Python hands the GIL over on request. A
thread that runs Python lets go of the GIL at last. A send or drop that has begun
finishes, since it does not wait. For `Timers` the elapse of a delay is fair, and
so is the cancel branch of the unbiased `select!`, which picks its first branch
at random at every poll. Nothing is assumed of the environment: when actors end,
what is called, when a node flips or restarts and when a connection breaks is
open. `Flaky` probes are not fair.

## 4. What is proved

`DiscoveryProofs` first proves of `Pid`, for every number of generations greater than one, every
positive number of slots and every bound on frees (`PidAssumption`):

- `TypeCorrect`: `Spec => []TypeOK`;
- `FreeListCorrect`: `Spec => []FreeListExact`;
- `StalePidsRefused`: `Spec => []ValidMeansOwnAllocation`;
- `NoSharedPid`: `Spec => []LivePidsDistinct`;
- `ZeroIsReserved`: `Spec => []ZeroOnlyAfterWrap`.

None of the last three is inductive: that a stale pid is refused depends on how
the generation in the slot came about. The inductive invariant `Inv` therefore
adds to the type and the free list that a slot's generation is
`(1 + frees) % GenMod` (`GenCountsFrees`), that a ticket carries the pid of its
slot at the count of frees it was issued at, that its count is not in the future
(`TicketsRight`), and that no two tickets have the same slot and count, and none
the present count of a free slot (`TicketsDistinct`). `Invariance` proves
`Spec => []Inv` with one lemma per action; the arithmetic is in `DivMod`,
`DivModUnique` and `SmallMultiple` (a number below `GenMod` that is a multiple of
it is zero), which give `SplitInvertsMake` (splitting a pid returns what it was
made from) and `SameGeneration` (two counts less than `GenMod` apart have equal
generations only if they are equal).

Its second half builds on this for `Discovery`, for every set of names, number of
actors and of restarts, and both limits:

- `NoUnexplainedStray`: `Discover => []StraysExplained`. `DiscInv` adds to the
  slab's `Inv` that every reference of the present start, bound to a name, held
  by the caller or in an answer, carries the pid of its allocation (`RefsRight`),
  and that every mailbox in the table belongs to a live allocation
  (`BoxesRight`). If a use then reaches a mailbox of another actor, two tickets
  have one pid, and the distance of their counts is a positive multiple of
  `GenMod` (`ReachExplained`).
- `AnswersWereBound`: `Discover => []AnswerWasBound`. `CallInv` says that while a
  call asks, the present binding is in `seen`, and what the handler found stays
  there.

Its last part is about `Registry`, for all names over any set of characters with
the slash in it (`RegistryAssumption`): `ListingsAreTree` proves
`Discover => []ListingIsTree`. What matters is where the last slash of a name is
and where its trailing slashes begin, and both exist because a non-empty set of
numbers has a least element, and a bounded one a greatest (`Least`, `Greatest`,
proved from the library's theorem that strict inclusion of finite sets is well
founded). `NormIsFront` and `ParentIs` say what the two operators return in those
terms, `StartsIs` and `BelowIs` what it is for a name to be below a prefix.

`ReleaseGilProofs` proves, for every finite set of actors, every limit, pool size
and number of messages (`ReleaseGilAssumption`):

- `CountIsExact`: `Spec => []CountExact`;
- `ThreadsAreBounded`: `Spec => []ThreadBound`;
- `SwapsAreOrdered`: `Spec => []SwapsInOrder`;
- `StuckInPool`: `Spec => []OnlyPoolSticks`.

The last two rest on `WorkInv`. Its first part, `PlaceInv`, says where work can
be: an executor works only for the actor it is assigned to (its loop, its thread,
or the pool), a channel holds messages of its own actor, the queue of the pool
messages of pooled actors, whoever reads a behaviour is in a callback of that
actor, and whoever is at a step with the GIL holds it. An actor that does not
share the pool therefore has one executor (`HomeWorks`), which cannot both wait
for the readers and be one: that is `StuckInPool`. The second part, `OrderInv`,
says that the messages such an actor has taken are those that have run, in
order, then the one its executor is at, then those in the channel, without a gap,
and that the behaviour is the one of the last swap before the next message
(`NextOk`). It is claimed only as long as the interpreter lives: afterwards
messages are dropped, and the callbacks that have run are all there will be. Each
action has a lemma for its effect on one actor's log (`OrderSent`, `OrderBegun`,
`OrderTaken`, `OrderReturned`, `OrderSwapped`, `OrderDropped`) and one that
applies it to all actors.

The bound is inductive only together with the exact count: a thread is admitted
because the counter, not the number of threads, is below the limit. `CountInv`
adds that threads belong to dedicated actors, so that an actor enters and leaves
the counted set once. Three steps change the counter (`CountAdd`,
`CountTakeBack`, `CountThreadEnds`), by one element of a finite set each; three
start an actor without changing it (`CountStarts`); the others leave the three
variables alone (`CountRest`, `CountFrame`).

`TimersProofs` proves, for every number of callers and timers
(`TimersAssumption`):

- `EntriesAreRemoved`: `Spec => []NoLeakedEntry`;
- `OneShotsAreExact`: `Spec => []OneShotExact`.

`Inv` ties the table, the cancel channels and the history of each timer to the
step of its task (`TimerInv`), and gives each timer that is being started to one
caller, before anybody else can know its id (`StartsInv`).

`ObservedProofs` proves, for all matchers and every number of receivers, threads
and messages (`ObservedAssumption`):

- `TakesOldest`: `Spec => OldestMatch`, an action property. `ScanInv` says what
  the mutex protects: a scan belongs to its holder, and nothing it has passed is
  a message it wants;
- `BufferIsInOnePlace`: `Spec => []EachInOnePlace`. `PlaceInv` says which ids
  are known, that neither the channel nor the vector holds one twice and no two
  receivers the same one, and that each known buffer is in one place; a step
  moves at most one buffer, from one place to another (`Moves`), but for the end
  of the loop, which moves all that are queued (`EndMoves`). The count of the
  holders is then one for each (`CountOnce`, with the library's theorems on finite
  sets). `StopInv` says that the loop ends only after the stop and leaves nothing
  in the mailbox, and that nothing is refused or dropped before. The assumption
  says of a scene that it starts with the buffers it names, each once.

`NetworkProofs` proves of `PeerPool`, for every number of messages, connections and failures
and every capacity of a connection's channel (`PeerPoolAssumption`):

- `PoolIsAlive`: `Spec => []NoDeadEntry`;
- `SentAtMostOnce`: `Spec => []AtMostOnce`.

The first is a conjunct of `Inv`. The second needs to know where a message can be:
the channels and wires of all connections have no message in common and none
twice (`ApartInv`), and a message is in one of them, or delivered, only after its
`send_remote` has returned Ok (`AcceptedInv`), so that the retry finds it nowhere.

It also proves, of `Monitor`, `StreakBeforeReport`:
`MonitorSpec => []NotifiedAfterStreak`, for every threshold and back-off
(`MonitorAssumption`). The two components share no state, and no names. The
invariant `StreakInv` is that the task's counter is the streak and that it stops
once it has reported.

`SupervisorProofs` proves `MarksAreTakenBack`: `Spec => []NoLeakedMark`, for every
number of actors and path supervisors and for every scenario
(`SupervisorAssumption`). `NoLeakedMark` alone is not inductive: a `notify_exit`
that is about to collect the children of a RestartAll group restarts the pid it
has marked only if the pid is still registered when the iteration ends. `Covers`
therefore says from which step on, and under which condition, a caller answers
for a mark; `Covered` adds the restart tasks, and the `unwatch` and
`remove_child` calls that have removed a child and not yet its mark. The child can
be taken away under a caller only by one of these, which is the heart of the
argument (`TaskMoves`, `MapMoves`). `TaskInv` keeps a task's name apart from
those of later calls: its `notify_exit` is over.

`SupervisorCalmProofs` builds on this and proves, under the same assumption, what
supervision achieves as long as nobody calls from outside (`ops = 0`), whatever
actors end, nodes are given up and factories fail:

- `RestartsAreDebounced`: `Spec => []RestartOneDebounced`;
- `DeadAreRemoved`: `Spec => []NoDeadChild`;
- `RunningAreSupervised`: `Spec => []RunningIsSupervised`;
- `ChildrenAreKept`: `Spec => []ChildrenNeverLost`.

`CalmStep` says that until the first such call every step is one of the runtime's
own. Each of these is described by what it does to the entries of the maps it
touches (`CallEffect`, `TaskEffect`, `PathEffect`), and the invariant `CalmInv` is
shown part by part from these effects:

- `HomeInv`: every supervised pid is registered, about to be registered by the
  task that spawned it, or the old pid of some task;
- `FreshInv`: a pid that a factory has returned and that is not inserted yet is
  known to nobody else, and to one task only: an insert overwrites nothing and
  is not undone by a removal;
- `DeadInv`: a pid whose exit was reported and that is registered, or about to
  be, is going to be removed by a caller that is past the debounce or by a
  restart task, unless it was registered too late (`missed`);
- `PathInv`: an exit path that is past a supervisor has been through its
  `notify_exit`, unless it did not find the supervisor;
- `KindInv`: a child with a factory is replaced only by tasks that spawn, so that
  the kind of a child does not change under a task;
- `TryInv`: a task that still tries has failed fewer than `max_attempts` times;
- `OneInv`, for scenarios without RestartAll: a mark belongs to one caller or to
  one restart task, and a task that has taken its mark back has removed the
  child. Without the second half the debounce would let a late report through.

`ChildrenNeverLost` is a count, and not inductive: three errors pay for a drop,
but they are made one by one, by several tasks in turn. `Enough` therefore counts
the children with a factory less those about to be removed, and keeps in store the
errors of the tasks that have not given up (`Tried`). Every step changes these
sets in one of six ways (`Balanced`, `Moves`), each of which leaves the sum where
it was or raises it (`BalancedStays`).

`MailboxProofs` proves, for every finite set of senders, every set of bodies and
matchers and every number of messages (`MailboxAssumption`):

- `MailboxImplements`: `Spec => ImplementsQueues`, the refinement of `MailboxSpec`;
- `SystemIsPassedOnce`: `Spec => SystemPassedOnce`;
- `CounterIsExact`: `Spec => []CounterExact`.

The order of the messages is spread over the stash, the receiver's hand and a
channel. `QueueInv` says that each of them is ordered by number for each kind,
that the stash is older than the hand and the hand older than the channel, and
that no number is beyond the count of accepted messages; a new message is then
the youngest of its kind, and moving the head of a channel to the back of the
stash changes neither queue (`DeferSystem`, `DeferUser`). `CallInv` says that a
call which has been through the stash has left nothing there that it wants: so
the first wanted message it meets in a channel is the oldest one (`StashOldest`,
`SystemOldest`, `HeldOldest`). Each action is shown to be one of a few effects on
the two queues (`StepEffect`), and each effect a step of `MailboxSpec` or a
stutter (`PromiseStep`). `PassedInv` adds that a `recv` under way has none of the
messages passed earlier left to meet, and `CountInv` counts with the library's
theorems on finite sets.

Only model-checked: the two link properties of `Supervisor` (`LinksSettle` and
`UnsupervisedLinkedAreTold`), which depend on what `SelectSeq` leaves of a list
and on the order a `CHOOSE` gives it, neither of which the provers can expand;
and all liveness.
Liveness under fairness stays with TLC, as does anything that needs `ENABLED` or a
`RECURSIVE` operator: these are outside what the prover supports. The library's
induction theorems cannot be used either, since they take an operator as a
parameter; where an argument needs induction over numbers it goes through `Least`.

## 5. Where the code and what is said of it differ

Two runs end in a violation; each is a short behaviour of the code.

- `sup_waves`: two children of a RestartAll group whose exits both pass the
  debounce before either marks the group are restarted by two waves. The comment
  says that the marks prevent redundant waves. `RestartOneDebounced` states what
  the debounce does guarantee.
- `sup_lost_exit`: the restart task of a supervised child can drop its links
  before the exit path reads them; a linked actor is then never sent the `Exit`.
  `UnsupervisedLinkedAreTold` states what holds.

Further behaviours the models show, for which the properties make an exception
that says so:

- the monitor asks the local slab whether the remote pid is alive
  (`network.rs:285`) and ends at once when it is not, before any probe, although
  `iris/__init__.py:247` says "Watch a remote PID; triggers local supervisor on
  failure." (`~valid` in `MonitorEnds`);
- a pid that a node issued before it restarted may name another actor of the
  restarted node (`restarted` in `StraysExplained`);
- a replacement that ends before it is registered stays registered dead, and the
  children of a path supervisor that was removed never hear of exits (`missed` in
  `NoDeadChild` and `SupervisionSettles`);
- a RestartAll wave does not stop the live siblings it replaces, and removes a
  watched child that still runs, because its factory returns the key that is
  removed next (the last disjunct of `RunningIsSupervised`);
- `link` checks neither pid, so that a link to an actor that has ended stays
  (`ops = 0` in `LinksSettle`);
- `cancel_timer` may return true for a one-shot whose message has been sent,
  because the entry is removed after the send (`OneShotExact` states the rest);
- a message accepted by `send_remote` is lost with the connection it was handed
  to, because the peer closes it, it breaks, or a write times out
  (`AcceptedIsDelivered`);
- `recv` serves a deferred system message before user messages that were deferred
  earlier; each kind keeps its own order (`ImplementsQueues` has two queues);
- a pool worker that applies a hot swap waits for the behaviour's lock with the
  GIL in its hands. When a callback of the same actor has let go of the GIL on
  another worker, both wait for ever, and with them the interpreter (`Stuck`;
  `OnlyPoolSticks` shows that only an actor that shares the pool can cause it);
- `get_messages` waits for the vector's mutex with the GIL in its hands, while a
  receiver that scans the vector needs the GIL for its matcher: neither goes on
  (`Embrace` in `OnlyEmbraceSticks` and `MatchIsServed`);
- `send_buffer` to an actor without a mailbox loses the buffer, a receive that is
  cancelled after it took a message loses the message, and `stop` loses what is
  queued: `recv` returns `None` as soon as `rx_sys` is closed, whatever `rx_user`
  holds (the ends of `EachInOnePlace`; `DropReceiver` and `LoopEnds`);
- `recv` takes system messages first, without a limit: a stream of them of which
  no call gets to the end starves the user channel (`Flooded` in
  `QueuedIsServed`);
- an `Exit` does not end the dedicated thread of an actor that goes on, whatever
  the comment at `py.rs:899` says: what is dropped there is a clone of the sender.

## 6. What is not modelled

- The configuration of the runtime: one assignment per setter. The models take
  the values as constants, so that a limit that is lowered while threads run, or
  a timeout that changes during a call, is not covered.
- Conversions: the bytes of the network protocol and their decoding, messages as
  Python and JavaScript objects, exit reasons and metadata. The Node bindings and
  the Python package consist of these and of calls that forward to `Runtime`.
- Time: delays, periods and back-off times are not numbers. A period of zero
  panics in `tokio::time::interval`; both built profiles abort on a panic, so
  that the state behind it, like that behind a panic in `handler(rx)`, is not
  observable there.
- Memory: who may still look at a buffer through a memoryview when it is sent or
  freed. `Observed` tracks the owner of a buffer, not views.
- `watch_path` is a listing followed by calls of `watch`, and
  `spawn_with_path_observed` a spawn followed by `register`; both parts are
  modelled, their sequence adds no lock and no check. `observers` entries are
  never removed, so that there is no step to model.
- The thread of a Python pull actor, which only calls a function.
- In `Supervisor` a pid is not reused; `Pid` and `Discovery` give the condition.

## 7. Open

1. A proof of `LinksSettle` and `UnsupervisedLinkedAreTold` for `Supervisor`, with
   the lists as recursive functions in place of `SelectSeq` and `CHOOSE`.
2. Limits that change while the runtime works.
