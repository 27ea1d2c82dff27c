# A verification project for smolmesh2

TLA+ modules that model smolmesh2 (the Rust node in `src/rust`, the .NET node
in `src/dotnet`), TLC configurations that check them on small instances, and
proofs that TLAPS checks for every instance.

## 1. The system

A node is one process. It keeps TCP links to some other nodes, announces its
own addresses to all of them, passes on what others announce, learns from each
announcement over which link an address is reached, and relays IP packets over
those links.

| Part | Code | State | Operations |
|---|---|---|---|
| Duplicate filter | `seen_packets.rs`, `Protocol.cs` | a hash set and a FIFO queue of at most 16384 fingerprints | `add` |
| Link table and routes | `all_senders.rs`, `Routing.cs` | registered senders, address -> (timestamp, sender) | add, remove or clean, learn, send to all, send to the route's link |
| Main loop | `main.rs`, `MeshNode.cs` | queue of packets read (unbounded in Rust, 1024 in .NET) | drop stale, drop duplicate, tracers (commands 0-2), IP packets (3), probes and replies (4, 5, only .NET) |
| Link | `legacy_tcp.rs`, `LegacyTcp.cs` | per session: a channel of outgoing packets, two keystreams, a frame in progress | dial, accept, handshake, send, receive, time out, end, dial again |
| Async runtime | `leo_async.rs` | task queue, `scheduled` flags, wake pipe, timers, poll registrations, slots of helper threads | spawn, wake, yield, sleep, one round of `run_forever`, poll, read, write |
| Trace | `MeshNode.cs`, `Control.cs` | open traces and their replies | start, handle a probe, handle a reply, end |
| System routes | `linux_tuntap.rs`, `mac_tuntap.rs`, `MeshNode.AddRoutesAsync`, `Tun.cs` | addresses already added | set the interface up, run a command per address |
| TUN devices | `linux_tuntap.rs`, `mac_tuntap.rs`, `UnixTun.cs`, `WindowsTun.cs` | the device | read, write, fail |
| Node lifecycle | `MeshNode.RunAsync`, `Program.cs` | the running tasks | start all, stop all when one ends, exit |
| Ciphers and hashes | `gimli.rs`, `legacy_tcp.rs`, `Crypto.cs` | a state of twelve words, a place in the block | permute, absorb, hash, tag, encrypt, decrypt |
| Addresses | `ip_addr.rs`, `raw_speck.rs`, `Protocol.cs` | | derive from a name, parse, print |
| Rest | configuration, logging, control HTTP, random numbers | | read once, or I/O |

How they interact. In the Rust node everything runs as tasks of one thread;
tasks talk through unbounded channels, and the link table belongs to one task
that is fed by a mailbox. Blocking commands run in helper threads that wake a
task. In the .NET node tasks run on a thread pool, and the link table is behind
one lock. Both read packets from a link in a receive task, which puts them in
the main loop's queue together with the link they came from.

What is hard about it:

* announcements flood over all links at once, in any order, in a mesh with
  cycles, while links come and go (routes must not form loops, floods must
  end, routes must recover);
* a session's end is noticed at different times by its two ends, by the link
  table and by routes that use it;
* the runtime's wake protocol runs on several threads without a common lock;
* frames, batches, partial writes and failures at any byte of a link;
* timeouts that race with data, probes that outlive the trace that sent them;
* one thread for everything in the Rust node: who does not yield stops the rest;
* descriptors whose numbers are used again while old registrations remain;
* commands of the operating system that fail, devices that fail, a node that
  stops with work going on in all its tasks;
* two implementations that must compute the same bytes.

The list of hazards, each with the line where it bites and the properties that
would catch it, is in `PROJECT.json`.

## 2. The modules

| Module | What it is |
|---|---|
| `DuplicateFilter` | what a duplicate filter promises, over the full history |
| `SeenPackets`, `MCSeenPackets` | the bounded filter of the code, its instance |
| `SeenPacketsProofs` | its invariants and the refinement, proved |
| `Mesh`, `MCMesh` | many nodes: sessions, floods, routes, relaying, restarts |
| `MeshProofs` | no routing loops, no routes over removed peers, IP packets not multiplied, tracers passed on once, sessions used as `Session` allows, proved |
| `Session` | what the mesh relies on in a link: implemented by `Link`, used by `Mesh` |
| `Link`, `MCLink` | the two ends of one link over several sessions |
| `LinkProofs` | packets are received in order, strangers exchange nothing, a link is a `Session`, proved |
| `Cipher`, `Gimli` | one direction of a link as encrypted bytes; the permutation and what is built from it |
| `CipherProofs` | both implementations make the same tags, messages are decrypted, proved |
| `Executor`, `MCExecutor` | the Rust runtime with its helper threads |
| `ExecutorProofs` | no wake lost or doubled, nobody forgotten, timers on time, proved |
| `Poller` | descriptors, their numbers and the poll registrations |
| `Turns` | who holds the thread of the Rust node, and for how long |
| `Trace`, `MCTrace` | the trace command over fixed route tables |
| `TraceProofs` | the rows of a hop table are right, proved |
| `SystemRoutes`, `MCSystemRoutes` | setting up the interface and adding system routes |
| `Lifecycle`, `MCLifecycle` | the .NET node from start to exit |
| `NodeAddress` | a node's address from its name |
| `NodeProofs` | about the last three: no command in vain; nothing outlives the device, the exit code is right; both implementations find the same address, proved |
| `MCRuntime` | one instance of `Turns` and one of `Poller` |
| `RuntimeProofs` | tasks of `Turns` are woken once, tasks of `Poller` are registered, proved |
| `MCBytes` | one instance of `Cipher` and one of `NodeAddress` |

How they fit together. `Mesh` sees a link as sessions with two queues;
`Session` states that contract, `UsesSessions` says that `Mesh` keeps to it and
`ImplementsSession` that `Link` provides it. `Link` sees bytes as units and
takes encryption for the identity; `Cipher` shows that it is, whatever pieces
the bytes are cut into. `Executor` has waking and sleeping with one direction
of readiness; `Poller` has the registrations in both directions, with sockets
that come and go; `Turns` takes both for granted and asks about the thread;
`SystemRoutes` uses what `Executor` says of a helper thread that panics.

`MCRuntime` and `MCBytes` each put two modules that share no state into one
run. Their variable `view` is chosen at the start and says which of the two
moves; the other keeps its initial state, so the states add up and do not
multiply. A property of the one that moves is stated there under that
condition where it does not hold of a component that stands still.

A definition that has a mutated twin next to it is split out so that the
property that depends on it can be shown to fail without it: the twins
(`ForgetNothing`, `LearnAnyAge`, `PokeNothing`, ...) are used by no behaviour.

### SeenPackets

`hashset`, `deque` are the fields of the struct. One action for each branch of
`add`. `answer` and `accepted` are history: the last answer and every
fingerprint ever accepted. The hash is a constant function that need not be
injective. `ImplementsDuplicateFilter` instantiates `DuplicateFilter` with
`log <- accepted`: a packet is refused exactly when its fingerprint is one of
the last `Capacity` accepted.

### Mesh

`Conns` are TCP sessions, each opened at most once; a transport that
reconnects uses the next one. `conn[n][c]` is the state of n's end, so one end
may have finished a session that the other still uses. `out[n][c]` is
everything between n's decision to send and the other end's read: the sender
channel and the socket. When an end is over, a prefix of what it queued is
still on its way and the rest is lost. `incoming[n]` is the main loop's queue.

| Code | Action |
|---|---|
| sender registered after or during the handshake | `Open` |
| session over, Rust: only the channel closes | `CloseRust` |
| session over, .NET: `Routing.Remove` | `CloseDotNet` |
| cleaner task | `CleanBrokenSenders` |
| announce loops | `Announce` |
| packet read from the TUN interface | `TunRead` |
| receive task | `Receive` |
| main loop | `DropStale`, `DropDuplicate`, `HandleTracer`, `Deliver`, `Relay` |
| process dies and starts again | `Restart` |

The mailbox of `all_senders_task` is not a queue of its own: a request that
waits there is the same, for all other nodes, as a packet that waits in the
channel of the link. What the Rust and the .NET node do differently (removing
routes, refusing a removed peer, the bounded queue) depends on `n \in DotNet`.
Packets are well formed. The three commands for tracers do the same here and
are one. A TUN interface may hand over the same bytes twice in a millisecond,
at one node or at two: such packets differ only in `copy`, which is history
that no node sees. The duplicate filter compares `Bytes`, so it drops the
second of them wherever it remembers the first.

`LoopFree` leaves out nodes that are `Forgetful`: a restarted node, and a .NET
node that has removed a peer and with it the timestamps of its routes. Such a
node can accept an announcement older than one it has forgotten from a
neighbour whose route leads back to it. The duplicate filters cut short any
packet in such a loop, and `RoutesRecover` says that the next announcement
repairs it. It is about all nodes, forgetful ones included: once an address has
been announced after the last change of a link, in the end no group of connected
nodes keeps an IP packet for it among its members.

The loop takes more than twenty steps from a fresh mesh, so `mesh_recovery`
starts on the way to it (`RelinkedInit`). Node a announces its address to c; c
queues the tracer for b, and the link between a and c ends; a links to b and
announces again, and b and c learn that; then a loses the link to b, where
the old tracer has still to be read. The state is one that `Mesh` reaches from
`Init` with `InitUp = {"ac", "bc"}` in twenty steps (TLC finds it when the
negation of `RelinkedInit`'s assignments is given as an invariant). Three steps
later b, a .NET node, has removed its peer, has read the old tracer and has a
route to c, whose route leads to b.

### Executor

Tasks of four kinds stand for the tasks of the node: `Main` (spawns, then takes
messages from a channel and yields after each), readers (a socket under a
timeout), sleepers (the announce and clean loops), resolvers (blocking calls in
helper threads). The executor's round is the actions `TakeTimers`,
`WakeTimer`, `TakeQueue`, `BeginTask`, the polling of each kind, `EnterPoll`,
`LeavePoll`, `WakeReader`, `EmptyPipe`. A helper thread takes one step per
access to shared state: result, waker, flag, queue, pipe. `Tick` lets time pass
in `poll()` and, at most `Slack` ticks in all, while tasks run.

How late a timer may be. `run_forever` computes how long `poll()` may wait
before it moves the timers registered in this round to the store
(`leo_async.rs:425-428`). A sleep that was registered in this round is
therefore not seen: `poll()` may wait for the next timer in the store, which
may be the 30 seconds of a read, or, with none there or one that is due
already, for a second. `Lateness(t)` is what this allows for a timer of t:
the longest wait less the timer's own duration, or a second. The instance has
a read timeout longer than a sleep, so that it happens.

### Link

The byte stream is a sequence of units: a handshake, or length, bytes and MAC
of a frame. Lengths are taken modulo `LenMod`. Which ends are Rust and which
.NET is chosen at the start (`config`); they differ in when they register a sender, in how many packets they
encode for one write, in what they do with a packet that is too long, and in
what they clean up at the end. `Finish` is the end of a session at one end from
whatever cause; the causes are a wrong key, a wrong MAC, a packet too long for
.NET, end of file, a reset, and a read that times out. Reads must time out on a
session that was silently cut (`Cut`), and may on any other, when the peer was
silent for 30 seconds; this counts as one of the failures, because on a session
that works announcements come every 5 to 10 seconds.

`ImplementsSession` maps what is in a queue, in a write that is going on, on
the wire and in a frame that is being read to the packets of the abstract
flight. A packet that is too long is one of them until the session ends
over it.

### Cipher and Gimli

A word is the set of the positions of its one-bits, so that exclusive or is the
symmetric difference. Both permutations are written as their code is: Rust
column by column, .NET a row at a time. `Cipher` is a sender in Rust and a
reader in .NET; the sizes of the pieces are chosen by each on its own.

### Poller, Turns

A wait in `Poller` is an entry of number, direction and task, as in
`POLL_REGISTER`; closing a socket leaves entries behind, and the kernel gives
out the lowest free number. `POLLNVAL` is what removes the entries of a number
that is closed. In `Turns` a task is parked, queued or running; it keeps the
thread for as many steps as the code does not wait or yield. `Endless` are the
tasks that find new input while they run. A link in `Turns` is all accepted
connections.

### SystemRoutes

`platform` is chosen in `Init`. A command ends with one of three outcomes: it
succeeds, exits with an error, or cannot be started. What becomes of the node,
and of the mark that the address was added, depends on the platform and the
outcome. `failed` is history.

### Lifecycle

`task[t]` is unborn, running, done, canceled or faulted, and closing for a
listener that waits for its connections. `Ask` is Ctrl+C or SIGTERM. A task
that fails while the token is canceled may end faulted or canceled.

### NodeAddress

Rust and .NET side by side, a Speck round per step: the rounds over the name's
bytes, then the search for the prefix. Wrapping addition ripples its carry.

### Trace

Route tables are constants: a star, a loop, and a table without a way back.
`net` is the set of packets on their way. Rust nodes drop commands 4 and 5.

## 3. The runs

| Run | Instance | Shows |
|---|---|---|
| `seen_packets` | 5 packets, two with the same hash, capacity 2, 7 acceptances | set and queue in step, answers as specified; packets are forgotten, accepted again and forgotten again |
| `mesh_rust` | triangle of Rust nodes, one link opening during two announcements | no loops, next hop at least as recent, tracers vouched for, each tracer passed on once |
| `mesh_mixed` | line of a Rust and two .NET nodes, drifting clocks and window 0, filters with one place, queues with one place, links that end, two IP packets that may be equal | types, no dead routes, IP packets never multiplied, sessions used as `Session` allows; what is pushed out of the filter goes round until it is stale, and floods die out |
| `mesh_recovery` | line with .NET in the middle, from `RelinkedInit`: links that end and are dialled again, any node restarts, a third announcement, queue of 1 | routes recover, from a loop through a node that has forgotten too |
| `executor` | main, a reader, a sleeper, a resolver with two blocking calls, one message, pipe of one byte, clock to 7, a read timeout of 4 and a sleep of 1 | flag and queue agree, no lost wake-up, nobody forgotten, timers late by at most `Lateness` and the time tasks took; results, data and mail are handled, data in time unless tasks are slow |
| `link` | Rust and .NET, either dialling, right or wrong key, a packet of one byte and one whose length is cut to 0, a socket of two units, two sessions, one failure | each end receives a prefix of what the other was given; strangers exchange nothing; the link is a session, comes back, notices cuts, removes dead senders, and packets arrive |
| `runtime` | `Turns`: Linux, endless input for all tasks, one connection at most, failing device, port taken at first. `Poller`: two tasks, two numbers | a held packet is not left behind, only two tasks can starve others, the listener binds in the end; waiting tasks are registered, ready sockets are served, stale entries go |
| `bytes` | `Cipher`: a message of 58 bytes, pieces of 3 and 17 at each end. `NodeAddress`: the names vy, lq and sb | what .NET decrypts is what Rust encrypted, tags agree and tell inputs apart (up to 18 zero bytes, cut anywhere), the digests of the repository's tests; same address in both, in `fd00::/16` |
| `system_routes` | three platforms, two addresses besides the node's own, queues of 2 and 3 | no command in vain, how the set-up ends, who gets a route |
| `lifecycle` | seven tasks, one connection | nothing outlives the device, right exit code, stops when asked, failures end the node |
| `trace` | star, loop and no way back, a Rust node, lossy links, two traces | rows are right, probes die out |
| `trace_multi_hop` | star of .NET nodes, nothing lost | violated: see below |

Why these bounds are enough for the questions asked. A routing loop needs two
nodes besides the owner and two announcements that overtake each other: three
nodes, two timestamps; its repair needs a third. Nodes whose bounded queues fill
each other are two .NET nodes with a link, and an IP packet is taken for another
if two can be read. A dead route needs a packet of a removed peer in the
queue: one session that ends. Eviction, collision and return need a capacity of
two and one collision. A lost wake-up needs one thread and one round; two calls
let a late thread of the first meet the second. A shifted stream needs two
packets in one direction, a frame behind the handshake a socket that holds two
units, a stale sender two sessions. A keystream that is one
byte off shows at the end of the first block of 16, a piece of 17 crosses it at
any place. A number used again needs two tasks. Starving needs one task that
never stops and one that waits; a filter that is too small needs one packet
more than it has places. A frame cut short needs a packet as long as the
modulus of the length field. The search for an address takes 65536 rounds on
average; the names of `bytes` are ones whose search is short, so that
the run ends. Every bound is a constant: `MaxAccepted`, `MaxClock`,
`MaxRestarts`, `MaxReads`, `MaxCalls`, `MaxData`, `MaxNow`, `Slack`, `MaxSessions`,
`MaxFailures`, `MaxEnqueued`, `MaxTraces`, `MaxConns`, `MaxWaiting`,
`MaxRequests`, `PipeCap`.

`TypeOK` in each module says what values the variables take. It is checked in
`mesh_mixed` and proved for `Mesh`, and it is part of the inductive invariants
of the other modules with proofs; the other runs keep to the properties that
the hazards call for.
Deadlock is not checked where these bounds let a behaviour come to its end.

Fairness. Both runtimes run a task that can make progress, so receive tasks,
main loops, the executor thread, helper threads that have finished their
command, the connect loop, the listener and the cleaner are weakly fair. Not
fair are: announcing (so `FloodsDieOut` is about what happens when it stops),
failures, data arriving, the clock, and a blocking command's end. `Executor`
checks its liveness without a fair clock: no property is saved by a timer.
In `Link` a read that times out is fair only on a session that was cut.
The exception is `mesh_mixed`, where the clocks are fair (`TimedSpec`), because
only time makes a packet stale. In `Turns` and `Poller` the
thread is fair; in `Turns` it polls between turns, so waking a task that is
ready again and again is strongly fair, and nothing is fair to a task behind
one that does not give the thread up. In `SystemRoutes` commands end; announcing
is strongly fair where the queue has room, because announcements come every 5 to
10 seconds after random delays, and so is success of a command that is tried
again and again: what the properties say of the .NET node is that it does try
again. In `Lifecycle` every task sees the token wherever it waits; failures and
being asked to stop are not fair.
`RoutesRecover` is conditional on an announcement after the last change of a
link, which the announce loops make every 5 to 10 seconds.

### What disagrees with the documentation

`trace_multi_hop`: `MeshNode.cs:89` says of a trace "every hop replies with its
name", and the command line promises "each hop on the route to a node". A reply
is sent towards the origin like a packet, but a node that receives one looks it
up among its own traces and drops it; it is never passed on. Only the replies
of direct neighbours arrive, and a trace over two hops has one row.

Things the properties have to allow, for a reader who would expect otherwise:

* The Rust node marks an address as added before it runs the command that adds
  its system route (`linux_tuntap.rs:178`), and does not look at the result: if
  the command fails once, packets to that address never get to the node. The
  .NET node marks it afterwards (`AnnouncedIsRouted`).
* A read of the TUN device that fails is repeated at once (`linux_tuntap.rs:125`,
  `mac_tuntap.rs:105`); while the device keeps failing, no other task runs. A
  listener at the limit of descriptors keeps the thread in the same way
  (`OthersYield`).
* A .NET listener that fails waits for connections that nobody has told to end
  (`EndsWhenItShould`).
* On Linux, a command that cannot be started panics the helper thread that
  should run it (`leo_async.rs:367`), and the task that waits for it, the set-up
  included, waits for ever (`SetUpEnds`, `AnnouncedIsRouted`).
* A peer that stops reading but keeps sending holds the session: the writing end
  has no timeout of its own behind its buffer (`legacy_tcp.rs:230`).
  `DeadSessionsGo` is about sessions that are cut.
* A read times out over data that has come in time when the tasks before it take
  too long, because `TimeoutFuture` looks at the clock first
  (`leo_async.rs:610`). `EventsAreHandled` allows this only while tasks take
  time: the loop itself never sleeps over such data.
* The second of two equal IP packets of the same millisecond may be lost, as the
  filter takes it for the first.

The properties named above exempt exactly these cases and do not catch them;
they catch the same thing happening anywhere else.

## 4. The proofs

For every value of the constants that satisfies the named assumptions.

`SeenPacketsProofs`: the inductive invariant is `TypeOK /\ SetMatchesQueue /\
QueueIsRecent`. Each part needs the others: a fingerprint is only appended when
it is not in the set, which says it is not in the queue only because the two
match; forgetting the front leaves the set equal to the queue only because the
queue has no fingerprint twice. `Implements` follows because the window of the
abstract filter is then the set. Assumptions: the hash is a function into the
fingerprints, the capacity is a natural number (0 included).

`MeshProofs`: the inductive invariant is

    IInv == TypeOK /\ SessionsRegistered /\ TracersAreVouchedFor
              /\ NextHopIsAhead /\ LoopFree

`LoopFree` is not inductive: the step that could close a loop is the learning
of a tracer, and it is harmless only if the node that sent the tracer is still
ahead. The argument has three parts.

1. A node that passes on a tracer has learned it, or something newer, in the
   same step, and the timestamp of a route never decreases in a node that does
   not forget (`TracersAreVouchedFor`).
2. So when a tracer is learned over a session, the node at its other end has a
   route at least as recent (`NextHopIsAhead`).
3. In a loop, timestamps would be the same all the way round. When n learns a
   strictly newer one, its predecessor in the loop would have to be no newer
   than n was before, and the successor as new as n is now; around the loop
   this is impossible. So the last step never closes one (`LoopFree`).

`SessionsRegistered` says that an open session is registered and belongs to
the node, and that queued packets came over sessions that were opened; the
.NET node's refusal of removed peers, and the type of a route, need it.

`NoDeadRoutes` is proved from `IInv` in a second induction. Assumptions:
each session has two different ends, owners own announced addresses, `NoConn`
and `NoBody` are not real values, the bounds are natural numbers.

Three more results have invariants of their own on top of `IInv`.

* `IpPacketsStaySingle`: `IpInv` says of each IP packet that it is in at most
  one place (one position of one queue, or delivered), and that a packet that
  is anywhere has been read from a TUN interface. Packets that are equal byte for
  byte are counted apart (`copy`). The second half is needed because `TunRead`
  would otherwise add a second one of a packet that is already on its way.
* `MeshUsesSessions`: `out` and `conn` map to `flight` and `end` of `Session`.
  The initial states map to initial ones, and each action is shown to leave
  every session alone or to append to, take from or cut short one end of it as
  `Session` allows; it needs that only registered, open sessions are sent on.
* `TracersPassedOnOnce`: `FloodInv` says of a session, a node at one of its
  ends and a tracer of somebody else's address that at most one copy that this
  node sent is on its way or waiting at the other end, and that if there is
  one, the node remembers the tracer or its end is closed. This is false once a
  filter has evicted the tracer, which is the hazard at `main.rs:61`. The
  theorem has the hypothesis `NothingEvicted` (every step keeps what a filter
  has, restarts aside), which holds of all behaviours with fewer packets than
  the 16384 places of the filter; `mesh_rust` checks the property on such an
  instance. What happens on eviction is `FloodsDieOut` in `mesh_mixed`.

`ExecutorProofs`: four theorems from one invariant,

    IInv == TypeOK /\ Phase /\ Scheduling /\ Unborn
              /\ PollInv /\ TimerInv /\ CallInv /\ MainInv /\ TimeInv

* `Scheduling`: the flag is set exactly while the task is in the queue, in the
  batch or with a thread that has set the flag and not pushed yet, and it is in
  one of the three only. A thread pushes without looking at the queue; that it
  alone has the right to is known from the flag.
* `PollInv` strengthens `NoLostWakeup`: during `poll()` only helper threads
  push, so any other task in the queue was there when `poll()` began, and then
  it does not wait.
* `CallInv` is the order of the two accesses on each side of a call: the task
  stores its waker before it looks for the result, the thread stores the result
  before it takes the waker. Of a task that sleeps, either the thread is not at
  the waker yet, and the waker is there, or it has it.
* `TimerInv`: a timer that is set is registered until it is due; so a reader
  or a sleeper that sleeps has its timer.
* `TimeInv` bounds in each phase of the round how far a timer is behind, apart
  from the time that tasks have taken; the bounds go round: what leaving
  `poll()` gives is what looking at the timers needs.
* `Phase` and `Unborn` say what is empty in which phase, and that nobody knows
  a task before it is spawned.

Assumptions: the kinds of tasks are disjoint, `NoTask` is none, durations,
`MaxCalls` and the pipe's capacity are positive.

`RuntimeProofs`: for `Turns`, that a task is queued at most once, not while it
runs, and that a held packet has its task queued or running, is inductive with
the types. For `Poller`, `WaitersAreRegistered` needs that a task without a
socket waits for nothing, that outside `poll()` the cache is empty, and that
in `poll()` no task is about to run: then what `poll()` did not report goes
back into the registrations. Both together are the property of the run.
Assumption: numbers of descriptors are natural numbers, `NoFd` is none of them
(the module `Turns` is about five fixed tasks; `Waiters` is any set).

`LinkProofs`: the inductive invariant is

    IInv == Types /\ Dialled /\ \A s : Setup(s) /\ \A e : Prefix(s, e) /\ Stream(s, e)

That the next packet passed on is the next one given to the sender depends on
every unit in between, so the invariant says what they are. `Stream`: the units
of the frame being read, those on the wire and those still to be written are,
concatenated, the encoding of the packets that are due, which are the ones
given to the sender less the ones passed on. An end that is over has dropped
what it would have written, so they are then the first part of it. A reader
that has seen a length, that many bytes and a MAC then knows that the MAC is
the one of the first packet due, or that it is in the middle of a packet too
long for the length field, whose frame does not check. `Setup`, the order of
the handshake, says which unit on the wire is no part of a frame, and
`Dialled`, that sessions are used in order, that a new one is empty.
`StrangersStayApart` has a second invariant: with keys that do not match the
listening end registers and writes nothing, the first unit that it will read is
the handshake that it refuses, and so neither end is ever up. Assumptions: sizes of
packets, buffers, sockets and the modulus of lengths are positive.

`LinkIsASession` is the refinement that lets `Mesh` forget frames, buffers and
handshakes: Link implements `Session` with `flight` mapped to the packets that
end (with their MAC) among the units on their way and the encoding of the queue
(`PacketsOf`). The lemmas are about `PacketsOf` on a concatenation: it is the
concatenation of what it gives on the parts, an encoded packet gives that
packet, and a part of one without its MAC gives nothing. So encoding, batching
and writing in parts stutter; reading a MAC that checks takes the first packet;
an end that is over has dropped what it would have written, which leaves the
first part of what was in flight. The mapping needs one thing more than `IInv`
(`Greeted`): what an end in its handshake reads first is a handshake, and an
end that is up is in the table, so that no packet is taken or given where
`Session` has no open end.

`TraceProofs`: the invariant says of every packet on its way what the row made
of it will say: a probe with time to live t is handled by the node that is
`TraceTtl - t + 1` hops away on the route to its target, and a reply with t
names that node. The nonce of a packet tells its trace, also when that trace is
over; a reply is taken only by the trace with its nonce. Assumptions: routes
lead to nodes or nowhere, the origin runs .NET, the time to live fits a byte.

`NodeProofs`: for `SystemRoutes`, the invariant is that an address with a route is marked
as added, and in the Rust node also the address of the running command and
those whose command failed. Both nodes look at the mark before they run a
command. For `Lifecycle`, the invariant says which task owns what
(connections belong to the listener, a command to the routes task, a trace to
the control task), what the tasks and the device are in each phase, and why a
task has ended: done or canceled only if the token was canceled, which before
the first task's end only Ctrl+C or SIGTERM does. The exit code then follows
from the outcomes of all tasks. Assumption: `MaxConns` is a natural
number. (The names `LifeInit`, `LifeNext` and so on of `Lifecycle` let one
module extend it and `SystemRoutes`.) For `NodeAddress`, both implementations hold
the same words in every round, their two tests of the prefix (two bytes of a
buffer, sixteen bits of a word) are equivalent, so both leave the loop in the
same round with the same address, for any name.

`CipherProofs`: two results about two implementations of the same thing.

* `TagsTheSame`. A round of `gimli.rs` changes the state column by column and
  then swaps words in place, a round of `Crypto.cs` computes three new rows and
  joins them in another order. Word by word, both come to the same. The
  permutations, absorbing data and absorbing lengths are recursive functions
  whose definitions then have equal bodies, whatever function stands for the
  recursive call, and equal bodies define equal functions: no induction over
  the data is needed. It holds for any inputs.
* `MessagesDecrypted`. The inductive invariant says that there is one keystream
  f, from the state that both ends make of the key, that the Rust end is at
  place `sent` of it and the .NET end at place `Len(got)`, and that byte i on
  the wire is byte `Len(got) + i` of the message encrypted with the keystream
  at that place. A piece that is encrypted continues f by as many bytes, over
  the ends of blocks; a piece that is decrypted is decrypted with the part of f
  that encrypted it. Assumptions: key and message are sequences of bytes, sizes
  of pieces are natural numbers.

Recursive functions. `Encoded`, `Units` and `PacketsOf` of `Link` and `Route`
of `Trace` are recursive functions; that they satisfy their own equations is
not given to the prover. It is proved from `LeastNumber` (a nonempty set of
numbers has a least element, from the well-foundedness of finite sets) by
induction over a set of numbers, which needs no operator as a parameter. The
functions of `Gimli` have a pair as their argument, which is what the prover
can expand; that they are defined on the states they are applied to is what
TLC evaluates.

Only model-checked:

* liveness, which the prover does not reach: `FloodsDieOut`, `RoutesRecover`,
  `EventsAreHandled`, `ProbesDieOut`, `LinkComesBack`, `DeadSessionsGo`,
  `PacketsArrive`, `SetUpEnds`, `AnnouncedIsRouted`, `EndsWhenItShould`,
  `OthersYield`, `ListensInTheEnd`, `ReadyIsServed`, `StaleEntriesGoAway`;
* the rest of `HashesAreRight`: tags tell inputs apart, and `gimli_hash` gives
  the digests of the repository's tests. That is about the very bits that 24
  rounds on twelve words compute; TLC evaluates them on given inputs. (That the
  tags of both implementations agree, the third part, is `TagsTheSame`.)
* the other half of `FindsMeshAddress`: that the search for an address ends. It
  has no bound in the code; TLC runs it for three names.

## 5. What is not modelled

* Random numbers (`rng.rs`): seeded from the environment, used for delays and
  nonces. Delays are nondeterministic here, nonces are distinct. The
  inverse rounds, key schedule and block cipher of `raw_speck.rs`, and `join2` and `fused` of
  `leo_async.rs`, are used by no part of the node.
* Parsing and printing of addresses, configuration and the command line:
  read once, before anything runs; they are constants here.
* Malformed packets: every node builds packets well formed.
* Opening a TUN device, options of sockets, HTTP framing of the control
  interface, logging: system calls and output without state of their own.
* The Rust node's Windows files, which do not build, and Wintun in .NET.
* Growth of unbounded channels, and how often an entry is in `POLL_REGISTER`.
* In `Turns`, an accepted descriptor that cannot be made non-blocking, which
  would close the listening socket and bind it again.

## 6. The plan

Done, in this order: the duplicate filter with its proofs; the mesh with its
proofs; the runtime; the trace; the link; system routes; turns; the lifecycle;
sleepers and yields in the runtime; the poller; the cipher;
node addresses; `Session` with both of its refinements; eviction in the mesh.

Then the proofs: `SystemRoutes`, `Lifecycle`, `Turns` and `Poller`, the rest of
`Mesh`, `Executor`, `Trace` and `Link`; then the refinement of `Session` by
`Link`, `Cipher` and `NodeAddress`.

Every safety property that a run checks is proved, except for the values of
hashes. What remains would be a larger model: the Windows files, once they
build, and the control interface's framing.
