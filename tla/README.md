# A formal model of the Sensor-Monitoring-System

The repository is a sensor gateway in C. Sensor nodes connect over TCP and send
temperatures; one process with three threads receives them, averages them per
room sensor and stores them in SQLite; a second process writes a log. This
directory holds TLA+ modules translated from that code, the configurations that
check them with TLC, and proofs checked by TLAPS.

Line numbers refer to the files of the repository. PROJECT.json maps every
definition that models code to its lines, and lists the runs, hazards, findings
and theorems this text talks about.

## 1. The system

| Part | Files | State | Operations |
|---|---|---|---|
| shared buffer | `sbuffer.c` | singly linked list, two "seen" flags per node, a read-write lock | init, insert, getinfo, read, remove, free |
| main process | `main.c` | mutex, condition variable, `terminated_by_CONNMGR`, `terminated_by_INIT_CONNECTION`, `conn` | start three threads, join them, free everything |
| CONNMGR | `connmgr.c` | list of connections with `last_mod`, poll set | accept, receive, evict the silent and the closed, close when idle |
| DATAMGR | `datamgr.c` | list of sensors with their last temperatures | wait for data, read, average, report |
| SQLMGR | `sensor_db.c` | database handle | open (three attempts), create table, wait, read, insert |
| log process | `main.c` | FIFO, fifolock, the log file | write a line under the lock; copy lines until the END line |
| dplist | `lib/dplist.c` | doubly linked list | used by CONNMGR and DATAMGR |
| tcpsock | `lib/tcpsock.c` | a socket and a cookie | open, accept, send, receive, close |
| sensor node | `sensor_node.c` | a connection | connect, send id, value and timestamp, close |
| test programs | `test_server.c`, `db_test.c`, `datamgr_test.c` | - | sequential, by hand |

How they interact:

- **Data.** A sensor sends a measurement in three calls of `tcp_send`. CONNMGR
  collects it in three calls of `tcp_receive` and appends it to the buffer. Each
  of the two managers must get every measurement; a flag per manager in every
  node says who has. The reader that finds a node with both flags set unlinks it.
- **Waking.** Whoever inserts broadcasts one condition variable; managers wait
  on it under `lock`. The insertion, the flags and the broadcasts are *not* made
  under `lock`, and the buffer has a lock of its own.
- **Starting.** `sql_mgr` calls `init_connection`, which publishes the outcome
  of opening the database in a flag and a handle; all three threads wait for it.
- **Logging.** The log process is forked before anything else. The threads write
  lines into a FIFO under `fifolock`; each side of the FIFO waits in `fopen` for
  the other. MAIN writes END after its joins, closes the FIFO and waits for the
  child.
- **Stopping.** When CONNMGR closes its server it sets `terminated_by_CONNMGR`
  and broadcasts; the managers see the flag in their loop or their wait and
  leave; MAIN joins them and frees the buffer.

What is hard: the window between the test of a condition and the wait for it;
answers used after the lock they were obtained under is gone; freeing nodes two
threads walk over; the order of shutdown; a list that changes under the index
of the loop over it; a stream cut off in the middle of a record; two processes
that each wait for the other; a call that fails half way and keeps what it had. PROJECT.json
lists these hazards at their lines, with the properties that watch them.

What makes each part correct: the buffer delivers everything to both managers,
once and in order, and frees each node once, when nobody needs it; the threads
neither serve a database that is not there nor get stuck; CONNMGR applies what
poll reports to the right connection, inserts only whole measurements of the
sensor it is serving as long as that sensor's stream is not cut short, and lets go of
connections that are over; the log writer receives every line; dplist keeps its
pointers consistent.

## 2. Modules

    MeasurementFeed            what the buffer promises, without a list
    SBuffer                    sbuffer.c
      Gateway                  main.c and the three threads, around SBuffer
        GatewayProperties      what is checked of it
          Gateway_proofs       what is proved of it
            Feed_proofs        the refinement of MeasurementFeed, and more
    SensorService              what CONNMGR's loop is for, without polls and bytes
    ConnMgr                    connmgr.c's server loop, and the sensors
      ConnMgrProperties        what is checked of it, SensorService included
        MCConnMgr              symmetry for TLC
        ConnMgr_proofs         what is proved of it
    LogPipe                    the FIFO between main.c's two processes
      LogPipeProperties        what is checked of it
        LogPipe_proofs         what is proved of it
    RunningAverage             datamgr.c's averages, and what is checked of them
      MCRunningAverage         constants for TLC
      RunningAverage_proofs    what is proved of it
    TcpSock                    lib/tcpsock.c, and what is checked of it
      TcpSock_proofs           what is proved of it
    DpList                     lib/dplist.c, pointer by pointer
      DpListProperties         what is checked of it
        DpList_proofs          what is proved of it
    NatInduction               induction over the naturals, for the last two proofs

**SBuffer** is the list of `sbuffer.c`. A node is named by the order of its
allocation, so it stands for its measurement too. `head`, `tail`, `next` and
`seen` are the C fields; `freed` are the nodes given back to `free`. Insertion
and `getinfo` are one step, as the lock makes them. A call of `sbuffer_read` is
an entry and then one step per half iteration of its loop: `ReadRetires` (a node
both have seen), `ReadTakes` (copy the data, set the flag), `ReadAdvances`
(follow `next`). The code unlinks the head but frees `current_node`, and during
the shutdown frees it again: the model does exactly that, and `ReadTouchesFreed`
is what may follow from an access to freed memory - the process dies, or
garbage is taken for a flag, a pointer or a measurement. `memory` records
whether that has happened. What the list looks like after such an access is not
tracked any further, and every claim about data is conditional on it.

**Gateway** has one program counter per thread. A step of a thread ends wherever
another thread can come between: `getinfo` and the test of the flag, the test
and the wait, the flag and its broadcast, the evaluation of the argument of
`sbuffer_read` and the call. `pthread_cond_wait` is two steps (`Sleep`, which
releases the mutex, and `Wake`, which needs it again), and `SpuriousWakeup` is
allowed at any time. DATAMGR and SQLMGR run the same statements up to the use of
the data, so they share `ManagerLoop`; the wait for the database is shared by
three. CONNMGR's loop is reduced to what the others can see of it: a refused
port, insertions, broadcasts, the end. SQLite may fail to open on each attempt,
to create the table, to insert. Logging takes no part.

**ConnMgr** is the loop itself. `connections`, `last_mod`, `poll_list` and
`sensor_data` are the C variables; `backlog`, `peer` and `arrived` are
the sockets as the kernel keeps them. One step is one connection of a round, or
one `tcp_receive`. A stream is counted in pieces: `IdSize` of id, `ValueSize` of
value and `TsSize` of time, over and over without end, as the default sensor node
sends them. `tcp_receive` is `recv` with all its results: as much as has
arrived of what was asked for, or part of that, or nothing at the end of the
stream, or an error. None of them is looked at, as in connmgr.c:176-185.
`offset` is the place in the measurement up to which a stream has been read, so
an unbounded stream needs no counter; `short` are the streams of which a receive
got less than asked. `sensor_data` holds, for each member, which stretch of
whose stream it was filled with, so that a mixture is visible, also one of two
members of the same sensor. `inserted` is the measurement inserted by the last
step, if it did: from whom it was received, which id it bears, and whether it is
one the sensor sent.
A connection is evicted by `break`ing out of the round, as in the code;
`poll_list` keeps the spare entry that `calloc(dpl_size + 1)` provides.
A sensor may connect, send, fall silent or die at any time; `Tick` is a second of
`time(NULL)` and may pass anywhere. Abstractions: the kernel takes at most
`Window` pieces of a stream ahead of the receives, and a sensor connects once.

**DpList** is the library list under its whole interface, which is wider than
what the gateway uses: CONNMGR and DATAMGR only append, read and remove at an
index, and free, which ConnMgr treats as operations on a sequence; the
properties of DpList say that this is right. `head`, `prev`, `next` and
`element` are the C fields, `live` the nodes of `malloc`. One operation is one
step. A read through NULL ends the program (`crashed`); a circle or a freed node
in the walk (`Damaged`) ends what is modelled. Elements are integers, compared
as such, and not copied or freed.

**LogPipe** is `log_this`, the parts of `main` and `main_process` around it, and
`log_process`. A line is its speaker and its number. `pipe` is the FIFO, `log`
what the child has written, entry by entry: an entry is what one `fgets`
returned, so END, which has no newline, would be in an entry with whatever
follows it. `onDisk` counts the entries that have left the buffer of
`gateway.log`. The two `fopen`s of the FIFO return together (`OpenFifo`); a
writer waits for room in the pipe holding `fifolock`; without a reader a write
ends the gateway by SIGPIPE, which nobody handles. Either process may die at any
point; with the child go its unflushed entries and whatever is unread in the
FIFO. What a child does with the null stream of a failed `fopen` is undefined
behaviour; with glibc it dies in `fgets`, and the model takes that.

**RunningAverage** is the list of sensors DATAMGR keeps: `datamgr_avg` is the
window of the last temperatures, `sum` and `counter` the two numbers the code
divides. `readings` and `latest` are history variables for the properties.

**TcpSock** is the socket library with the descriptors of the process. `handle`
are the callers' pointers, `kernel`, `bound` and `pending` what the kernel keeps
per descriptor; the lowest free descriptor is reused at once. Each call fails in
each of its places, with the descriptor left as the code leaves it.

**SensorService** is the abstract specification of CONNMGR's loop: sensors wait,
are served in the order of their arrival, have measurements taken, and leave;
the service closes when it serves nobody. A measurement bears the id of the
sensor it is taken from as long as that sensor's stream is not torn; of a torn one
it bears some id, known or not. ConnMgr implements it with
`waiting <- backlog`, `served <- Accepted`, `torn <- short`,
`source <- inserted.from`, `id <- inserted.id` (`ImplementsService`), so a
measurement completed under the id of another sensor because of anything that
happened to *that* sensor would break it.

**MeasurementFeed** is the abstract specification of the buffer with its users:
a counter of published measurements, a cursor per reader, a counter of
reclaimed ones. Before the feed is closed a measurement is reclaimed only when
every reader is past it. After closing it may break. Every run of Gateway is a
run of it under `published <- allocated`, `cursor <- Len(delivered)`,
`reclaimed <- Cardinality(freed)` (`ImplementsFeed`).

## 3. Runs

| Run | Instance | Shows |
|---|---|---|
| `gateway` | 2 measurements, fairness | types; `InOrderDelivery`, `NoDanglingWhileRunning`, `NoLeak`, `AtMostOneRetired`, `NoServiceWithoutDatabase`, `EveryReadIsAccounted`, `CheckedReadDelivers`, `ImplementsFeed`; `NewDataIsRead`, `AwakeManagerStops`, `StuckOnlyAsleep` |
| `connmgr_rounds` | 3 sensors, members of 1 piece, a window of 1, a fast thread | types; `PollResultBelongs`, `SilenceIsBounded`, `ClosesOnlyOnSilence` |
| `connmgr_liveness` | 2 sensors, members of 2, 1 and 1 pieces, a window of 2, fairness | `TornOnlyIfCut`, `ImplementsService`, `StuckOnlyInReceive`, `EveryConnectionEnds`, `ServerCloses` |
| `log_pipe` | 3 threads, 2 lines each, a FIFO of 2 lines, fairness | types; `NoLineIsLost`, `LogIsComplete`, `SpinsOnlyAfterDeath`, `StuckOnlyAtOpen`, `LogProcessEnds` |
| `running_average` | 2 sensors and an unknown one, 4 temperatures, a window of 3 | types; `MeanUnlessZero`, `AverageIsJustified` |
| `tcpsock` | 3 sockets, 4 descriptors, 4 ports | types; `SocketsOwn`, `LeaksOnlyOnFailure` |
| `dplist` | 4 nodes, 2 elements | types; `OnlyPrependingSpoils`, `PrevNeverElsewhere`, `LookupsAgree`, `EditsWhereAsked`, `SortedStaysSorted` |
| `exits_when_over` | 1 measurement, fairness | violated: see 4 |
| `all_data_is_stored` | 3 measurements | violated: see 4 |
| `no_use_after_free` | 3 measurements | violated: see 4 |
| `hanged_up_is_drained` | 1 sensor, members of 1 piece, a window of 3 | violated: see 4 |
| `closed_means_freed` | 1 socket, 1 descriptor | violated: see 4 |

Each property is accompanied, in PROJECT.json, by a mutant of the code that
breaks it. The mutants stand next to the definitions they are made from.

**Bounds.** `MaxData` (2): one measurement arrives while another is read, a
list with a head and a tail apart is retired from while the other reader is
behind, and the list of one node occurs before and after; the proofs remove
the bound. `MaxOpens` is the code's 3. `Sensor` (3): with three
connections, an eviction from the front shifts two others, one of which would
be served under the wrong entry; two do not show that. Nothing bounds how much a
sensor sends, and the states are finite because only the place in the
measurement matters. An id of two pieces can be received in half, which puts the
stream out of step and lets an id be put together from two members; the
other members need one piece each, and two sensors are one whose stream is cut
and one that must not suffer by it. A `Window` of 2 holds a whole id,
or the end of a measurement and the beginning of the next, and the rest arrives
while the thread waits in a receive. `connmgr_rounds` needs a third sensor, so in it
(`MCPromptSpec`) every receive gets the one piece it asks for: its properties
are about the order of rounds, evictions and time, in which a short receive
takes the same steps as a full one. `SilenceIsBounded` is proved without that
restriction. `TIMEOUT` is 1 second
instead of 5: only "more than TIMEOUT" matters, and ages are counted up to
`Expired`, TIMEOUT + 1, or beyond the bound `SilenceIsBounded` states (which is
tight: one second less is violated). `MaxNodes` (4): the
operations of dplist look at a node and its two neighbours, and four nodes leave
one they must not touch; an index runs from -1, which stands for every negative
one, to one past the largest size. `PromptSpec` lets time pass only while poll has
nothing to report; `connmgr_liveness` lets it pass anywhere. In LogPipe two lines
per thread make an order, a FIFO of two lines is full with a third waiting, and
one thread can be left over by a wrong join. `RUN_AVG_LENGTH` is 3 instead of 5:
the window has an oldest, a middle and a newest place. The temperatures lie on
both sides of 0 and of the limits. Four descriptors leave one to lose while the
three sockets are open; the ports are the last that is refused, the first that
is admitted, the one that is 0 in sixteen bits, and one that would be 1024 in
sixteen bits if it were not refused.

**Deadlock** is checked in every run: `Ended`, `Closed` and LogPipe's `Stopped` let
a finished process stutter (or two processes one of which waits for the other,
which is dead, for ever: `StuckOnlyAtOpen` says which of these there are), and any
thread left waiting for ever shows up only in the temporal properties, because
`SpuriousWakeup` remains possible. DpList stops only
after a crash or with a list it cannot walk (`Stopped`).

**Fairness.** In Gateway: strong fairness of each thread, because a thread that
waits for the mutex is enabled only while it is free and the scheduler and the
mutex do not pass over it for ever; weak fairness of MAIN; none of spurious
wakeups, since POSIX promises none - that is what makes a lost wakeup visible.
Nothing is assumed of what CONNMGR's poll waits for: measurements may stop with
the server open, so a manager must read what has arrived without help from what
may come.
In ConnMgr: time passes and the thread runs. Nothing is assumed of the sensors,
of `accept` or of `recv`: a sensor may send for ever, as sensor_node.c does unless
it is built with a limit, or fall silent anywhere, and accepting and receiving
may fail for ever. So the properties name what can keep a connection or the
loop: a sensor silent in the middle of a measurement, for which `tcp_receive`
waits without a limit (`HeldUp`), a connection that can never be accepted, and a
sensor that is heard of for ever (`[]<>Receiving(s)`), which keeps its own
connection and the server open and nobody else's.
In LogPipe: both processes run, a thread that wants `fifolock` is not passed over
for ever, and the threads end - Gateway says when they do not. Nobody need die.

## 4. Where the code and its documents differ

The documents are the two pages of the code review checklist in
`Overview_and_Paper_Assignments` and the comments of the header files.
These five disagreements each have a run that finds them and an entry under
`findings`:

- *The process may not exit when the database cannot be opened, or when the
  server closes.* A thread that has tested the flags (connmgr.c:74,
  datamgr.c:130, sensor_db.c:20) and not yet begun to wait misses the broadcast
  of sensor_db.c:122, which is made without the mutex and never repeated; the
  same holds of connmgr.c:237 against datamgr.c:158 and sensor_db.c:48.
  `AwakeManagerStops` and `StuckOnlyAsleep` show that this is the only way to
  get stuck.
- *Not everything received is stored.* After the flag a manager reads at most
  twice more; the rest of the buffer is freed.
- *Not everything sent is received.* connmgr.c:138 tests for the hang-up first.
- *A freed node is used during the shutdown.* sbuffer.c:137 frees the node that
  has just become the head. `NoDanglingWhileRunning` shows, and the proof
  confirms for any number of measurements, that it is confined to the shutdown.
- *A closed socket may keep its descriptor.* lib/tcpsock.c:131 calls `close` only
  if `shutdown` succeeded, which it does not on a connection the peer has reset;
  `tcp_close` frees the struct and reports no error, against tcpsock.h:64.

These the models contain, and the properties of the passing runs state what is
left of the promise:

- *Short and failed receives are taken for whole ones.* tcpsock.h:99-101 says that
  a receive may get fewer bytes than asked, and returns an error code;
  connmgr.c:176-185 looks at neither. From then on the stream is out of step, for
  as long as the sensor sends: ids are put together from two members.
  `TornOnlyIfCut` and `ImplementsService` say that this needs a short or failed
  receive *of that stream*, and that no other stream suffers.
- *Port 65536.* MAX_PORT admits it and it is 0 in the sixteen bits of `sin_port`
  (lib/tcpsock.c:55, 65), so the kernel chooses a port, although tcpsock.h:35 and
  42 say that the socket is bound to the one given. TcpSock takes the port through
  `htons`; no property is about it.
- *Insertion before the head.* dplist.c:170 moves the head before dplist.c:171
  writes to it, so the new node becomes its own predecessor and the old head's
  `prev` stays NULL. `OnlyPrependingSpoils` says that nothing else does this;
  `PrevNeverElsewhere` and `EditsWhereAsked` say that what follows is a crash, a
  circle or a freed node, not a quietly lost element.
- *Sorted insertion of a new maximum.* The walk to its place runs off the list
  (dplist.c:634), and the program dies on an element that dplist.h:196-205
  promises to insert. `SortedStaysSorted` names that outcome; any
  other element is inserted as promised.
- *Removal by element from an empty list* reads its head (dplist.c:680), where
  dplist.h:220-221 promises the unmodified list. `OnlyPrependingSpoils` excepts it
  by name.

The gateway itself appends, removes at an index and frees, and meets none of the
three of dplist.

Visible in the models too, and stated as what holds: the child may open the FIFO
before main.c:82 has made it, and then dies, and the gateway waits in main.c:83
for ever (`StuckOnlyAtOpen`); if the gateway dies before END the child spins at
the end of the stream (`SpinsOnlyAfterDeath`); if the child dies, what it had
not flushed and what was unread in the FIFO is lost (`NoLineIsLost` says what
stays); a temperature of exactly 0 drops out of the average as soon as it is not
the newest (`MeanUnlessZero`, `AverageIsJustified`); and a descriptor is lost with
every call of tcpsock.c that fails after `socket` or `accept`
(`LeaksOnlyOnFailure`).

Also visible in ConnMgr, and in the recorded `gateway.log` (lines 5718-5722, one
eviction every five seconds): silent connections are evicted one per round, with
up to TIMEOUT seconds of poll between them. No document says otherwise;
`SilenceIsBounded` says how long it can take.

## 5. Proofs

Each theorem holds for every value of the constants its module's assumption
admits, and states a property that a run checks on a small instance.

| Module | Theorem | Property |
|---|---|---|
| `Gateway_proofs` | `TypeCorrect` | `TypeOK` |
| | `DeliveryIsInOrder` | `InOrderDelivery` |
| | `NothingDanglesWhileRunning` | `NoDanglingWhileRunning` |
| | `NothingLeaks` | `NoLeak` |
| | `CheckedReadsDeliver` | `CheckedReadDelivers` (action property) |
| | `FailedDatabaseIsNotServed` | `NoServiceWithoutDatabase` |
| `Feed_proofs` | `RetiredNodesDoNotPileUp` | `AtMostOneRetired` |
| | `EveryReadIsStoredOrLost` | `EveryReadIsAccounted` |
| | `BufferImplementsFeed` | `ImplementsFeed` (refinement) |
| `ConnMgr_proofs` | `TypeCorrect` | `TypeOK` |
| | `PollResultsBelong` | `PollResultBelongs` |
| | `OnlyCutStreamsTear` | `TornOnlyIfCut` (action property) |
| | `SilenceCloses` | `ClosesOnlyOnSilence` (action property) |
| | `RoundsImplementService` | `ImplementsService` (refinement) |
| | `SilenceEnds` | `SilenceIsBounded`, of `PromptSpec` |
| `LogPipe_proofs` | `TypeCorrect` | `TypeOK` |
| | `NothingIsLost` | `NoLineIsLost` |
| | `TheLogIsComplete` | `LogIsComplete` |
| | `SpinningMeansDeath` | `SpinsOnlyAfterDeath` |
| `TcpSock_proofs` | `TypeCorrect` | `TypeOK` |
| | `EverySocketOwnsItsDescriptor` | `SocketsOwn` |
| | `OnlyFailuresLeak` | `LeaksOnlyOnFailure` (action property) |
| `DpList_proofs` | `TypeCorrect` | `TypeOK` |
| | `PrevNear` | `PrevNeverElsewhere` |
| | `OnlyPrepending` | `OnlyPrependingSpoils` (action property) |
| | `EditsAreWhereAsked` | `EditsWhereAsked` (action property) |
| | `SortedRemains` | `SortedStaysSorted` (action property) |
| | `LookupsTellTheSame` | `LookupsAgree` |
| `RunningAverage_proofs` | `TypeCorrect` | `TypeOK` |
| | `MeanIsRight` | `MeanUnlessZero` |
| | `AverageJustified` | `AverageIsJustified` |

The assumptions: `MaxDataAssumption` (a natural number of measurements);
`ConnMgrAssumption` (no sensor is the server, members and a window of at least
one piece, TIMEOUT positive, ages counted beyond it), and for the bound on
silence `FinitelyManySensors`; `LogPipeAssumption` (no
thread is called MAIN or nobody, the FIFO has room for a line);
`TcpSockAssumption` (finitely many sockets, at least one descriptor and one
pending connection, ports are integers).

### The main process

None of the properties is inductive. `IInv`, which is, says in addition:

- `ListInv`: the list is the interval `head .. allocated`, linked in order;
- `FreedInv`: what lies before the head is freed, nothing behind it is, and the
  head itself only during the shutdown;
- `DeliveryInv`: m's flag is set in node n exactly if m has read at least n
  measurements, and no reader is behind the head;
- `ScanInv`: the call in progress stands in the list, at most one past what its
  manager has read; beyond the head it stands only if somebody still wants the
  head. Therefore a node found with both flags set *is* the head, and freeing
  `current_node` is freeing what was unlinked;
- `ControlInv`: which thread may be where; in particular a manager between
  getinfo's answer and its call still has something to read.

There is one lemma per action; `NextPreservesIInv` puts them together.
`DatabaseInv` is the second inductive invariant, about the opening of the
database, proved on top of `IInv`.

`Feed_proofs` builds on `IInv`. `AtMostOneRetired` follows from it at once:
behind the head a node is missing the flag of a manager that has read no
further. `EveryReadIsAccounted` needs `AccountInv`: rows are stored in
increasing order, and every measurement SQLMGR has read, except the one it is
about to insert, is stored or lost. For the refinement, as long as the list is
sound and nothing reachable is freed, what was freed is the interval before the
head, so its cardinality is `head - 1` (`FreedCount`): retiring a node reclaims
exactly the next measurement, and `DeliveryInv` says every reader is past it.
A step that ends otherwise happens after the flag was set, and is a `Break`.

### The server loop

`CInv` is inductive; it says, besides the types,

- `PlaceInv`: a sensor is in the backlog or in the list, at most once, and not
  among the evicted;
- `PollInv`: in a round, `poll_list` is indexed as the list was when poll
  returned; accepting only appends, and an eviction ends the round. What it
  says of a connection not yet served is still true: so the receive of an id
  finds something, though the receives of a value and a time may not;
- `StreamInv`: of a stream no receive has cut short, either a measurement is
  being received, and the struct holds its members up to the place reached
  (`Underway`), or the next one begins, or nothing more will come (`Settled`);
- `InsertedInv`: what was inserted before is not the measurement under way.

`OnlyCutStreamsTear` and the refinement rest on `StreamInv`: a receive that got
all it asked for leaves the stream at the next member, and the receive of an id
that poll has promised cannot find the end, so the id is always the sensor's
own; a value or a time can be missing only at the end of the stream, for good.
`ReceiveOutcome` says what a receive of each member does to a stream, and
`ReceiveTsOutcome` what is inserted. `PromptIsASpec` carries all of it to
`PromptSpec`, the specification of the bound on silence.

### The log and the sockets

`LInv` adds to the properties of LogPipe how much has been said at each place of
MAIN and that no thread speaks before START or after END (`SaidInv`), who has
the FIFO open (`OpenInv`), and that START is the first entry and END the last
(`EndsInv`). Moving a line from the FIFO to the log does not change the
entries written (`EntriesOf`), which is all `NoLineIsLost` looks at; the death
of the child cuts them off at `onDisk`, and of an unbroken sequence per thread
an unbroken beginning is left.

In TcpSock `TypeOK` and `SocketsOwn` are inductive
together: a call leaves the open sockets alone, adds one on a descriptor that
was free, or removes one.

### Silence

`SilenceIsBounded` is proved of `PromptSpec`, in which the thread itself loses no
time, with `SilenceInv` on top of `CInv`: a connection has been silent for at
most one TIMEOUT more than the sensors already gone account for, and the sleep
of poll that is going on; one that this round has served, for at most TIMEOUT.
A round that goes through leaves everybody within TIMEOUT; one that is broken
off has evicted a sensor, which raises the allowance. A sensor connects once, so
the allowance is bounded by the number of sensors.

### The list

`DInv` is inductive: the types, and while the list is whole - nothing crashed,
the walk along `next` comes to its end and passes only nodes in use - the nodes
in the walk are all that are in use, and every `prev` is the node before, the
node itself or NULL. What makes the proofs long is not the invariant but the
walk: `At` is defined by recursion, so that there is such a function, that there
is only one, and that it has a length and passes no node twice are inductions
(`WalkExists`, `WalkUnique`, `Extent`, `Distinct`). After that the walk of the
next state is found by guessing it and checking it link by link (`GuessedWalk`,
`InsertedWalk`, `RemovedWalk`). `InsertStep` and `RemoveStep` sum up the cases of
the code: the node is where it should be, or there is a crash at a NULL `prev`,
or a `prev` that is the node itself has made a circle (`CircleDamages`) or left
a freed node in the list (`DanglingDamages`). The third and fourth are why an
edit that leaves the list whole is always the right one. While the links agree
neither occurs (`LinkedInsertIsWhole`), so a sorted insertion succeeds unless its
element is a new maximum (`SortedRemains`).

### The averages

`AInv` is inductive: the window of each sensor holds its last readings at its
end and nothing before them (`WindowsHoldReadings`), `sum` and `counter` are
those of the window (`AveragesAreCurrent`), and what was logged is what they
ask for (`ReportIsLatest`). The sums are folds; `SumIsPartial` replaces a fold
by a function recursive over the places of the window, and inductions over the
places show that the zeros in front do not count and that bounds of the
readings bound the average.

### Induction

tlapm's library states induction with an operator as a parameter, which the
installed provers cannot instantiate. `NatInduction` states it for sets (a set
that contains 0 and the successor of each of its members contains Nat) and
derives it from the well-foundedness of the order on the naturals, which the
library states without such a parameter.

### Only model-checked

The five violated claims, and all liveness: `NewDataIsRead`, `AwakeManagerStops`, `StuckOnlyAsleep`,
`StuckOnlyInReceive`, `EveryConnectionEnds`, `ServerCloses`, `StuckOnlyAtOpen`,
`LogProcessEnds`. It rests on fairness, and tlapm reasons neither about that nor
about ENABLED. Every invariant and every action property of a passing run is
proved.

## 6. Not modelled

- `sbuffer_remove`: nothing in the repository calls it, so there is no caller
  whose interleavings would make it a behaviour of the system.
- Failures of `malloc` outside tcpsock.c (the code asserts or does not look),
  `accept`'s leak of its list node (connmgr.c:157).
- The sequence number, the time and the wording of log entries.
- Copying and freeing of elements by dplist's callbacks.
- The test programs, which are sequential, the build files and recorded data.

## 7. Plan

1. (done) SBuffer, Gateway, MeasurementFeed, their properties and the inductive
   invariant; ConnMgr with its sensors, implementing SensorService; DpList with
   its whole interface; LogPipe; RunningAverage; TcpSock.
2. (done) Proofs: both refinements; every invariant and action property of
   Gateway, ConnMgr, LogPipe, TcpSock, DpList and RunningAverage.
3. Composition: ConnMgr shown to implement the part of Gateway's CONNMGR the
   managers see.
