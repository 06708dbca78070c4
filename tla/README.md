# Honda Insight ZE1 OBD-II diagnosis tool: TLA+ specifications

The program runs on an ESP32.  It reads the values that an OBDIIC&C gauge
sends over a UART, keeps the ones that changed, and sends them to a phone over
Bluetooth Low Energy.  Several FreeRTOS tasks share its state.  This directory
specifies those tasks and the data they share, checks them with TLC, and proves
part of what is checked with TLAPS.  The repository has no tests; its comments
and declarations are the only statements of intent.

## 1. Inventory

All paths are below `src/user/`.

| component | state | operations | what makes it correct |
|---|---|---|---|
| UART reader, `driver/obdiicnc/obd_ii_cnc_uart_diagnosis_device.cpp` | `m_str_previous_content`; the device's `ao_obd_data` | its task reads chunks, splits them at CR, parses lines, writes eight values, raises `sig_obd_data_received` | no line is lost or accepted in part; a line's items are notified together |
| `CommunicationManager`, `app/communication_manager.cpp` | `ait_changed_obd_data`, `obd_data_list_mutex`, device | signal handler, `get_`/`clear_changed_obd_data`, connect | each changed item once, none forgotten |
| transmission task, `OBDDataBLETransmissionThread` in `app/ble_communication/obd_ble_interface.cpp` | the message being built | every 100 or 500 ms: read list, clear it, copy values, notify | the client ends up with the device's values |
| command mailbox, `receive_from_characteristic` / `server_receive_any_command` | `received_command`, `received_value`, `data_received_complete` | one write per message; polling calls with a timeout | no race on the two vectors, whole messages, once each |
| BLE server, `OBDServerThread::run` | connection state, mode, timestamps, transmission thread | handshake, session loop, heartbeat, end of session | a session follows a handshake, and ends with its task |
| request queue, `app/ble_communication/ble_request_queue.cpp` | queue, its mutex, one reply flag | enqueue, enqueue and wait, drain in the session loop | in order, once, no hang, the right reply |
| BLE packets, `driver/ble/ble_interface.cpp` | `current_message`, `m_bo_device_connected` | `send` cuts, `onWrite` assembles, connect, disconnect | a signalled message is the message of the phone |
| threads, `midware/threads/` | `terminate`, `task_handle`, tasks | start, stop, join, the cyclic loop; the repository's loops | stop requests are not lost, join means ended |
| application, `app/diagnosis_reader_application.cpp`, `ZE1OBD.ino` | owns all of the above | construction, startup, shutdown, destruction | nothing is used after its end |
| `std_ex::thread` in `midware/threads/thread.cpp` | a functor, `terminated` | start, join | the functor outlives the task that runs it |
| I2C dummy sender, `driver/obdiicnc/obd_ii_cnc_i2c_dummy_sender.cpp` | its task, `bo_terminate` | construction, end | its end does not hang |
| data types and parameter table, `obd_types/`, `app/shared/obd_parameters.cpp` | the list of elements every device copies | search by identifier | each value of a line gets to its element |
| dummy device, `driver/obdiicnc/dummy_diagnosis_device.cpp` | its list, its task | random changes, the signal | a value out of its bounds does not stay with the phone |
| I2C device and I2C interface, `driver/obdiicnc/obd_ii_cnc_i2c_diagnosis_device.cpp`, `driver/i2c/` | the reading task, the receive callback, the stop flag | begin, onReceive, the read loop, the destructors | the task ends before what it uses |
| I2C master transactions, trace, build files | constant, or without a caller | - | - |

The UART, the dummy and the I2C device implement one interface.  The
application constructs the UART device (the comment in
`app/diagnosis_reader_application.cpp:17` still says dummy); the other two are
there for a program that constructs one of them instead.

Interactions.  The reader calls the manager's handler through a signal, in its
own task (`midware/events/event_handler.h`).  The transmission task calls the
manager's getters.  The BLE stack's task calls `onConnect`, `onDisconnect` and
`onWrite`, and the last one, through another signal, the mailbox.  The server
thread polls the mailbox, starts and joins the transmission thread and drains
the request queue, into which application threads put requests.

Hard behaviours.  Five kinds of tasks, hardly a lock: the list mutex and the
queue mutex are the only ones that two tasks contend for.  Everything else is
an atomic flag or nothing.  Links drop inside a message, a handshake or a
session, and no state is reset when they do.  Timeouts of the two sides of a
wait differ.  Task creation can fail and is not looked at.  `PROJECT.json`
lists these hazards one by one, each at its line, with the properties that
cover it or the reason why none does.

## 2. Modules

### ObdDataPipeline, ObdDataPipeline_proofs (core)

From a data line to the phone: `value` is the device's list, `changed` the
manager's, `listMutex` its mutex.  The reader task goes through `read`,
`write`, `collect` (`uartPc`); the transmission task through `get`, `clear`,
`encode`, `send`, `notify` (`txPc`).  One action per statement that touches something
shared: reading the list and clearing it are two critical sections, as in
`run()`, and the copy of a value - which takes no lock - is two steps, one per
half, so that a copy may mix two writes.  The list has iterators, not values:
what is sent is the value at the time of the copy, and the model keeps it so.
`send_interface` looks at the connection once: `Drop` is its early return
without a client, `SendInterface` the call of `send()` with one.  `send()` then
notifies packet by packet (`NotifyPacket`, the last one in `Deliver` or `Cut`),
whatever the link does meanwhile: `unsent` is what is left of the `MsgSize`
bytes, and each round takes `PacketSize - 1` of them.  `notify()` has no result
and nothing is repeated, so a packet without a client, or one the BLE stack has
no room for, is lost, and so is a message that the link breaks in two.  What
the phone makes of part of a message is not in `src/`: here it makes nothing
of it.  The session and the link change at any time; `ObdServer` says how.

Three histories: `whole`, whether the packets so far have arrived at one
client; `client`, what the phone has received last; and `lost`, the items whose
notification was dropped in one of the three places where that happens - the
clear, a send without a client, a message of which not every packet arrived -
and not renewed since.

- `NoDuplicates`: an item is at most once in the list, the copy and the message.
- `SnapshotIsPrefix`: until the clear, the copy is a prefix of the list, so the
  clear drops exactly what was appended since.
- `StaleIsTracked`: an item the phone does not have the present value of is on
  its way or in `lost`.  In particular a torn copy is repaired by a later
  message, unless that one is dropped.
- `LinesAreWhole`: the mutex keeps a data line's items together.
- `NotifiedIsSentOrDropped` (liveness): in a session nothing waits for ever.

The values are written under `m_o_obd_data_mutex`, which no other task takes,
so it is left out.  One transmission task is modelled: `ObdServer` shows that
a session has one as long as its starts are clean.  With two at a time, after a
join that does not wait, the older one may send a value after the younger one
has sent the next, and `StaleIsTracked` says nothing of that case.

### CommandSlot, RxMailbox, RxMailbox_proofs

`CommandSlot` is what the mailbox promises: a slot for one whole message; it
is put into an empty slot, taken whole and once, and a call gives up only
while the slot is empty.  `RxMailbox` is the code, statement by statement,
with each access to one of the two unlocked vectors as a step.  It implements
the slot under the mapping `slot <- IF flag THEN <command, value> ELSE Empty`
(`ImplementsSlot`).  `NoDataRace`, `WholeMessage` and `WrittenIsReturned` (a
message that is being written is returned in the end) are the consequences the
server relies on.  `FlagIsOwnership` is why they hold: it is no property of a
run but the strengthening the proofs need.

### CyclicThread, ThreadRepository, StdExThread, Application, Application_proofs

`CyclicThread` has the operations of a thread object and the steps of a task.
A handle in `start_task()` is stored in a local variable that hides the
member, so `handle[t]` is FALSE for ever and `JoinReturn` never waits.
`xTaskCreate` may fail (`StartFails`).  `ThreadRepository` adds the loops over
`m_threads`.

`StdExThread` is the other kind of thread of the program.  Its constructor is
three steps (the functor and the flag, `xTaskCreate`, the return that destroys
the functor), and its task uses the functor when it begins and when it ends.
What a task does that finds a freed functor is undefined: it goes on as if the
functor were there, or the program is lost.

`Application` composes the two: the constructor and the destructor of
`DiagnosisReaderApplication` as the places of the main task (`mainPc`), with
`startup()` and `shutdown()` of the server and the destructors of the members
in the order C++ gives them; the reader's task, the sender's, the measuring
tasks, the server's task and the phone run meanwhile.  `alive` has the members
that exist; a task that uses another one makes the program `wild`, and the
model stops there.  After `join_all_threads()`, which does not wait, that is
the normal end: the thread objects are gone when their tasks wake up.  The
sketch never destroys its application, so this is about the class.

- `JoinedIsStopping`: no stop request of `join_all_threads()` is lost, although
  a task that ends clears the flag of its object.
- `ServerIsServed`: the server's task runs only when the handler for commands
  is connected and the transmission thread exists.
- `EndedIsIdle`: a member with a `std_ex::thread` ends only after the task has
  left its methods.  It is why the end of the device hangs while its reader
  runs, which is for ever.
- `SenderIsJoined` (liveness): the end of the sender does not hang, whether its
  task was created or not and however early it ended.

Left out: `is_connected` of the manager and the items of interest, which are
set and never read; the lines the reader reads before the manager's handler is
connected, which are notified to nobody.

### ObdServer

`OBDServerThread::run` with what it calls: waiting for a client, the handshake,
the session loop with both timers, the end of a session.  It extends
`CyclicThread` for the transmission thread it starts and joins, and uses the
slot of `CommandSlot` for the mailbox, which `RxMailbox` justifies.  In one half
of the behaviours (`polite = FALSE`) the client connects, leaves and sends
anything at any time; in the other half it stays and answers each question
before the server's timeout.  A value byte that is missing
is read all the same (`obd_ble_interface.cpp:370`): the model lets it be any
mode or none.  Time is counted in polls of the session loop; a message may
take a tick of the heartbeat's timer or not.  `disconnect()` has no effect and
no action.

- `HandshakeOrder`: a session has taken exactly the three messages of the
  handshake, in their order.
- `TxTaskFollowsSession`: one task at most in a session, not told to stop;
  outside of one, every remaining task is stopping.  The property is
  conditional on `cleanStarts`: no `xTaskCreate` failed and no task of the
  last session was still running when the next one began.
- `IntervalFollowsMode`: mode and cycle time never get out of step.
- `DeadLinkEndsSession`, `HeartbeatGoesOn`: the two timers do their work.
- `PoliteClientConnects`: a polite client gets a session from every handshake
  that begins with an empty mailbox, whatever has happened before.  With a
  message in the mailbox it may be refused (see the observations).

### BlePackets, BlePackets_proofs

The format of messages: `send()` as the phone runs it - the two programs share
the format, and the tool's own sending is the same code - and the tool's
`onWrite()`.  A disconnect loses the packets on the way but keeps
`current_message`, as the code does.  Lengths are counted against
`PacketSize`, so every boundary of `remaining < 20` with 19 bytes of payload
has its counterpart in the small instance.  `TypeOK` says more than types here:
the buffer is always the beginning of one message, however often links drop;
`SignalledEndsWithMessage`: what is signalled ends with the whole message, and
is nothing but it unless a disconnect had left bytes in the buffer and the
message fits into one packet.

### UartLines

`thread_diagnosis_reader_main` and `parse_received_uart_data`: any chunking of
the gauge's characters.  A character is known by its line and its place there,
the carriage return being in the place behind the others; the fields are
counted by length.  `Items` is the loop over `std::getline`, as a function of
the characters: a step of it (`Getline`) begins an item at the first character
and behind each carriage return, and puts every other character into the last
item.  The conversion of a field to a number is left out, as is the case of a
NUL character in the stream.

- `AcceptedAreLines`: only whole lines are accepted, in their order, none twice.
- `NothingLost`: until a remainder is discarded, each character but the
  carriage returns is in the pieces and the remainder, in order.
- `MissedOnlyAtChunkEnd`: a line is missed only if its carriage return or the
  one before it ended a chunk.

### UartData, UartData_proofs

`parse_uart_data_line` on the lines `UartLines` accepts: the first value of a
line decides which group of eight identifiers it has, each identifier is looked
up in the list (`Find`, the first element that has it - the table has 0x00
twice), and the element gets the value.  The list has its real 257 elements.
A value is named by its line and place.  Which lines have the values of the
battery (`BatteryLines`) is the gauge's affair, and so are the numbers they
begin with (`FirstValue`): nothing is assumed of either.  So a line can be
taken for the other kind by the code's test of 120 V, in both directions
(`Misread`): a battery at 120 V or less, to which the table gives 80 V to
190 V, and another line that begins with more than 120.

- `ElementsHaveNewest`: an element of a group has the value of the newest
  accepted line that the gauge sent for that group, at its place there - but
  for the misread lines, which alone get to elements that are not theirs and
  alone miss their own (`WrittenTo`).  All other elements are as they were.

### RequestQueue

Application threads against the server's drain, with the shared reply flag,
the queue's mutex held during the waits, and both timeouts.  The server
thread's other work is left out; `ObdServer` has it.  Sessions come and go
(`BeginSession`, `UnlockQueue`), and the queue survives them, as in the code.

### DummyDevice, I2cDevice, DiagnosisDevices, DiagnosisDevices_proofs

`DummyDevice` extends `ObdDataPipeline`: its reader takes the place of the UART
reader, and the handler, the transmission task and the phone are the same
actions as before.  A change is three stores to the element in place - sum,
upper bound, lower bound (`store`) - between each two of which the transmission
task may copy it.  The reader runs from the device's constructor on;
`manager` says how far the program is that constructs the manager and the
server after it.  The table has no initial values: `value_f` is 0.0 when the
first change is made, which is below the bounds of an element like the
battery's voltage, and so is what the first rounds may show for a moment
(`Reach`).

- `MomentIsTracked`: a value the phone has and the device has not is on its way
  to be replaced, or its notification was unheard or dropped (at one of the
  three places of the pipeline), or the element is being changed just now.
- `OutOfBoundsIsSentAgain` (liveness): a value out of its bounds does not stay
  with the phone.

`I2cDevice` extends `StdExThread`: the owner's steps (`devicePc`) through the
constructor - `begin()` starts the task, `onReceive()` assigns the callback
after that, in more than one store - and the destructor, against the steps of
the reading task (`readPc`).  A call of a half-assigned callback, or a freed
functor, leads the program `astray`, and the model stops there.

- `ReaderIsOwned`: the interface ends only when its task is out of it, and the
  callback is misused only during its assignment.
- `DestructionEnds` (liveness): the destructor does not hang, whatever the bus
  does and whether the task was created or not.

`DiagnosisDevices` is the program with one device or the other.

## 3. Runs

All instances are small; each bound is the smallest with which the case the
property is about happens.  For every property of every passing run
`PROJECT.json` names a mutant: an operator beside the original, with the kind
of bug a programmer might make, under which TLC finds the property violated.
These operators are marked "Mutant" and are not used by any specification.

| run | instance | shows |
|---|---|---|
| `ObdDataPipeline` | two data lines (two items and one item), one item with two values, packets of 20 bytes: a message of three items takes two | the invariants and the liveness property; about 145 000 states |
| `RxMailbox` | two commands, a value or none | race freedom, whole messages, refinement of the slot, liveness |
| `Application` | two measuring threads with a task each | construction and destruction against all tasks; about 300 000 states |
| `ApplicationJoin` | same | *violation*: `join_all_threads()` returns while tasks run |
| `ObdServer` | two tasks, silence after 3 ticks, heartbeat after 2 | safety and liveness against an arbitrary and a polite client; about 218 000 states |
| `BlePackets` | packets of 1 + 2 bytes, messages up to 6 bytes: one to three packets, the last one full or not | reassembly |
| `BlePacketsStale` | same | *violation*: leftovers in front of a single-packet message |
| `UartLines` | lines of 3 + 1 characters, chunks of 1 to 5, eight lines of two kinds with three misread ones, remainder up to 4, the list of 257 elements | what is accepted, lost, missed, and where it is written; about 7 000 states |
| `UartLinesSplit` | same | *violation*: a line whose CR ends a chunk is never parsed |
| `RequestQueue` | two threads, two calls each | no reply older than its call, no hang, drain across sessions |
| `DiagnosisDevices` | the dummy with one element of range 2..3, the initial value 0 and changes of at most 1, or the I2C device | both devices; about 185 000 states |
| `RequestQueueReply` | same as `RequestQueue` | *violation*: a call takes the reply to another |

Why the bounds are enough.  Pipeline: a line with two items is needed for
`LinesAreWhole`, a second line for what falls in the gap between read and
clear, three items for a message of two packets between which the link may
drop, two values for a torn copy; a third value would be no new case, as the
properties compare for equality only.  Packets and lines are periodic in the
sizes, and the instances cover each remainder.  Queue: two threads and two
calls are what it takes for a reply to meet another thread's call and an older
call of one's own.  Server: the timers need one tick below and one above their
limit, and two tasks are what an unfinished join can leave.

Devices: with a range of 2..3 and steps of 1 an
element can be one too low and one too high, and with 0 it begins below its
range by more than a step, as the battery's voltage does; the interleavings of several
elements are the pipeline's own, and two elements with four values each are
beyond what TLC does in minutes.  Application: the program
has one measuring thread and, switched off, a second one; two are what it
takes for the loops of the repository to have a next element.

Bounded by guards: `MaxLines` (UartLines), `MaxLen` (BlePackets), `MaxCalls`
(RequestQueue).  Deadlock is not checked where the system really stops: after
destruction, and at the end of the gauge's characters.

### Fairness

FreeRTOS runs the tasks with time slices and all of them sleep in every round,
so every task gets weak fairness; that holds for the dummy's task and the I2C
task, too (`DevicesFairSpec`), while nothing makes a device end or a manager
appear.  Clients, data lines and replies get none, except that the polite
client connects and answers.  The mutexes need strong fairness for the task
that asks for them: a FreeRTOS mutex queues its waiters, and hands itself to
them in turn.  `HeartbeatGoesOn` assumes, besides, that time passes
(infinitely many ticks).

### Findings

1. `ApplicationJoin`: "Wait for all threads to have finished"
   (`thread_repository.cpp:29`).  `thread.cpp:125` declares a local
   `task_handle`, so `join()` never waits.
2. `BlePacketsStale`: "If a new message has been received, clear the buffer"
   (`ble_interface.cpp:84`).  A single-packet message starts with
   `BLE_PACKET_END`, for which the buffer is not cleared.
3. `UartLinesSplit`: "Keep the remaining what is yet unparsed for future use."
   (`obd_ii_cnc_uart_diagnosis_device.cpp:258`).  A chunk that ends with CR
   leaves a complete line without its CR; the next line is glued to it.
4. `RequestQueueReply`: "thread safe" (`ble_request_queue.hpp:53`).  All calls
   wait on one flag.

Observations without a run of their own, as they follow from the models or no
line of the repository speaks of them: an update that is notified between the
read and the clear of the list is lost (`lost` in the pipeline; the comment at
`communication_manager.hpp:32` would have it otherwise); values that have not
changed are notified all the same, as a line notifies its eight items; the
filter for items of interest is compiled out (`obd_ble_interface.cpp:60`); a
client that connects within the silence limit inherits the handshake or the
session of the one before; a message left in the mailbox answers the first
question of the next handshake, and with every answer one late even a polite
client may be refused again and again after its first session; requests that
are in the queue when a session ends are sent in the next one, when their calls
have long given up; a session whose task could not be created,
or was started while the last one still ran, may have a task that stops at once
(`TxTaskFollowsSession` is about the others); an update is lost without a trace
when the link goes during `send()`; the eight values of a battery at 120 V or
less go to eight other elements, although the table gives 80 V to 190 V for it;
whoever destroys the UART device waits for its reader for ever; the dummy device
can notify elements before a manager listens, and a phone can get a value
beyond the bounds for a moment.  Without a caller, and so without a model: the
loop of the free function `on_i2c_receive`, which never returns once 101 bytes
have come, and `process_message`, which reads four bytes through a pointer to
two; the unlocked copy of `error_codes`; a second `startup()` after `shutdown()`.

## 4. Proofs

`RxMailbox_proofs`, for any set of commands and contents, from
`ConstantsAssumption` (the special values are none of the ordinary ones):

- `IInvCorrect`, `MailboxTypeCorrect`: `IInv == TypeOK /\ WholeMessage /\ FlagIsOwnership` is an
  invariant.  `NoDataRace` and `WholeMessage` are not inductive: nothing in
  them says why the BLE task does not start writing while the server copies.
  The strengthening is ownership: whoever is in the vectors owns the flag, and
  what is written so far is what the owner was given.  One step per action.
- `NoDataRaceCorrect`, `WholeMessageCorrect`: consequences.
- `ImplementsSlotCorrect`: `Publish`, `Release` and `CheckFails` map to `Put`,
  `Take` and `GiveUp`, every other step to a stutter.

`ObdDataPipeline_proofs`, for any items, values, lines and size of packets,
from the module's assumptions (an initial value among the values, lines without
common items, packets with room for a byte beside the first one):

- `TypeCorrect`.  Types alone are not inductive: that the head of the copy
  exists when its second half is copied needs `PlaceInv`, which says what the
  places of the two tasks imply for the message, what is unsent of it, the
  copy, the half and the mutex.  All other proofs use `Base == TypeOK /\ PlaceInv`.
- `NoDuplicatesCorrect`, `SnapshotIsPrefixCorrect`: inductive beside `Base`.
- `StaleIsTrackedCorrect`.  The strengthening is `CopiesTracked`: a value in
  the message, or a copied half, that is no longer the device's belongs to an
  item that is still to come (written and not handed over, or in the list).
  It says why a torn copy does no lasting harm, and it holds only because the
  reader writes a value before it puts the item on its way.
- `LinesAreWholeCorrect`.  The strengthening `LineOnItsWay` follows the one
  line between its first write and the end of the handler, during which the
  list may have a part of it, and of it only.

The rest of that module are lemmas about `ToSet`, `IsInjective`, `IsPrefix`
and `PushIfNew` on arbitrary sequences.

`ObdServer_proofs`, for any tasks, thread objects and limits, from
`LimitsAssumption` and `NoThreadAssumption`.  All four invariants follow from
one inductive invariant, `ServerInv`:

- `TimersRun`: a poll begins with timers within their limits (why
  `ServerTypeCorrect` holds: the timers stop one tick beyond).
- `HandshakeSoFar`: what has been taken, at each place of the handshake (for
  `HandshakeOrderCorrect`).
- `OneTask`, with `TasksAreTx`: with clean starts there is at most one task, a
  session has it, and after the session the flag is set exactly until that task
  clears it (for `TxTaskFollowsSessionCorrect`).  The last part is what makes
  it inductive: without it the task of the next session might find the flag set.
- `IntervalFollowsModeCorrect` needs no strengthening.

`RequestQueue_proofs`, for any callers and number of calls:
`QueueTypeCorrect` and `ReplyIsYoungerThanCallCorrect`, with `InHand` (who is
about to queue has begun a call; who waits for a reply has sent a request) and
`LockedInDrain` (the mutex is the server's exactly during the drain).

`DiagnosisDevices_proofs`.  For the I2C device alone, with any set of threads:
`ReaderIsOwnedCorrect`, with `TaskFollowsFlag` (a task is created once, and the
flag `join()` waits for is set only when there is none or it has ended) and
`CallbackFollowsDevice`.  For the program with either device, any elements,
ranges and values, from `RangeAssumption` (which does not want the initial
value to be within the ranges): `DevicesTypeCorrect`,
`MomentIsTrackedCorrect` and `DevicesReaderIsOwned`.
The steps the dummy shares with the pipeline are
covered by the lemmas of `ObdDataPipeline_proofs` as they are: there, `Tracked`
has a parameter for the elements written and not yet on their way, empty for
the UART device and `Changing` for the dummy.  Beside it the invariant says how
far an element can be from its bounds, or its initial value, at each store
(`WithinReach`: the type of
the values needs it) and that nothing is copied before the manager is connected
(`Places`: a signal that nobody hears loses nothing that was sent).

`Application_proofs`, for any measuring threads and any tasks, from the
assumptions of the modules (in particular that the thread objects of the
repository are different ones: each is a member of its own).  The four theorems
follow from `AppInv`, in two halves, one for the repository and one for the
place of the main task:

- `StartedTasks`: a task belongs to a thread that has been started, and a
  thread has at most one; with `StoppedThreads` (the threads that the loop of
  `stop_all_threads()` has passed are stopping) it gives
  `JoinedIsStoppingCorrect`.  A thread counts as stopping (`Stopping`) when its flag is
  set, or its task has just cleared the flag at its end.
- `ExThreadsFollow`: before the place in a constructor that creates a task there
  is none and the flag is not set, at that place the member exists, and the flag
  is set only without a running task.  `join()` waits for the flag, so
  `EndedIsIdleCorrect` follows.
- `ServerIsBuilt`: what `startup()` has built at each of its places, for
  `ServerIsServedCorrect`.

`BlePackets_proofs`, for any packet size and any length of the messages, from
`SizeAssumption` and `TagAssumption` (there is a message):
`PacketsTypeCorrect` and `SignalledEndsWithMessageCorrect`.  The strengthening
is `OnItsWay`: unless nothing is on its way, there are places `cut[0] <= ... <=
cut[n]` of the message such that the receiver has it up to the first (or has
leftovers, if that is 0), the n packets in the air are the parts between them,
with the first bytes `send()` gives them, and the phone has the rest (`Cuts`).
Sending adds a place at the end, writing drops the first one.  `CutOut` says
what `remaining < 20` makes of a part, and that a message of one part is shorter
than a packet: leftovers get in front of such a message only.

`UartData_proofs`, for lines and chunks of any sizes, any number of lines and
any numbers in them, from `SizesAssumption` and `GaugeAssumption` (the types of
`BatteryLines` and `FirstValue`, and no more):

- The state is only seen between chunks, but a chunk holds any number of lines.
  So the invariant is about any character, not about the ends of chunks:
  `Good(pieces, rest, c)` is to hold when `c` is the last character the loop
  over `std::getline` has seen, `pieces` are the items it has closed and `rest`
  the one it is in.  `PutBehind`, `CutOff` and `StartAnew` say that a
  character, a carriage return, and the first character behind one keep it;
  `ChunkIs` goes through the chunk by induction, and `Keep` either keeps the
  remainder or discards it.  `UartInv` is `Good` at the end of a chunk, with
  `Glued`: a carriage return that ended a chunk is in `lastAtCR`.
- `Good` has four parts: pieces are runs of characters as the gauge sends them,
  end with a line and follow each other (for `AcceptedAreLinesCorrect`: a run
  with the length and the one header of a line is a line); the rest ends with
  the last character; nothing is missing between them until a remainder is
  discarded (`NothingLostCorrect`); a line that no chunk end has touched has a
  piece of its own (`MissedOnlyAtChunkEndCorrect`).
- `ElementsHaveNewestCorrect`, for the real table of 257 elements: a second
  induction, over the pieces (`ObdDataIs`), in which each accepted line writes
  the eight elements of the group it is taken for and no other.  The last of the
  accepted lines taken for a group is the newest of them by `AcceptedAreLines`,
  and they are the group's own lines with the misread ones exchanged
  (`WrittenToIs`).

Two techniques of that module are worth a note.  The theorems of the library for
induction take an operator as a parameter, which the installed provers cannot
instantiate.  `NatInduct` states induction for a set of naturals instead (from
`LeastElement`), and a proof by induction names the set of the numbers for which
its statement holds.  For the same reason a recursive function has to be shown
to exist before its defining equation can be used: `ItemsExist` and
`TablesExist` do so, extending a function on `0..n` to `0..n + 1`.

Only model-checked: the liveness properties (they need fairness and ENABLED).
Every invariant that a passing run checks is a theorem.  The four runs that
expect a violation have nothing to prove.

## 5. Not modelled

- Number conversion, message layout in bytes, traces, wording: data the
  properties do not tell apart.
- `set_transmission_request` and `clear_transmission_request`: they set flags
  nobody reads.
- I2C as a master (`beginTransmission`, `write`, `endTransmission`) and
  `process_message` of the I2C device: no caller in the program.
- Descriptions, units and bounds of the parameter table, but for what
  `parse_uart_data_line` uses; the comparison of values, which nothing calls.
- Two transmission tasks at a time in the pipeline (see `ObdDataPipeline`).
- Trace, build files and project settings: no state of the program.
- The BLE stack and the I2C driver: a write is one callback, callbacks come one
  at a time, a read of the bus has bytes or has none.

## 6. Plan

What the models leave to do:

1. `ObdDataPipeline` with a set of transmission tasks, to say what a phone may
   be left with when two overlap.
2. `ObdMessage`: the size of the message against the fields written to it, as
   pure operators with a reference definition.

Theorems next: that `RequestQueue` sends what is queued in order, and each
request once, as an abstract queue with its refinement; an upper bound for what
a reader can lose of the gauge's lines (at most two lines for each chunk that
ends with a carriage return), from `MissedOnlyAtChunkEndCorrect`.
