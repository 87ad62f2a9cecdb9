# A verification project for MDSplus

MDSplus stores the data of fusion experiments in trees. This project models the
parts of it that hold *control* logic, where steps of several threads or
processes interleave, calls fail half-way, or a long sequence of legal calls
works on one structure:

* action dispatching (`src/servershr`): a pulse is run by a dispatcher that
  sends the actions of a tree to action servers, phase by phase, and waits for
  them. Threads, callbacks, read-write locks, condition variables, thread
  cancellation, reply sockets;
* the mdsip protocol (`src/mdstcpip/mdsipshr`): requests, answers and events
  over one connection, and what an interrupted or half-sent one does to the
  next;
* editing a tree (`src/treeshr`): nodes in an array with a free list, linked by
  relative offsets, written to files now and then.

The rest of the repository is expression evaluation, data conversion, drivers
and language bindings (see "Not modelled").

## Inventory

| Component | State it keeps | Operations | Hard behaviour |
|---|---|---|---|
| Dispatch table builder (`ServerBuildDispatchTable.c`) | the `DispatchTable` of `ActionInfo`, the TDI variables `_ACTION_nid` | build (read the nodes, sort, link the conditions), free | references across phases; the table is freed while jobs point into it; limit of 10000 actions |
| Phase dispatcher (`ServerDispatchPhase.c`) | `table`, flags and lock of each action, `AbortInProgress`, ranges of the phase, `failed_essential` | `ServerDispatchPhase`, callbacks `before` and `action_done`, `ServerFailedEssential`, disarm | two threads walk the dependency graph recursively and take a lock per action; the wait between groups; what a phase reports |
| Monitor queue (same file, 855-952) | queue of messages to the monitor, its thread | `send_monitor`, the sending thread | queue and thread that ends when it is empty |
| Job table (`Job.h`) | the list `Jobs` with callbacks and conditions | register, callback, pop, wait, cancel, clean up | jobs ended by one thread while another one uses them; who wakes a waiter |
| Connections (`Client.h`, `ServerSendMessage.c`) | the list `Clients`, the receiver thread, the reply sockets, the connections of each thread | connect, disconnect, send, receive, accept, reset | handshake that races the reply; callbacks that send; clients freed by another thread |
| Action server (`ServerQAction.c`) | job queue, `CurrentJob`, worker thread, reply sockets, monitors, `STATIC_*` | `ServerQAction` (queue, abort, remove last, logging, show, stop), the worker | worker started by two clients, cancelled at any cancellation point with locks held |
| mdsip exchange (`SendArg.c`, `GetMdsMsg.c`, `GetAnswerInfo.c`, `MdsValue.c`, `Connections.c`, `ProcessMessage.c`, `DoMessage.c`) | per connection: `state`, message id, collected descriptors, event list | connect, send the arguments, read the answer, execute, deliver an event, disconnect | a request is several messages; errors in between leave the stream out of step; events share the socket |
| Tree editing (`TreeAddNode.c`, `TreeDeleteNode.c`, `TreeRenameNode.c`, `TreeSetNci.c`, `TreeVerify.c`, `TreeSetDefault.c`) | array of nodes, free list, deleted list, conglomerate being built, externals, default node, characteristics | add, conglomerates, rename, delete, set usage, on/off, write | relative links in two directions, deletion in order of numbers, writes that fail in between |
| Dispatcher requests (`ServerAbortServer.c` and others) | none | one message each | none |
| Server discovery, command line, TDI, mdsshr, bindings, devices | their own | | not part of the above |

How they interact: `DISPATCH/BUILD` builds the table. `DISPATCH/PHASE` runs
`ServerDispatchPhase` in the main thread, which sends each action with
`ServerSendMessage` (connect, register a job, send the command over mdsip, read
a handshake). On the server, a thread of mdsip per client executes
`ServerQAction`, which queues a job and starts the worker. The worker opens a
socket back to the dispatcher and sends `STARTING` and `FINISHED`; the
dispatcher's receiver thread finds the job and calls `before` and
`action_done`, which sets the TDI variable of the action and dispatches the
conditional actions whose condition now holds. Main thread and receiver thread
share the table. The commands travel over mdsip, as do all remote expressions;
actions are nodes of trees.

What makes each correct: groups of `/SYNCH` do not overlap; a conditional action
waits for what it names; a phase returns, and when it does the statuses in the
tree and `failed_essential` are true; each message is called back once, and no
job is forgotten when a server goes; a server executes its queue in order, one
job at a time, answers each job, survives an abort wherever it hits, and does
not lose a wake-up; an mdsip server executes whole requests, and a client gets
the answer to what it asked; the nodes of a tree stay a tree in which nothing
is lost, whatever was edited between two writes.

## Modules

* `ActionTable` - the finished dispatch table (constants, with the order `qsort`
  leaves as assumption `TableSorted`), the look-ups `FIND_NEXT_ACTION`,
  `set_action_ranges`, `set_group`, the statuses and the value of a WHEN
  expression. A status is a success when its low bit is set; one number stands
  for all failures of a server. Of a WHEN expression the model keeps the kind:
  a name (`same`), a conjunction (`all`), a disjunction (`any`), or one that
  cannot be evaluated (`invalid`). An action that is off is not in the table;
  for a condition that names one, an action of a phase that is not dispatched
  behaves the same.
* `DispatchPhase` - the dispatcher process. Each of the two threads has a call
  stack, because `dispatch`, `action_done` and `action_done_action_unlocked`
  call each other recursively; one step runs from one lock operation to the
  next. Sections under `WRLOCK_ACTION` contain nothing that blocks and are one
  step. The lock of an action is represented by the read locks that were never
  released (`readers`). `jobs` is the list `Jobs`, a job being named by its
  action and the thread that registered it; `live` are the jobs whose callback
  was not taken yet. The receiver's work starts with `job_starting`,
  `job_finished` or `connection_lost`. What happens to a message inside
  `ServerSendMessage` is kept short here and is the subject of `JobTable`.
* `JobTable` - `Job.h`, `Client.h` and `ServerSendMessage.c`: threads that send,
  wait, cancel and disconnect, one receiver thread, the servers and the reply
  sockets. A message names its job. Each thread is a call stack of small steps.
  Sections under `jobs_mutex` call nothing and are one step; `clients_mutex` is
  held across callbacks and is a variable. Connections belong to the thread that
  opened them (`openIn`): the connection list of mdsip is thread-local. Memory
  that was freed (`freed`, `stale`) keeps its last value. An event a server
  sends to its monitors carries a job id from `Events`; the answer to a check-in
  (`SrvJobCHECKEDIN`) opens the reply socket and changes nothing else. Left out:
  a signal that interrupts `select` twice in a row, which sends the receiver to
  `reset_fdactive` as a closed socket does; `ServerSOCKET_ADDR_ERROR`, for a
  connected socket without a local address; and the branch for a `SrvStop` that
  is answered, since the server exits before it answers.
* `Callbacks` - what `JobTable` promises: each message with a completion
  callback is called back at most once (`Spec`), and every registered one is
  called back (`FairSpec`). `JobTable` implements it with `calls` and `known`.
* `ActionServer` - the server process: callers (threads of mdsip) and workers.
  A worker's steps are cut at the cancellation points (`log`, `task`, `check`,
  `open`, `send`, `sent`, `cleanup`, `wait`); `cancelled` is the step that takes
  effect there, with the locks the worker holds left locked. The doubly linked
  queue is a sequence. The sockets of clients in `Broken` may fail at any point
  of `send_reply`. An EPIPE is only produced by a socket that was opened
  earlier: the first bytes on a fresh connection do not meet a closed one.
* `MdsipExchange` - one client thread, one connection after the other, and the
  server thread that serves it. A request is a message per argument (`up`); what
  the client reads (`down`) is a sequence of headers and bodies, because the two
  are read separately. When the stream is out of step, a read takes as many bytes
  as it asks for and may end within a part: what it leaves is a `Rest`, as long as
  a header or longer, or a `Scrap`. A body shorter than a header (`Short`; that of
  an event is) does not fill a header, and the reader waits for `more` without a
  time-out, as `get_bytes_to` does. The server
  collects the arguments in `descrip` by their message id alone. Ids are bytes that
  skip `INVALID_MESSAGE_ID`. Faults: a send that fails (before its first byte),
  an argument that cannot be serialised, an interrupted wait, a body that comes
  too late, a lost connection. A refused argument (`Bad`) is answered at once.
  Left out: a send that fails after its first byte (ten interrupts in a row in the
  middle of a message, `SendMdsMsg.c:45-73`), a message without a body, and
  taking an event back. The client is not Java: a Java client gets no answer to
  a request for events (`ProcessMessage.c:769-775`, `799-805`) and asks for none.
* `TreeEdit` - the structure of a tree open for edit. `node` is the array;
  `free` is the head of the free list, whose two directions are the fields
  `parent` and `child` of a free node. `deleted_nid_list` are the nodes that
  become free with the next write. A write (`_TreeWriteTree`) ends in one of
  `Outcomes`: the new file cannot be created, writing the tree or the
  characteristics fails, moving the new file in place fails, or all is done.
  `nci` has the two flags that turn a node off, as they are found by the number
  of the node; after a partial write of the characteristics those in memory are
  found at other nodes (`Written_nci`); `external` is the list of
  references to subtrees. Lists of nodes are the sets of what their links lead to
  (`Brothers`, `FreeList`); a run of free nodes is named by its first one. A path
  is a parent and a name. The shape of a path
  that `TreeFindNode` follows, tags and data are left out. Also left out:
  `_TreeDeleteNodeInitialize`, which marks nodes, and `_TreeDeleteNodeExecute`
  are calls of their own; here one node is marked and deleted in one step, with
  no edit in between. A new name longer than the 12 characters of a node is
  copied over the fields behind it (`TreeRenameNode.c:213`); names here fit.
  When reading or writing the characteristics of a node that was just added fails
  (`TreeAddNode.c:195-206`), the node is in the tree although an error is
  returned, and `modified` is not set; here they do not fail.
* `NodeTree` - what editing promises: a set of named nodes under a root, each
  with its parent; a node is added, moved with all below it, or removed with all
  below it, and no two nodes of one parent have the same name. `TreeEdit`
  implements it by following the links (`TreeSpec`).
* `DispatchPhase_proofs`, `JobTable_proofs`, `JobTable_results`,
  `ActionServer_proofs`, `MdsipExchange_proofs`, `NodeTree_proofs`,
  `TreeEdit_proofs` - the theorems. `JobTable_results` builds on the invariants
  of `JobTable_proofs`, `TreeEdit_proofs` on the facts about links, trees and
  lists in `TreeEdit_lemmas`.
* `MCDispatchPhase`, `MCActionServer`, `MCJobTable`, `MCMdsipExchange`,
  `MCTreeEdit` - the instances for TLC.

Operators named `<definition>_<word>` with a comment "Mutant of" are mutated
forms of a definition; no specification uses them. They show that each property
can be broken by a plausible mistake in the code.

## Runs

| Run | Instance | Checks |
|---|---|---|
| `phase_chain` | two groups (or one, `/SYNCH` 1 or 10), a condition and one that cannot be evaluated on it, two servers, connections fail or get lost | `TypeOK`, `GroupBarrier`, `PhaseReport`, `EssentialReported` |
| `phase_again` | two phases on two servers, a condition on an action of the first and a disjunction over both; two commands in any order, `/SYNCH` 1 or 10, `/NOACTION` or not, connections fail | `GroupBarrier`, `PhaseReport`, `DependencyOrder`, `EssentialReported` |
| `phase_returns` | one condition with one reference and three jobs on one server, all faults, fairness | `LockLeak`, `PhaseReturns` |
| `server_abort` | one client, three jobs, two aborts with and without flush, remove, logging, one reply socket that fails, up to three workers | `TypeOK`, `OneAfterOther`, `Answered`, `UsesLive`, `ExitUnlocked` |
| `server_live` | two clients, two monitors check in and a broadcast, remove; up to two workers, the socket of one monitor fails, fairness | `Answered`, `UsesLive`, `EveryJobEnds` |
| `jobs_faults` | a wait and an action with a follow-up on another server; one server may go, connecting and any handshake may fail, two `ServerDisconnect` | `TypeOK`, `TrueStatus`, `Settled`, `ListsLive`, `CallbackSpec` |
| `jobs_live` | a wait that may be cancelled, a check-in whose callback sends `SrvStop` to the same server, an action; one event, one `ServerDisconnect`, fairness | `UsesLive`, `TrueStatus`, `CallsReturn`, `CallbackFair` |
| `exchange` | three requests of two to four arguments, one by `MdsIpGetDescriptor`, one argument refused, one request for events; the bodies of one answer and of events are short; two faults of any kind, one event; ids from 254 on | `TypeOK`, `RequestIntact`, `OwnAnswer`, `CallsReturn` |
| `tree_edit` | an array of two nodes that may grow to four, two names, conglomerates of two, writes that fail or succeed | `TypeOK`, `Linked`, `Accounted`, `Successive`, `TreeSpec` |
| `tree_state` | the same array; up to two nodes off, one reference to a subtree, writes that fail before or after the files are written | `StateKnown`, `ExternalsLive` |
| `v_conjunction` | a conjunction over two groups, followed by a third, no faults, fairness | `DispatchedWhenTrue` (violated) |
| `v_default` | node 1 may be made the default node; writes succeed | `NotIntoSpace` (violated) |

Bounds.

* Tables have three or four actions: enough for two groups or two phases, for a
  chain of two conditional actions, for a condition over two actions, and for
  two jobs in flight on a server whose connection is replaced by the receiver.
  `MaxCalls` is the number of `DISPATCH/PHASE` commands; two are needed to see
  what one leaves to the next. In `phase_again` both threads dispatch one action:
  a connection that fails completes its action in the main thread, which walks
  through the references while the receiver completes one of them. A conditional
  action whose reference is in flight again is dispatched there, too. The servers
  of that run report only successes; failures come from the connections.
* Three jobs of a server give a job in work, one at the head and one at the tail
  of the queue; two aborts and three workers let an abort hit a worker that was
  started after an abort.
* Three or four messages to two servers give two jobs on one connection, a
  follow-up from the receiver thread, and a wait beside them. `MaxDisconnects`
  is two because only the second call meets a client the first one freed and
  left in the list; `MaxEvents` is one because an event changes nothing that a
  second could find.
* Three requests let two of them go wrong and show what the last one gets; the
  ids start at 254, so that they wrap around over the invalid one. `MAX_ARGS`
  is 5 instead of 256: no request fills it.
* Four nodes give a parent with two children, or a conglomerate beside a node,
  or a chain of three below the root; an array that grows by two grows once in
  the middle of everything. A page of two nodes lets a failing write stop
  between pages. `MaxOff` and `MaxExternal` bound the flags and references, not
  what is done with them.

Deadlock is checked in `tree_edit`, `tree_state` and `v_default`, where
something can always be done. It is not checked elsewhere: a system whose
bounded number of commands is used up stops.

Some properties name where they end, because the code does not keep them
further. `PhaseReport` is checked without the fault `handshake`: when the
server's handshake is lost but its reply arrives, the error of the handshake
overtakes a status that is already recorded. `DependencyOrder` excepts the
actions of a phase that is being dispatched once more: their variables are left
from the first time, so that a dependent may be dispatched while they are in
flight again. `PhaseReturns` excepts a phase that waits for a forgotten job: the
receiver replaced the client's connection while the job was in flight on it, and
then the server went ("Disagreements"). A conditional action that was dispatched
once keeps its flags and is not dispatched again when its phase is repeated.
`OneAfterOther` and `ExitUnlocked`
are checked with one client. `UsesLive` of `JobTable` holds until a server goes
or a client is disconnected, and needs that no handshake fails and that no event
bears the id of a job somebody waits for; `OwnAnswer` until a wait is cut short, an argument
refused or an event sent; `CallsReturn` of `MdsipExchange` up to a request with
an argument that cannot be serialised, and for the calls that read their own
answer: `MdsDispatchEvent` may wait inside a header for a message nobody sends
(`Stuck`), with the connection locked. `MayInterrupt` is `FALSE`: nodes are not
deleted and the tree is not written between start and end of a conglomerate.
`StateKnown` is checked and proved without the outcome "nci" of a write, with
which it is false; `Accounted`, checked with "nci", says where nodes are, not
whose characteristics they have.
"Disagreements" says what happens beyond.

Fairness. Each thread that can go on goes on (weak fairness per thread: the
operating system schedules them, and waits for locks end when the lock is free);
`wait_for_actions` wakes up after a second at the latest; a server to which a
message was sent works on it and replies sooner or later, because its task ends;
the receiver reads what is there to read; both ends of an mdsip connection go
on. No fairness is assumed for commands, aborts,
cancellations, events or faults. Spurious wake-ups of condition variables are
not modelled.

## Disagreements

Two runs show where the code departs from its documentation (`findings` in
`PROJECT.json`):

* `v_conjunction` - a read lock is left behind on an action whose condition
  names two actions (`ServerDispatchPhase.c:721`), so a true condition is not
  dispatched and the phase hangs, although `docs/dt_dispatch.md` says it will be
  dispatched when all actions it names have completed.
* `v_default` - the default node is deleted and stays the start of relative
  names; a node that is renamed relative to it hangs on a deleted node and is
  out of the tree. `TreeRenameNode.c:121-124` checks for ancestors so that no
  node is renamed "off into space".

More disagreements, and behaviour a reader might not expect, were met while
modelling and have no run of their own.

Dispatcher:

* A job on a replaced connection is forgotten when the server goes, and the
  phase waits for it for ever (see "Job table" below).
* When a connection cannot be made, the callback runs with the status the action
  had before (`ServerSendMessage.c:127`) and only then `dispatch` stores the
  error: what depends on the action sees the old status first, after a first
  success a success.
* In a phase that is dispatched again, `dispatched` and `done` of the
  conditional actions and the variables of all actions are those of the first
  time (`ServerDispatchPhase.c:703`): a conditional action that was dispatched is
  not dispatched again.
* An action can be reported as "can't happen" although the action it depends on
  completed: the main thread marks what is left (`ServerDispatchPhase.c:551`)
  between the receiver's marking of the action as done and its walk over the
  references (`servershr_messages.xml:30`).
* With `/SYNCH=10` the batches are 1-9, 10-19 and not 1-10, 11-20: `set_group`
  divides the sequence number itself (338).
* A condition with a non-zero even value dispatches, although
  `docs/dt_dispatch.md` asks for an odd one.

Action server:

* Two clients that queue a job while there is no worker start two
  (`ServerQAction.c:815`), which execute two jobs at the same time
  (`tcl_commands.xml:642-644`: one after the other).
* A worker cancelled in `select` keeps `ClientsMutex` (903), one cancelled in
  `printf` keeps `STATIC_lock` (567), and the client that aborts waits for it
  for ever (`tcl_commands.xml:168-169`). With a second client inside the queue's
  section, `WorkerExit` also finds `STATIC_QueueLocked` set and waits for its
  own lock.
* One failing monitor removes the monitors in front of it from the list (721).
* After an abort without flush nobody serves the queue until the next job is
  queued. The job that `SrvRemoveLast` removes is not answered.
* A broadcast overwrites the address of its job with those of the monitors: a
  worker cancelled there makes the abort answer a monitor, not the sender.

Job table (`ServerSendMessage.c`):

* The comment at 538-539 wants one connection per server, but the list of
  connections is thread-local (549-561): a callback on the receiver thread opens
  another connection and replaces the client's, and jobs on the old one are
  orphaned when the server goes.
* A `ServerDisconnect` between `server_connect` and `Job_register` of another
  thread frees the client before the job is in the list; nobody calls it back.
* A server that dies before it opened its reply socket is not noticed.
* `ServerDisconnect` calls back with `clients_mutex` held (527); a callback that
  dispatches locks it again and waits for itself.
* `reset_fdactive` frees broken clients without taking them out of the list
  (371).
* `accept_client` compares host addresses only, so that of two servers on one
  host the first client without a socket gets the connection.
* `SrvStop` reports success to every job on the connection (218).
* Events carry the job id of the process that broadcast them, so that one may be
  taken for the reply to a job with the same number.
* `ServerWait` is not woken when the connection of its job is lost; a cancelled
  wait leaves the address of a local variable in the job
  (`tcl_dispatch.c:187`). `SrvAbort` and `SrvSetLogging` register a job that is
  never answered.

mdsip:

* The message id of an answer is never compared with that of the request
  (`GetAnswerInfo.c:70`). A body that comes more than a second after its header
  is given up, but the connection is kept, and the late body is read as the next
  header: 48 bytes without a time-out. If it is shorter, `MdsDispatchEvent` waits
  for the rest until another message comes, and keeps `CON_RECV` locked
  (`GetMdsMsg.c:149`), so that no other call on the connection is made. An
  argument that is refused, or one beyond the limit, is answered at
  once, and the ones after it are still taken. An event may be sent between the
  parts of a response (`ProcessMessage.c:615`).
* When an argument cannot be serialised, `SendDsc` returns with `CON_REQUEST`
  set: the next call on the connection waits for ever.
* Descriptors of a request that was given up are reused, with their type and
  size, when the message id comes back (859).
* `destroyConnection` frees the events while the event thread may be sending on
  them (`Connections.c:292`).

Trees:

* Names are looked up in full and stored in 12 characters (`TreeAddNode.c:159`):
  two long names may become the same.
* A node of usage SUBTREE may get children.
* `modified` is reset when the new file cannot be created (955): a later quit
  loses the edits without asking. A crash between the removal of the old file
  and the renaming of the new one (928) leaves no tree file.
* When `TreeWriteNci` fails half-way it has counted `first_in_mem` on
  (`TreeAddNode.c:1039`), but the characteristics in memory, which are found by
  their distance from it (`TreeSetNci.c:372`, `542`; `TreeDeleteNode.c:296`),
  stay where they are: each node that is still in memory gets those of another,
  its data included, and the next write stores them so.
* Nodes that are added and deleted between two writes are not used again.
* A write or a deletion while a conglomerate is being built breaks the
  succession of its numbers.

## Proofs

`DispatchPhase_proofs` proves, for every table that satisfies `TableType` and
`TableSorted` and every value of the other constants that satisfies
`ParameterType`:

* `TypeCorrect`: `Spec => []TypeOK`. `TypeOK` is inductive. It says more than
  types: the ranges and group bounds stay within the table, every call on a
  stack names an action of the table, and calls that only make sense for
  conditional actions are made for conditional actions. The proof splits
  `TypeOK` into five groups of variables (`TypeParts`), shows that every way to
  change a stack keeps a stack of frames (`StackType`), and has one step per
  action. The look-ups are covered by lemmas about `FIND_NEXT_ACTION`
  (`FindNext`, from the least element of a set of naturals), `ActionRanges` and
  `GroupRange`.
* `BarrierCorrect`: `Spec => []GroupBarrier`. The property is not inductive: it
  says nothing of the ranges. `BarrierInv` adds that the sequential range of the
  phase holds only its sequential actions (`SequentialRange`), that first and
  last action of the current group bound actions of one SYNCH group
  (`GroupBounds`), and that a sequential action in flight lies in the part of
  the table the program counter allows: nothing between phases, the scanned part
  while a group is dispatched, the rest of the group while it is waited for
  (`FlightBounds`). Callbacks of both threads never put a sequential action in
  flight (`ThreadFlight`, because only conditional actions are dispatched by the
  cascade, which `TypeOK` says), so only the steps of the main thread matter.

Four more properties of the same module come from invariants of their own.

* `LocksReleased`: `Spec => []LockLeak`. The lock stays when the
  check finds an action in the condition that is not defined yet, or is corrupted
  after an invalid condition. `CallInv` says what every call knows of its action:
  a cascade runs from one that is defined, so a condition that names no other
  finds no undefined one.
* `EssentialTold`: `Spec => EssentialReported`, from `PhaseInv`: the ranges are
  those of the phase dispatched last (`RangeInv`), a sequential action that the
  main thread is past was dispatched or is done, and not recorded before
  `record_status` (`PassedInv`), and the flag stands for what the loops of
  `record_status` have visited (`VisitedInv`).
* `DependenciesFirst`: `Spec => []DependencyOrder`. A conditional action is
  dispatched by a call that knows all its references defined (`CallInv`). That a
  sequential one with a defined variable is done, or dispatched once more
  (`DefinedInv`), needs that those still to be dispatched were never touched
  (`AheadInv`) when the phase is a new one, and so that nothing of a phase no
  command named was (`FreshInv`).
* `ReportTrue`: `Spec => []PhaseReport`, if no handshake fails. `QuietInv` is the
  argument about late callbacks: of an action that is done no job is live, none is
  in the list but the one the receiver is about to pop, and the receiver is not
  completing it. So what `record_status` recorded stays true (`RecordedInv`).

`JobTable_proofs` proves, for all messages, servers, threads and faults that
satisfy `MessageType`:

* `TypeCorrect`: `Spec => []TypeOK`.
* `FreedNotListed`: `Spec => []ListsLive`.
* `CalledAtMostOnce`: `Spec => CallbackSpec`, that is, `JobTable` implements
  `Callbacks`: initial states map to initial states and every step to a
  registration, a callback or a stutter.

All three come from `Inv == TypeOK /\ StackInv /\ JobInv /\ StaleInv`. The reply,
a failed handshake, a lost server and `ServerDisconnect` may all want to call
back the same job, so "not called yet" has to follow from something a thread
owns. `StackInv` and `JobInv` say that a message that is not registered yet is
the message of a single frame, on top of a single stack (the token to register
it), that a message with that token or with a callback still armed was not called,
and that nothing freed is in the list. `StaleInv` counts the
calls of `ServerDisconnect`: a freed client is in the list of clients only after
the second one began.

`JobTable_results` proves two properties of what the jobs are told.

* `StatusTrue`: `Spec => []TrueStatus`, if no event bears the id of a job of this
  process (`Events \cap Messages = {}`; TLC shows a job that succeeds by such an
  event). A success passes through four hands, and `StatusInv` says of each that
  it is true: the replies on the wire (`TrueMsgs`), the job a reply is given to
  (`RouteInv`: its own, or the monitor's), the calls on the stacks
  (`TrueFrames`), the status itself.
* `NoneFreed`: `Spec => []UsesLive`, if no handshake fails and no event bears the
  id of a job somebody waits for; TLC shows that both are needed. The invariant
  is only wanted while no server went and no client was disconnected (`Calm`).
  Then a stack has one of a few forms (`ShapeInv`), a thread owns the message it
  sends or waits for, which no server has before it is sent (`SendInv`), the reply
  to a message somebody waits for comes once (`ReplyInv`), and what the receiver
  works on is in its list (`RecvInv`).

It also proves that no job is forgotten:

* `NoJobForgotten`: `Spec /\ ClientsKept => []Settled`, if no wait is cancelled,
  no two servers have the same address and no callback waits itself
  (`Ordinary`). `SettledInv` follows a job from its registration to its removal
  and says who will remove it (`KeptInv`): the thread that has it in `register`,
  `send` or `cleanup` (`Unsent`); a loop over the jobs of its connection
  (`Popping`); or else its connection is that of its client (`Listed`), and the
  server has it or is gone, the reply is on the wire, the receiver is completing
  it or a waiting thread was told (`Pending`). For this one has to know that a
  message goes out on the connection of its client, or its job is being popped
  (`RoutedInv`), that a client reads the reply socket of its own server
  (`SocketInv`), that a thread that will wait has nothing else to do
  (`BottomInv`), and that the thread that waits for a job in the list is still
  there to pop it (`WaitInv`).
  The hypotheses are needed; TLC finds forgotten jobs without each of them. With
  two senders a thread replaces a connection it does not see (`ClientsKept`;
  "Disagreements"). A thread that is cancelled after it was told does not pop its
  job. With two servers at one address and a `ServerDisconnect`, the reply socket
  of one is given to the client of the other. A callback that waits leaves undone
  what the receiver still had to do, until a reply that only the receiver can
  read. `ClientsKept` says what the callers have to avoid; the code does not
  ensure it, so no run checks it.

`ActionServer_proofs` proves what the server promises for one client, or for
several that do not abort:

* `TypeCorrect`: `Spec => []TypeOK`, for any number of callers, workers, jobs,
  aborts and failing clients. `ThreadInv` has to be known beside the types: a
  thread that sends or aborts has a job at hand.
* `ExitSafe` and `OnlyLiveJobs`: `ExitUnlocked` and `UsesLive`, if there are no
  aborts or a single caller (`Undisturbed`). `ControlInv` says who holds the
  queue (`LockInv`) and that nobody is cancelled without an abort
  (`UnabortedInv`), or else that there is one worker at a time, and none while its
  only client aborts (`SoleInv`). `JobInv` says which jobs a thread may use: those
  in the queue are younger than those taken from it, and live (`QueueInv`), no two
  workers have the same one (`HeldInv`), and what an abort has still to abort is
  live too (`AbortInv`).
* `JobsInOrder`: `OneAfterOther`, for one caller (`OneCaller`). `SerialInv` adds
  that the current job is the worker's, also of one that was cancelled, until the
  abort has aborted it (`CurrentInv`), that a job that is live is not lost
  (`KeptInv`), and that what comes before the job of a worker is over
  (`OrderInv`).
* `JobsAnswered`: `Answered`, if besides no broadcast can be cancelled
  (`Unbroken`: there are no aborts or no monitors). `ReplyInv`: the
  address of a job is only another one while monitors are told (`AddrInv`,
  `MonitorInv`), nothing is sent for a job that is still to begin (`SilentInv`),
  one that was freed was told (`ToldInv`), and `STARTING` comes first
  (`StartFirst`).

`MdsipExchange_proofs` proves, from `ExchangeConstants`:

* `TypeCorrect`: `Spec => []TypeOK`.
* `AnswersOwn`: `Spec => OwnAnswer`. The invariant `StreamInv` accounts for every
  answer: while nothing set the stream out of step (`upset`), what the client
  has yet to read is at most the answer to its present request, in order header,
  body, and the arguments on their way and those the server collected are those
  of requests not answered. Requests given up half-way and lost connections are
  covered: a new connection starts with empty streams.
* `RequestsWhole`: `N <= 254 => (Spec => []RequestIntact)`, whatever `upset`. An
  id is a byte that wraps around, so that a connection comes to it again after
  255 requests; if the server saw none of those in between, the arguments of two
  requests are mixed. `IntactInv` says that the arguments on their way come in
  order and without a gap (`OrderInv`), that the ids belong to requests by their
  difference to the client's present one (`Named`), and that what the server
  collected are the first arguments of one request, less the refused ones, of
  which what comes next is the continuation or a later request (`Taken`).

`TreeEdit_proofs` proves, for arrays of any size, from `TreeConstants`, all that
`tree_edit` and `tree_state` check, and `NotIntoSpace`, which `v_default` refutes
without the hypothesis:

* `DefaultStays`: `Spec /\ [][~DefaultDeleted]_vars => []DefaultLives`.
  `DefaultLives` says that the default node, any node of the tree, is in the tree;
  `DefaultDeleted` is a deletion that takes it, by itself, with a node above it or
  with its conglomerate. The other theorems have `[]DefaultLives` as hypothesis. It is
  needed: the code deletes the default node like any other, and a path that
  starts there then leads to a node that is not in the tree ("Disagreements").
* `TypeCorrect` (`TypeOK`), `LinkedAlways` (`Linked`) and `AccountedAlways`
  (`Accounted`) come from `Inv`. Its heart, `Good`, says that the array is a tree
  and a list, and that the rest of it was deleted. What makes a set of nodes a
  tree (`Forest`): links stay in it and lead to nodes with the right parent
  (`Leads`), no two lead to the same node (`Single`), and every set of nodes
  without a root is entered from outside (`Entered`). A list of free nodes
  (`Chain`) is said in the same way. So nothing is said of paths: an operation is
  shown to keep each of these three for an arbitrary set of nodes. `Forest` is
  stated for several roots, because a node that is being moved, and every marked
  node while a deletion goes on, is a root for a while. `UnlinkForest`,
  `LinkForest`, `ChainPop`, `ChainGrow`, `ChainTakeOut`, `ChainMove` and
  `ChainPrepend` are the operations on links. `ForestReach` and `ChainReach` say
  that the links lead to these nodes and to no others, which makes them `InTree`
  and `FreeNodes`.
* The loops of `_TreeDeleteNodeExecute` and `trim_excess_nodes` are recursive
  functions. What they do after k rounds (`Cut`, `KeptTo`, `TrimmedTo`) follows
  for all k because there can be no first round after which it is wrong
  (`LeastElement`); that such functions exist is shown in the same way
  (`ExecuteLoopExists`, `KeepLoopExists`, `TrimLoopExists`).
* `TreeSteps` says that every step adds a node to the tree, moves one, removes
  some with all below them, or leaves the tree as it is. From it come
  `ExternalsAlwaysLive` (`ExternalsLive`), `StateAlwaysKnown` (`StateKnown`, if
  "nci" is not among `Outcomes`: what
  `tree_set_parent_state` reaches is what is below the node, up to nodes that are
  off themselves, `ReachedFacts`), `NeverIntoSpace` (`NotIntoSpace`) and
  `TreeImplemented` (`TreeSpec`: each step is one of `NodeTree` or a stutter).
* `SuccessiveAlways` (`Successive`), if nothing is deleted or written within a
  conglomerate (`~MayInterrupt`; see "Disagreements"). `Open` says that the free
  nodes that the rest of a conglomerate needs are the first of the list, in
  order, and follow the last element that was added.

`NodeTree_proofs` proves `TreeSound`: in every state of `NodeTree!Spec` each
node leads to the root along its parents (`Rooted`, stated as: every
non-empty set of nodes has a member whose parent is outside of it, so that no
induction over paths is needed), all parents exist
(`Anchored`), and the children of one parent differ in their names
(`NamesDiffer`). `TreeImplemented` and this theorem of the abstract tree together
mean that the array is a tree of named nodes.

Only model-checked: everything under fairness (`PhaseReturns`, `EveryJobEnds`,
`CallsReturn`, `CallbackFair`), because liveness is beyond the prover.

## Not modelled

* Monitor messages, log lines and events of the dispatcher: output only. The
  monitor queue is planned.
* `abort_range` and the abort branch of `ServerDispatchPhase`: nothing sets
  `AbortInProgress` while the groups are dispatched, so they cannot be reached.
* Building, freeing and disarming of the dispatch table; the limit of its size.
* `SrvShow`, `SrvStop` (exit of the server), requests without an address
  (executed by the caller), `STATIC_Debug`, the text of the current job.
* What freed memory contains: where memory is used after it was freed, the model
  keeps its last value. Start and end of the receiver thread.
* mdsip: login, remote file commands (`MDS_IO`), compression, byte order, the
  transports (`TCP`, `UDT`, `SSH`, `HTTP`), several connections of one server
  process and what their threads share.
* Trees: paths and tags as text, data and segments, opening, closing and locking
  files, distributed trees, the cached copy of a tree in shared memory.
* Expression evaluation (`tdishr`), the data library (`mdsshr`), language
  bindings, tools and displays, device support: their own subjects, and mostly
  data conversion, numeric formats, marshalling and I/O.

By lines, most of the repository is of the last kind: of 328 thousand lines, the
drivers of instruments (`kbsidevices`, `device_support`), copies of other
projects' code, generated tables, conversions (`tdishr/CvtConvertFloat.c`),
wrappers per language and the graphical tools make up far more than half, and
have no state of their own beyond a handle. A model of them would restate
assignments. What is modelled is about the part where steps interleave or build
on each other, which is a small share of the lines.

## Plan

1. `JobQueue`: the doubly linked list of `ServerQAction.c` as an implementation
   of the queue of `ActionServer`.
2. `DispatchTable`: building, freeing and disarming, late replies to a freed
   table; `MonitorQueue`.
3. Two clients and an abort in `ActionServer`; a composition of dispatcher and
   server.
4. mdsip: the remote file commands and several connections of one server; trees:
   opening for edit, locks and the order in which files are renamed.
5. Theorems: instances that keep `ClientsKept` (one sending thread, no
   follow-ups).
