----------------------------- MODULE ActionServer -----------------------------
(***************************************************************************)
(* ServerQAction.c: an action server.                                       *)
(*                                                                          *)
(* Callers are the threads of the mdsip server, one per connected client,   *)
(* that execute ServerQAction: they put jobs in the queue and start the     *)
(* worker thread, or abort it.  A worker takes the jobs from the queue, one *)
(* at a time, executes them and replies.  SrvAbort cancels the worker with  *)
(* pthread_cancel, which takes effect at the cancellation points of the     *)
(* worker: waiting for a job, writing the log, select, connect, send, and   *)
(* possibly inside the task.  The locks held there stay locked.             *)
(*                                                                          *)
(* A section under a lock that has no cancellation point and no blocking    *)
(* call is one step; the locks that outlive a step are variables.           *)
(***************************************************************************)
EXTENDS Integers, Sequences

CONSTANTS
  Callers,     \* client threads of mdsip
  Workers,     \* worker threads; a bound on how often one is started
  Clients,     \* addr:port of the reply sockets
  MaxJobs,     \* bound on the number of jobs that are queued
  MaxAborts,   \* bound on the number of SrvAbort requests
  op,          \* op[j]: what job j does
  owner,       \* owner[j]: the reply socket named in the request of job j
  Notify,      \* the jobs with SrvJobBEFORE_NOTIFY set
  Requests,    \* the requests callers make, besides those that queue jobs
  Broken,      \* the clients whose socket may fail
  None

Jobs == 1 .. MaxJobs
Ops == {"action", "command", "checkin", "broadcast"}
RequestKinds == {"abort", "flush", "remove", "logging"}

ASSUME ServerType ==
  /\ MaxJobs \in Nat /\ MaxAborts \in Nat
  /\ op \in [Jobs -> Ops]        \* "command": also SrvClose and SrvCreatePulse
  /\ owner \in [Jobs -> Clients]
  /\ Notify \subseteq Jobs
  /\ Requests \subseteq RequestKinds
  /\ Broken \subseteq Clients
  /\ Callers \cap Workers = {}
  /\ None \notin Jobs \cup Callers \cup Workers

VARIABLES
  queue,          \* JobQueue .. JobQueueNext, linked through next and previous
  CurrentJob,
  connected,      \* Clients: the clients a reply socket is open to
  Monitors,       \* the list of monitors, newest first
  Logging,        \* STATIC_Logging
  QueueLocked,    \* STATIC_QueueLocked
  running,        \* WorkerRunning.value
  Worker,         \* the thread id of the worker started last
  asleep,         \* the callers in pthread_cond_wait of WorkerRunning
  queueMutex,     \* who holds the mutex of JobQueueCond
  staticLock,     \* who holds STATIC_lock
  clientsMutex,   \* who holds ClientsMutex
  cancel,         \* the workers with a pending cancellation
  pc, job,        \* per thread: where it is, the job it works on
  kind,           \* per thread: the reply it is sending
  aborting,       \* per caller: the jobs still to be aborted
  sending,        \* per worker: the monitors from the current one on
  flush,          \* per caller: p1 of SrvAbort
  addr,           \* per job: h.addr, h.port
  fate,           \* per job: unborn, live, freed, removed (by SrvRemoveLast)
  replies,        \* per job: what was sent, to whom
  aborts, nextid

Threads == Callers \cup Workers

locks == <<QueueLocked, queueMutex, staticLock, clientsMutex>>
workerVars == <<running, Worker, asleep, cancel>>
threadVars == <<pc, job, kind, aborting, sending, flush>>
jobVars == <<addr, fate, replies>>
bounds == <<aborts, nextid>>
vars == <<queue, CurrentJob, connected, Monitors, Logging, QueueLocked, running, Worker, asleep,
          queueMutex, staticLock, clientsMutex, cancel, pc, job, kind, aborting,
          sending, flush, addr, fate, replies, aborts, nextid>>

CallerPcs == {"idle", "queued", "removed", "start_worker", "wait_set", "wait_reset", "abort", "abort_end"}
WorkerPcs == {"new", "start", "next", "wait", "begin", "run", "log", "logging",
              "task", "log_done", "logging_done", "finish", "exit", "dead"}
ReplyPcs == {"find", "check", "open", "send", "send_new", "sent", "cleanup"}
Kinds == {"STARTING", "FINISHED", "CHECKEDIN", "MONITOR", "ABORT"}

TypeOK ==
  /\ queue \in Seq(Jobs)
  /\ CurrentJob \in Jobs \cup {None}
  /\ connected \subseteq Clients
  /\ Monitors \in Seq(Clients)
  /\ {Logging, QueueLocked, running} \subseteq BOOLEAN
  /\ Worker \in Workers \cup {None}
  /\ asleep \subseteq Callers
  /\ queueMutex \in Callers \cup {None}
  /\ staticLock \in Workers \cup {None}
  /\ clientsMutex \in Threads \cup {None}
  /\ cancel \subseteq Workers
  /\ pc \in [Threads -> CallerPcs \cup WorkerPcs \cup ReplyPcs]
  /\ job \in [Threads -> Jobs \cup {None}]
  /\ kind \in [Threads -> Kinds \cup {None}]
  /\ aborting \in [Callers -> Seq(Jobs)]
  /\ sending \in [Workers -> Seq(Clients)]
  /\ flush \in [Callers -> BOOLEAN]
  /\ addr \in [Jobs -> Clients]
  /\ fate \in [Jobs -> {"unborn", "live", "freed", "removed"}]
  /\ replies \in [Jobs -> Seq(Kinds \X Clients)]
  /\ aborts \in 0 .. MaxAborts
  /\ nextid \in 1 .. MaxJobs + 1

Init ==
  /\ queue = <<>> /\ CurrentJob = None /\ connected = {} /\ Monitors = <<>>
  /\ Logging = TRUE /\ QueueLocked = FALSE
  /\ running = FALSE /\ Worker = None /\ asleep = {}
  /\ queueMutex = None /\ staticLock = None /\ clientsMutex = None
  /\ cancel = {}
  /\ pc = [t \in Threads |-> IF t \in Callers THEN "idle" ELSE "new"]
  /\ job = [t \in Threads |-> None]
  /\ kind = [t \in Threads |-> None]
  /\ aborting = [c \in Callers |-> <<>>]
  /\ sending = [w \in Workers |-> <<>>]
  /\ flush = [c \in Callers |-> FALSE]
  /\ addr = owner
  /\ fate = [j \in Jobs |-> "unborn"]
  /\ replies = [j \in Jobs |-> <<>>]
  /\ aborts = 0 /\ nextid = 1

-----------------------------------------------------------------------------
(* Locks and condition variables. *)

Goto(t, p) == pc' = [pc EXCEPT ![t] = p]

(* LockQueue takes the queue's mutex, then STATIC_lock for a moment.  *)
QUEUE_LOCK == queueMutex = None /\ staticLock = None

LockQueue(c) ==
  /\ QUEUE_LOCK
  /\ queueMutex' = c
  /\ QueueLocked' = TRUE
  /\ UNCHANGED <<staticLock, clientsMutex>>

(* A section of a worker between QUEUE_LOCK and QUEUE_UNLOCK, in one step:  *)
(* only another worker that exits could see QueueLocked set in it.          *)
QueueSection ==
  /\ QUEUE_LOCK
  /\ QueueLocked' = FALSE
  /\ UNCHANGED <<queueMutex, staticLock, clientsMutex>>

(* CONDITION_SET_TO(&WorkerRunning, v) wakes one of the sleeping callers. *)
CONDITION_SET_TO(v) ==
  /\ running' = v
  /\ \/ asleep = {} /\ UNCHANGED asleep
     \/ \E c \in asleep : asleep' = asleep \ {c}

(* Pending cancellation: not a step to take at a cancellation point. *)
NotCancelled(t) == t \notin cancel

-----------------------------------------------------------------------------
(***************************************************************************)
(* send_reply, by a worker or, for SrvAbort, by a caller.  find_client      *)
(* tests an open socket with select while it holds ClientsMutex.  The reply *)
(* is out when its 60 bytes are sent; the socket is then tested once more.  *)
(***************************************************************************)
StartReply(t, k) ==
  /\ pc' = [pc EXCEPT ![t] = "find"]
  /\ kind' = [kind EXCEPT ![t] = k]

find_client(t) ==
  /\ pc[t] = "find"
  /\ clientsMutex = None
  /\ \/ /\ addr[job[t]] \in connected
        /\ clientsMutex' = t
        /\ Goto(t, "check")
     \/ /\ addr[job[t]] \notin connected
        /\ Goto(t, "open")
        /\ UNCHANGED clientsMutex
  /\ UNCHANGED <<queue, CurrentJob, connected, Monitors, Logging, QueueLocked, queueMutex,
                 staticLock, workerVars, job, kind, aborting, sending, flush, jobVars, bounds>>

(* A socket that cannot be reused is closed, and a new one opened. *)
check_socket(t) ==
  /\ pc[t] = "check"
  /\ NotCancelled(t)
  /\ clientsMutex' = None
  /\ \/ Goto(t, "send") /\ UNCHANGED connected
     \/ /\ addr[job[t]] \in Broken
        /\ connected' = connected \ {addr[job[t]]}
        /\ Goto(t, "open")
  /\ UNCHANGED <<queue, CurrentJob, Monitors, Logging, QueueLocked, queueMutex,
                 staticLock, workerVars, job, kind, aborting, sending, flush, jobVars, bounds>>

open_socket(t) ==
  /\ pc[t] = "open"
  /\ NotCancelled(t)
  /\ \/ /\ clientsMutex = None
        /\ connected' = connected \cup {addr[job[t]]}
        /\ Goto(t, "send_new")
     \/ /\ addr[job[t]] \in Broken
        /\ Goto(t, "cleanup")
        /\ UNCHANGED connected
  /\ UNCHANGED <<queue, CurrentJob, Monitors, Logging, locks, workerVars, job, kind,
                 aborting, sending, flush, jobVars, bounds>>

(* EPIPE, on a socket opened earlier, makes send_reply try a new one. *)
send_all(t) ==
  /\ pc[t] \in {"send", "send_new"}
  /\ NotCancelled(t)
  /\ LET to == addr[job[t]] IN
     \/ /\ replies' = [replies EXCEPT ![job[t]] = Append(@, <<kind[t], to>>)]
        /\ Goto(t, "sent")
        /\ UNCHANGED connected
     \/ /\ to \in Broken
        /\ Goto(t, "cleanup")
        /\ UNCHANGED <<replies, connected>>
     \/ /\ to \in Broken
        /\ pc[t] = "send"
        /\ clientsMutex = None
        /\ connected' = connected \ {to}
        /\ Goto(t, "open")
        /\ UNCHANGED replies
  /\ UNCHANGED <<queue, CurrentJob, Monitors, Logging, locks, workerVars, job,
                 kind, aborting, sending, flush, addr, fate, bounds>>

(* Mutant of next_monitor: the address of the request is not restored. *)
next_monitor_stale(t, rest) ==
  /\ sending' = [sending EXCEPT ![t] = rest]
  /\ Goto(t, "find")
  /\ addr' = IF rest = <<>> THEN addr ELSE [addr EXCEPT ![job[t]] = Head(rest)]
  /\ kind' = [kind EXCEPT ![t] = IF rest = <<>> THEN "FINISHED" ELSE "MONITOR"]

(***************************************************************************)
(* What the caller of send_reply does next, given whether it succeeded.     *)
(***************************************************************************)
next_monitor(t, rest) ==
  /\ sending' = [sending EXCEPT ![t] = rest]
  /\ Goto(t, "find")
  /\ IF rest = <<>>
       THEN /\ addr' = [addr EXCEPT ![job[t]] = owner[job[t]]]
            /\ kind' = [kind EXCEPT ![t] = "FINISHED"]
       ELSE /\ addr' = [addr EXCEPT ![job[t]] = Head(rest)]
            /\ kind' = [kind EXCEPT ![t] = "MONITOR"]

(* SendToMonitors never advances prev, so unlinking m makes m->next the     *)
(* head of the list.                                                        *)
SendToMonitor(t, ok) ==
  /\ kind[t] = "MONITOR"
  /\ Monitors' = IF ok THEN Monitors ELSE Tail(sending[t])
  /\ next_monitor(t, Tail(sending[t]))
  /\ UNCHANGED <<job, aborting, fate>>

next_abort(c, rest) ==
  /\ aborting' = [aborting EXCEPT ![c] = rest]
  /\ IF rest = <<>>
       THEN Goto(c, "abort_end") /\ UNCHANGED <<job, kind>>
       ELSE /\ job' = [job EXCEPT ![c] = Head(rest)]
            /\ StartReply(c, "ABORT")

AbortJob(c) ==
  /\ kind[c] = "ABORT"
  /\ fate' = [fate EXCEPT ![job[c]] = "freed"]
  /\ next_abort(c, Tail(aborting[c]))
  /\ UNCHANGED <<Monitors, sending, addr>>

reply_returns(t, ok) ==
  \/ SendToMonitor(t, ok)
  \/ AbortJob(t)
  \/ /\ kind[t] \in {"STARTING", "FINISHED", "CHECKEDIN"}
     /\ Goto(t, IF kind[t] = "STARTING" THEN "run" ELSE "finish")
     /\ UNCHANGED <<Monitors, job, kind, aborting, sending, addr, fate>>

reply_sent(t) ==
  /\ pc[t] = "sent"
  /\ NotCancelled(t)
  /\ \/ reply_returns(t, TRUE)
     \/ /\ addr[job[t]] \in Broken
        /\ Goto(t, "cleanup")
        /\ UNCHANGED <<Monitors, job, kind, aborting, sending, addr, fate>>
  /\ UNCHANGED <<queue, CurrentJob, connected, Logging, locks, workerVars, flush, replies, bounds>>

cleanup_client(t) ==
  /\ pc[t] = "cleanup"
  /\ clientsMutex = None
  /\ connected' = connected \ {addr[job[t]]}
  /\ reply_returns(t, FALSE)
  /\ UNCHANGED <<queue, CurrentJob, Logging, locks, workerVars, flush, replies, bounds>>

send_reply(t) ==
  \/ find_client(t) \/ check_socket(t) \/ open_socket(t) \/ send_all(t)
  \/ reply_sent(t) \/ cleanup_client(t)

-----------------------------------------------------------------------------
(* Callers: ServerQAction. *)

(* Mutant of QJob: the job is linked in at the wrong end. *)
QJob_front(c) ==
  /\ pc[c] = "idle"
  /\ nextid <= MaxJobs
  /\ nextid' = nextid + 1
  /\ LockQueue(c)
  /\ queue' = <<nextid>> \o queue
  /\ fate' = [fate EXCEPT ![nextid] = "live"]
  /\ LET waiting == {w \in Workers : pc[w] = "wait"} IN
     \/ waiting = {} /\ Goto(c, "queued")
     \/ \E w \in waiting : pc' = [pc EXCEPT ![c] = "queued", ![w] = "next"]
  /\ UNCHANGED <<CurrentJob, connected, Monitors, Logging, workerVars, job, kind, aborting,
                 sending, flush, addr, replies, aborts>>

(* Mutant of QJob: JobQueueCond is not signalled. *)
QJob_unsignalled(c) ==
  /\ pc[c] = "idle"
  /\ nextid <= MaxJobs
  /\ nextid' = nextid + 1
  /\ LockQueue(c)
  /\ queue' = Append(queue, nextid)
  /\ fate' = [fate EXCEPT ![nextid] = "live"]
  /\ Goto(c, "queued")
  /\ UNCHANGED <<CurrentJob, connected, Monitors, Logging, workerVars, job, kind, aborting,
                 sending, flush, addr, replies, aborts>>

(* The job is linked in, one worker that waits for a job is woken. *)
QJob(c) ==
  /\ pc[c] = "idle"
  /\ nextid <= MaxJobs
  /\ nextid' = nextid + 1
  /\ LockQueue(c)
  /\ queue' = Append(queue, nextid)
  /\ fate' = [fate EXCEPT ![nextid] = "live"]
  /\ LET waiting == {w \in Workers : pc[w] = "wait"} IN
     \/ waiting = {} /\ Goto(c, "queued")
     \/ \E w \in waiting : pc' = [pc EXCEPT ![c] = "queued", ![w] = "next"]
  /\ UNCHANGED <<CurrentJob, connected, Monitors, Logging, workerVars, job, kind, aborting,
                 sending, flush, addr, replies, aborts>>

(* The end of the sections of QJob and RemoveLast. *)
UnlockQueue(c) ==
  /\ pc[c] \in {"queued", "removed"}
  /\ staticLock = None
  /\ queueMutex' = None
  /\ QueueLocked' = FALSE
  /\ Goto(c, IF pc[c] = "queued" THEN "start_worker" ELSE "idle")
  /\ UNCHANGED <<queue, CurrentJob, connected, Monitors, Logging, staticLock, clientsMutex,
                 workerVars, job, kind, aborting, sending, flush, jobVars, bounds>>

(***************************************************************************)
(* CONDITION_START_THREAD: a thread is created unless WorkerRunning is set, *)
(* and the caller sleeps until it is.                                       *)
(***************************************************************************)
StartWorker(c) ==
  /\ pc[c] = "start_worker"
  /\ \/ /\ running
        /\ Goto(c, "idle")
        /\ UNCHANGED workerVars
     \/ /\ ~running
        /\ \E w \in Workers :
             /\ pc[w] = "new"
             /\ pc' = [pc EXCEPT ![c] = "wait_set", ![w] = "start"]
             /\ Worker' = w
        /\ asleep' = asleep \cup {c}
        /\ UNCHANGED <<running, cancel>>
  /\ UNCHANGED <<queue, CurrentJob, connected, Monitors, Logging, locks, job, kind, aborting,
                 sending, flush, jobVars, bounds>>

(* A caller that was woken tests the value and sleeps again if need be. *)
CONDITION_WAIT(c) ==
  /\ pc[c] \in {"wait_set", "wait_reset"}
  /\ c \notin asleep
  /\ IF running = (pc[c] = "wait_set")
       THEN /\ Goto(c, IF running THEN "idle" ELSE "abort")
            /\ UNCHANGED asleep
       ELSE /\ asleep' = asleep \cup {c}
            /\ UNCHANGED pc
  /\ UNCHANGED <<queue, CurrentJob, connected, Monitors, Logging, locks, running, Worker, cancel,
                 job, kind, aborting, sending, flush, jobVars, bounds>>

KillWorker(c) ==
  IF running
    THEN /\ cancel' = cancel \cup {Worker}
         /\ asleep' = asleep \cup {c}
         /\ Goto(c, "wait_reset")
    ELSE /\ Goto(c, "abort")
         /\ UNCHANGED <<cancel, asleep>>

SrvAbort(c, p1) ==
  /\ pc[c] = "idle"
  /\ aborts < MaxAborts
  /\ aborts' = aborts + 1
  /\ flush' = [flush EXCEPT ![c] = p1]
  /\ KillWorker(c)
  /\ UNCHANGED <<queue, CurrentJob, connected, Monitors, Logging, locks, running, Worker,
                 job, kind, aborting, sending, jobVars, nextid>>

(* Mutant of SrvAbort_locked: the current job is freed without a reply. *)
SrvAbort_locked_silent(c) ==
  /\ pc[c] = "abort"
  /\ LockQueue(c)
  /\ fate' = IF CurrentJob = None THEN fate ELSE [fate EXCEPT ![CurrentJob] = "freed"]
  /\ next_abort(c, IF flush[c] THEN queue ELSE <<>>)
  /\ UNCHANGED <<queue, CurrentJob, connected, Monitors, Logging, workerVars, sending, flush, addr,
                 replies, bounds>>

SrvAbort_locked(c) ==
  /\ pc[c] = "abort"
  /\ LockQueue(c)
  /\ next_abort(c, (IF CurrentJob = None THEN <<>> ELSE <<CurrentJob>>)
                   \o (IF flush[c] THEN queue ELSE <<>>))
  /\ UNCHANGED <<queue, CurrentJob, connected, Monitors, Logging, workerVars, sending, flush,
                 jobVars, bounds>>

(* Mutant of SrvAbort_unlock: CurrentJob becomes the job number 0. *)
SrvAbort_unlock_zero(c) ==
  /\ pc[c] = "abort_end"
  /\ staticLock = None
  /\ CurrentJob' = 0
  /\ queue' = IF flush[c] THEN <<>> ELSE queue
  /\ queueMutex' = None
  /\ QueueLocked' = FALSE
  /\ Goto(c, "idle")
  /\ UNCHANGED <<connected, Monitors, Logging, staticLock, clientsMutex, workerVars, job,
                 kind, aborting, sending, flush, jobVars, bounds>>

(* Mutant of SrvAbort_unlock: CurrentJob is not reset. *)
SrvAbort_unlock_keeps(c) ==
  /\ pc[c] = "abort_end"
  /\ staticLock = None
  /\ queue' = IF flush[c] THEN <<>> ELSE queue
  /\ queueMutex' = None
  /\ QueueLocked' = FALSE
  /\ Goto(c, "idle")
  /\ UNCHANGED <<CurrentJob, connected, Monitors, Logging, staticLock, clientsMutex, workerVars,
                 job, kind, aborting, sending, flush, jobVars, bounds>>

SrvAbort_unlock(c) ==
  /\ pc[c] = "abort_end"
  /\ staticLock = None
  /\ CurrentJob' = None
  /\ queue' = IF flush[c] THEN <<>> ELSE queue
  /\ queueMutex' = None
  /\ QueueLocked' = FALSE
  /\ Goto(c, "idle")
  /\ UNCHANGED <<connected, Monitors, Logging, staticLock, clientsMutex, workerVars, job, kind,
                 aborting, sending, flush, jobVars, bounds>>

(* SrvRemoveLast: the job is freed, nobody is told. *)
RemoveLast(c) ==
  /\ pc[c] = "idle"
  /\ queue # <<>>
  /\ LockQueue(c)
  /\ Goto(c, "removed")
  /\ queue' = SubSeq(queue, 1, Len(queue) - 1)
  /\ fate' = [fate EXCEPT ![queue[Len(queue)]] = "removed"]
  /\ UNCHANGED <<CurrentJob, connected, Monitors, Logging, workerVars, job, kind, aborting,
                 sending, flush, addr, replies, bounds>>

SrvSetLogging(c) ==
  /\ pc[c] = "idle"
  /\ staticLock = None
  /\ Logging' = ~Logging
  /\ UNCHANGED <<queue, CurrentJob, connected, Monitors, locks, workerVars, threadVars, jobVars, bounds>>

Request(c) ==
  \/ QJob(c)
  \/ "abort" \in Requests /\ SrvAbort(c, FALSE)
  \/ "flush" \in Requests /\ SrvAbort(c, TRUE)
  \/ "remove" \in Requests /\ RemoveLast(c)
  \/ "logging" \in Requests /\ SrvSetLogging(c)

(* The rest of a request that is under way. *)
CallerStep(c) ==
  \/ UnlockQueue(c) \/ StartWorker(c) \/ CONDITION_WAIT(c) \/ SrvAbort_locked(c) \/ SrvAbort_unlock(c)
  \/ send_reply(c)

-----------------------------------------------------------------------------
(* Workers: WorkerThread. *)

worker_start(w) ==
  /\ pc[w] = "start"
  /\ CONDITION_SET_TO(TRUE)
  /\ Goto(w, "next")
  /\ UNCHANGED <<queue, CurrentJob, connected, Monitors, Logging, locks, Worker, cancel, job, kind,
                 aborting, sending, flush, jobVars, bounds>>

(* Mutant of NextJob: the job stays in the queue while it is executed. *)
NextJob_peeks(w) ==
  /\ pc[w] = "next"
  /\ QueueSection
  /\ IF queue = <<>> THEN Goto(w, "wait") /\ UNCHANGED job
                     ELSE /\ job' = [job EXCEPT ![w] = Head(queue)]
                          /\ Goto(w, "begin")
  /\ UNCHANGED <<queue, CurrentJob, connected, Monitors, Logging, workerVars, kind,
                 aborting, sending, flush, jobVars, bounds>>

NextJob(w) ==
  /\ pc[w] = "next"
  /\ QUEUE_LOCK
  /\ \/ /\ queue # <<>>
        /\ job' = [job EXCEPT ![w] = Head(queue)]
        /\ queue' = Tail(queue)
        /\ QueueLocked' = FALSE
        /\ Goto(w, "begin")
     \/ /\ queue = <<>>
        /\ QueueLocked' = TRUE   \* pthread_cond_wait gives up the mutex only
        /\ Goto(w, "wait")
        /\ UNCHANGED <<queue, job>>
  /\ UNCHANGED <<CurrentJob, connected, Monitors, Logging, queueMutex, staticLock, clientsMutex,
                 workerVars, kind, aborting, sending, flush, jobVars, bounds>>

SetCurrentJob(w) ==
  /\ pc[w] = "begin"
  /\ QueueSection
  /\ CurrentJob' = job[w]
  /\ IF job[w] \in Notify THEN StartReply(w, "STARTING")
                          ELSE Goto(w, "run") /\ UNCHANGED kind
  /\ UNCHANGED <<queue, connected, Monitors, Logging, workerVars, job, aborting, sending, flush,
                 jobVars, bounds>>

(* DoSrvAction up to the first log line; the tree may fail to open. *)
DoSrvAction(w) ==
  /\ op[job[w]] = "action"
  /\ staticLock = None
  /\ \/ StartReply(w, "FINISHED")
     \/ Goto(w, IF Logging THEN "log" ELSE "task") /\ UNCHANGED kind
  /\ UNCHANGED <<Monitors, addr, sending>>

(* DoSrvCommand, DoSrvClose and DoSrvCreatePulse. *)
DoSrvCommand(w) ==
  /\ op[job[w]] = "command"
  /\ staticLock = None
  /\ Goto(w, "task")
  /\ UNCHANGED <<Monitors, addr, sending, kind>>

AddMonitorClient(w) ==
  /\ op[job[w]] = "checkin"
  /\ LET m == addr[job[w]] IN
     Monitors' = IF \E k \in DOMAIN Monitors : Monitors[k] = m THEN Monitors
                                                              ELSE <<m>> \o Monitors
  /\ StartReply(w, "CHECKEDIN")
  /\ UNCHANGED <<addr, sending>>

SendToMonitors(w) ==
  /\ op[job[w]] = "broadcast"
  /\ next_monitor(w, Monitors)
  /\ UNCHANGED Monitors

worker_run(w) ==
  /\ pc[w] = "run"
  /\ DoSrvAction(w) \/ DoSrvCommand(w) \/ AddMonitorClient(w) \/ SendToMonitors(w)
  /\ UNCHANGED <<queue, CurrentJob, connected, Logging, locks, workerVars, job, aborting, flush,
                 fate, replies, bounds>>

(* A log line is written to stdout with STATIC_lock held. *)
log_line(w) ==
  /\ pc[w] \in {"log", "log_done"}
  /\ staticLock = None
  /\ staticLock' = w
  /\ Goto(w, IF pc[w] = "log" THEN "logging" ELSE "logging_done")
  /\ UNCHANGED <<queue, CurrentJob, connected, Monitors, Logging, QueueLocked, queueMutex, clientsMutex,
                 workerVars, job, kind, aborting, sending, flush, jobVars, bounds>>

log_written(w) ==
  /\ pc[w] \in {"logging", "logging_done"}
  /\ NotCancelled(w)
  /\ staticLock' = None
  /\ IF pc[w] = "logging" THEN Goto(w, "task") /\ UNCHANGED kind
                          ELSE StartReply(w, "FINISHED")
  /\ UNCHANGED <<queue, CurrentJob, connected, Monitors, Logging, QueueLocked, queueMutex, clientsMutex,
                 workerVars, job, aborting, sending, flush, jobVars, bounds>>

(* TdiDoTask, mdsdcl_do_command, TreeClose, TreeCreateTreeFiles *)
task_done(w) ==
  /\ pc[w] = "task"
  /\ op[job[w]] = "action" => staticLock = None   \* "Done " in the job text
  /\ IF op[job[w]] = "action" /\ Logging THEN Goto(w, "log_done") /\ UNCHANGED kind
                                         ELSE StartReply(w, "FINISHED")
  /\ UNCHANGED <<queue, CurrentJob, connected, Monitors, Logging, locks, workerVars, job, aborting,
                 sending, flush, jobVars, bounds>>

worker_finish(w) ==
  /\ pc[w] = "finish"
  /\ QueueSection
  /\ CurrentJob' = None
  /\ fate' = [fate EXCEPT ![job[w]] = "freed"]
  /\ job' = [job EXCEPT ![w] = None]
  /\ Goto(w, "next")
  /\ UNCHANGED <<queue, connected, Monitors, Logging, workerVars, kind, aborting, sending, flush,
                 addr, replies, bounds>>

(* Mutant of cancelled: QUEUE_LOCK registers no cleanup handler. *)
cancelled_uncleaned(w) ==
  /\ w \in cancel
  /\ pc[w] \in {"check", "open", "send", "send_new", "sent", "logging", "logging_done",
                "task", "wait"}
  /\ Goto(w, "exit")
  /\ UNCHANGED <<queue, CurrentJob, connected, Monitors, Logging, locks, workerVars,
                 job, kind, aborting, sending, flush, jobVars, bounds>>

(***************************************************************************)
(* The cancellation takes effect; the only cleanup handler on the way is    *)
(* UnlockQueue, when the worker waits for a job.                            *)
(***************************************************************************)
cancelled(w) ==
  /\ w \in cancel
  /\ \/ /\ pc[w] \in {"check", "open", "send", "send_new", "sent", "logging", "logging_done", "task"}
        /\ UNCHANGED <<QueueLocked, connected>>
     \/ /\ pc[w] = "wait"
        /\ QUEUE_LOCK
        /\ QueueLocked' = FALSE
        /\ UNCHANGED connected
     \/ /\ pc[w] = "cleanup"   \* in close_socket, after remove_client
        /\ clientsMutex = None
        /\ connected' = connected \ {addr[job[w]]}
        /\ UNCHANGED QueueLocked
  /\ Goto(w, "exit")
  /\ UNCHANGED <<queue, CurrentJob, Monitors, Logging, queueMutex, staticLock, clientsMutex,
                 workerVars, job, kind, aborting, sending, flush, jobVars, bounds>>

(***************************************************************************)
(* WorkerExit, the last cleanup handler.  With STATIC_QueueLocked set it    *)
(* would call UnlockQueue, which waits for the STATIC_lock that WorkerExit  *)
(* holds: a deadlock, so there is no step for that case.                    *)
(***************************************************************************)
WorkerExit(w) ==
  /\ pc[w] = "exit"
  /\ staticLock = None
  /\ ~QueueLocked
  /\ CONDITION_SET_TO(FALSE)
  /\ Goto(w, "dead")
  /\ UNCHANGED <<queue, CurrentJob, connected, Monitors, Logging, locks, Worker,
                 cancel, job, kind, aborting, sending, flush, jobVars, bounds>>

WorkerStep(w) ==
  \/ worker_start(w) \/ NextJob(w) \/ SetCurrentJob(w) \/ worker_run(w)
  \/ log_line(w) \/ log_written(w) \/ task_done(w) \/ worker_finish(w)
  \/ send_reply(w) \/ cancelled(w) \/ WorkerExit(w)

-----------------------------------------------------------------------------

Next ==
  \/ \E c \in Callers : Request(c) \/ CallerStep(c)
  \/ \E w \in Workers : WorkerStep(w)

Spec == Init /\ [][Next]_vars

(* Threads keep running: tasks end, and a request that was begun goes on. *)
Fairness ==
  /\ \A c \in Callers : WF_vars(CallerStep(c))
  /\ \A w \in Workers : WF_vars(WorkerStep(w))

FairSpec == Spec /\ Fairness

-----------------------------------------------------------------------------
(* Properties. *)

Begun(j) ==
  \/ replies[j] # <<>>
  \/ \E w \in Workers : job[w] = j /\ pc[w] # "begin"

(***************************************************************************)
(* tcl_commands.xml: an action server executes the actions of its queue one *)
(* after the other.  Nothing of a job happens before every job queued       *)
(* earlier was finished, aborted or removed - also when a worker was        *)
(* cancelled half-way and another one goes on with the queue.               *)
(***************************************************************************)
OneAfterOther ==
  \A j, k \in Jobs : k < j /\ Begun(j) => fate[k] \in {"freed", "removed"}

Final == {"FINISHED", "CHECKEDIN", "ABORT"}

(***************************************************************************)
(* What a dispatcher relies on: the job is not forgotten before a final     *)
(* reply was sent to the socket named in the request (unless that socket    *)
(* fails), and SrvJobSTARTING comes first, whenever the worker is killed.   *)
(***************************************************************************)
Answered ==
  \A j \in Jobs :
    /\ fate[j] = "freed" /\ owner[j] \notin Broken =>
         \E n \in DOMAIN replies[j] : /\ replies[j][n][1] \in Final
                                      /\ replies[j][n][2] = owner[j]
    /\ \A n \in DOMAIN replies[j] : replies[j][n][1] = "STARTING" => n = 1

(***************************************************************************)
(* No thread works on a job that was freed: a worker that is alive, a       *)
(* caller that aborts jobs, the queue and CurrentJob only refer to jobs     *)
(* that were not freed by FreeJob.                                          *)
(***************************************************************************)
UsesLive ==
  /\ \A w \in Workers :
       job[w] # None /\ pc[w] \notin {"exit", "dead"} => fate[job[w]] = "live"
  /\ \A c \in Callers : pc[c] \in ReplyPcs => fate[job[c]] = "live"
  /\ \A n \in DOMAIN queue : queueMutex = None => fate[queue[n]] = "live"
  /\ CurrentJob # None /\ queueMutex = None => fate[CurrentJob] = "live"

(***************************************************************************)
(* WorkerExit never finds STATIC_QueueLocked set, so it does not deadlock   *)
(* on its own STATIC_lock, wherever the cancellation hits: also while the   *)
(* worker waits for a job, when the flag stays set although pthread_cond    *)
(* _wait released the mutex.                                                *)
(***************************************************************************)
ExitUnlocked ==
  \A w \in Workers : pc[w] = "exit" => ~QueueLocked

(***************************************************************************)
(* Every job that is queued is executed and freed, in the absence of        *)
(* aborts: no wake-up of the worker or of a caller that starts it is lost.  *)
(***************************************************************************)
EveryJobEnds ==
  \A j \in Jobs : fate[j] = "live" ~> fate[j] # "live"
=============================================================================
