---------------------------- MODULE DispatchPhase ----------------------------
(***************************************************************************)
(* ServerDispatchPhase.c: the dispatcher process of DISPATCH/PHASE.         *)
(*                                                                          *)
(* Two threads run in it.  "main" executes ServerDispatchPhase: it sends    *)
(* the sequential actions of the phase group by group, waits, marks what    *)
(* can no longer happen and records the statuses.  "receiver" executes the  *)
(* callbacks before and action_done when an action server replies or a      *)
(* connection is lost.  Either of them dispatches conditional actions: the  *)
(* completion of an action walks through its referenced_by list, and        *)
(* dispatching can itself complete actions.  That recursion is kept in a    *)
(* call stack per thread; one step of the model runs from one lock          *)
(* operation to the next.                                                   *)
(*                                                                          *)
(* A section under WRLOCK_ACTION contains no other blocking call, so it is  *)
(* one step; what outlives a step is a read lock that is never released:    *)
(* readers[i] counts those, and a writer of i needs readers[i] = 0.         *)
(***************************************************************************)
EXTENDS ActionTable

CONSTANTS
  Syncs,      \* values of the /SYNCH qualifier
  NoActs,     \* subset of BOOLEAN: values of the /NOACTION qualifier
  Replies,    \* statuses an action server may report
  Faults,     \* what may happen to a connection, see FaultKinds
  MaxCalls    \* bound on the number of DISPATCH/PHASE commands

(***************************************************************************)
(* "connect": no connection can be made; "handshake": sending the message   *)
(* or receiving the server's first answer fails; "lost": the reply socket   *)
(* is closed.                                                               *)
(***************************************************************************)
FaultKinds == {"connect", "handshake", "lost"}

ASSUME ParameterType ==
  /\ Syncs \subseteq Int
  /\ NoActs \subseteq BOOLEAN
  /\ Replies \subseteq Statuses
  /\ Faults \subseteq FaultKinds
  /\ MaxCalls \in Nat

VARIABLES
  \* ActionInfo
  dispatched, doing, done, recorded, status,
  readers,          \* read locks on actions[i].lock that were never released
  \* outside the table
  var,              \* the TDI variables _ACTION_nid
  nci,              \* NciSTATUS of the node in the tree
  armed,            \* table # NULL
  failed_essential, AbortInProgress, noact, sync,
  \* ServerDispatchPhase: program counter, loop index, ranges
  pc, i, curPhase, first_c, last_c, first_s, last_s, first_g, last_g,
  calls,            \* the phases of the commands so far, in order
  \* the two threads, the Jobs list, and its jobs with callback_done # NULL
  stack, jobs, live,
  \* connections, named after the job that was sent first on them
  clients,          \* those that are the conid of an entry of Clients
  open,             \* those whose server is there, save closed ones in clients
  conid             \* per job: the connection its message was sent on

actionVars == <<dispatched, doing, done, recorded, status, var>>
rangeVars  == <<curPhase, first_c, last_c, first_s, last_s, noact, sync, calls>>
mainVars   == <<nci, armed, failed_essential, AbortInProgress, pc, i, rangeVars,
                first_g, last_g>>
connVars   == <<clients, open, conid>>
jobVars    == <<jobs, live, connVars>>
vars == <<dispatched, doing, done, recorded, status, readers, var, nci, armed,
          failed_essential, AbortInProgress, noact, sync, pc, i, curPhase,
          first_c, last_c, first_s, last_s, first_g, last_g, calls, stack, jobs, live,
          clients, open, conid>>

Threads == {"main", "receiver"}

(***************************************************************************)
(* A frame is a call in progress.                                           *)
(*   dispatch   dispatch(idx), called for a conditional action              *)
(*   send       ServerDispatchAction, before the job is registered          *)
(*   sent       ... the job is registered, the message is on its way        *)
(*   cleanup    Job_cleanup of the connection the job of idx was sent on    *)
(*   lost       Client_cleanup_jobs of the connection <<idx, by>>           *)
(*   fail       dispatch(idx) after ServerDispatchAction returned st        *)
(*   callback   Job_callback_done(job, st) for the job <<idx, by>>          *)
(*   pop        Job_pop(job), the end of Job_callback_done with remove set  *)
(*   before     before(idx)                                                 *)
(*   complete   action_done(idx)                                            *)
(*   cascade    action_done_action_unlocked(idx), on entry                  *)
(*   refs       ... at its k-th reference                                   *)
(*   notdisp    ... marking the reference idx as ServerNOT_DISPATCHED       *)
(*   invdep     ... marking the reference idx as ServerINVALID_DEPENDENCY   *)
(*   invend     ... after the nested action_done of an invalid dependency   *)
(***************************************************************************)
CondFns == {"dispatch", "notdisp", "invdep", "invend"}
Fns == CondFns \cup {"send", "sent", "cleanup", "lost", "fail", "callback",
                     "pop", "before", "complete", "cascade", "refs"}

Frames == {f \in [fn : Fns, idx : Actions, by : Threads, k : Nat \ {0}, st : Statuses] :
             f.fn \in CondFns => f.idx \in Conditional}

Call(fn, idx, st) == [fn |-> fn, idx |-> idx, by |-> "main", k |-> 1, st |-> st]
CallJob(fn, j, st) == [Call(fn, j[1], st) EXCEPT !.by = j[2]]

TypeOK ==
  /\ dispatched \in [Actions -> BOOLEAN]
  /\ doing \in [Actions -> BOOLEAN]
  /\ done \in [Actions -> BOOLEAN]
  /\ recorded \in [Actions -> BOOLEAN]
  /\ status \in [Actions -> Statuses]
  /\ readers \in [Actions -> Nat]
  /\ var \in [Actions -> Statuses \cup {UNKNOWN_VAR}]
  /\ nci \in [Actions -> Statuses]
  /\ armed \in BOOLEAN
  /\ failed_essential \in BOOLEAN
  /\ AbortInProgress \in BOOLEAN
  /\ noact \in BOOLEAN
  /\ sync \in Syncs \cup {1}
  /\ pc \in {"idle", "lookup", "group", "dispatch", "wait_group", "wait_all",
             "set_abort", "mark", "record_c", "record_s"}
  /\ i \in Nat
  /\ curPhase \in Phases \cup {0}
  /\ {first_c, last_c, first_s, last_s, first_g, last_g} \subseteq 0 .. num
  /\ calls \in Seq(Phases)
  /\ stack \in [Threads -> Seq(Frames)]
  /\ jobs \subseteq Actions \X Threads
  /\ live \subseteq Actions \X Threads
  /\ clients \subseteq Actions \X Threads
  /\ open \subseteq Actions \X Threads
  /\ conid \in [Actions \X Threads -> Actions \X Threads]

Init ==
  /\ dispatched = [a \in Actions |-> FALSE]
  /\ doing = [a \in Actions |-> FALSE]
  /\ done = [a \in Actions |-> FALSE]
  /\ recorded = [a \in Actions |-> FALSE]
  /\ status = [a \in Actions |-> Unset]
  /\ readers = [a \in Actions |-> 0]
  /\ var = [a \in Actions |-> UNKNOWN_VAR]
  /\ nci = [a \in Actions |-> Unset]
  /\ armed = FALSE
  /\ failed_essential = FALSE
  /\ AbortInProgress = FALSE
  /\ noact = FALSE
  /\ sync = 1
  /\ pc = "idle"
  /\ i = 0
  /\ curPhase = 0
  /\ first_c = 0 /\ last_c = 0 /\ first_s = 0 /\ last_s = 0
  /\ first_g = 0 /\ last_g = 0
  /\ calls = <<>>
  /\ stack = [t \in Threads |-> <<>>]
  /\ jobs = {}
  /\ live = {}
  /\ clients = {}
  /\ open = {}
  /\ conid = [j \in Actions \X Threads |-> j]

-----------------------------------------------------------------------------
(* The call stack of a thread: the top is the head. *)

Top(t) == Head(stack[t])
At(t, fn) == stack[t] # <<>> /\ Top(t).fn = fn
Goto(t, f) == stack' = [stack EXCEPT ![t] = <<f>> \o Tail(@)]
Return(t) == stack' = [stack EXCEPT ![t] = Tail(@)]
GotoCalling(t, f, callee) == stack' = [stack EXCEPT ![t] = <<callee>> \o (<<f>> \o Tail(@))]
Start(t, f) == stack' = [stack EXCEPT ![t] = <<f>> \o @]

WRLOCK(idx) == readers[idx] = 0

(***************************************************************************)
(* action_done_action_locked(idx) after the caller set the status to st:    *)
(* the completion event, the monitor message and the log line are outputs,  *)
(* the rest is the done and recorded flags and the TDI variable.            *)
(***************************************************************************)
action_done_action_locked(idx, st) ==
  /\ status' = [status EXCEPT ![idx] = st]
  /\ done' = [done EXCEPT ![idx] = TRUE]
  /\ recorded' = [recorded EXCEPT ![idx] = FALSE]
  /\ var' = [var EXCEPT ![idx] = st]

(***************************************************************************)
(* The part of dispatch(idx) under WRLOCK_ACTION: the flags are reset; with *)
(* /NOACTION the action completes at once with status 1.                    *)
(***************************************************************************)
dispatch_locked(idx) ==
  /\ WRLOCK(idx)
  /\ doing' = [doing EXCEPT ![idx] = FALSE]
  /\ dispatched' = [dispatched EXCEPT ![idx] = TRUE]
  /\ IF noact
       THEN action_done_action_locked(idx, SUCCESS)
       ELSE /\ done' = [done EXCEPT ![idx] = FALSE]
            /\ UNCHANGED <<status, recorded, var>>

AfterDispatchLocked(idx) == Call(IF noact THEN "cascade" ELSE "send", idx, Unset)

-----------------------------------------------------------------------------
(* Steps both threads take. *)

dispatch(t) ==
  /\ At(t, "dispatch")
  /\ dispatch_locked(Top(t).idx)
  /\ Goto(t, AfterDispatchLocked(Top(t).idx))
  /\ UNCHANGED <<readers, mainVars, jobVars>>

ConnectionsTo(srv) == {c \in clients \cup open : server[c[1]] = srv}

(***************************************************************************)
(* server_connect: a thread finds a connection only in its own list         *)
(* (MdsipThreadStatic), so the client's connection is reused only by the    *)
(* thread that opened it; otherwise a new one takes its place.  The server  *)
(* goes on with what came over the old one, and replies.                    *)
(***************************************************************************)
server_connect(own) ==
  LET old == ConnectionsTo(server[own[1]])
      mine == {c \in old \cap clients \cap open : c[2] = own[2]}
  IN
  \/ \E c \in mine :
       /\ conid' = [conid EXCEPT ![own] = c]
       /\ UNCHANGED <<clients, open>>
  \/ /\ mine = {}
     /\ clients' = (clients \ old) \cup {own}
     /\ open' = open \cup old \cup {own}
     /\ conid' = [conid EXCEPT ![own] = own]

(***************************************************************************)
(* ServerSendMessage.  When no connection can be made it calls the callback *)
(* itself and also returns an error.                                        *)
(***************************************************************************)
send_message(t) ==
  /\ At(t, "send")
  /\ LET own == <<Top(t).idx, t>> IN
     \/ /\ "connect" \in Faults
        /\ GotoCalling(t, Call("fail", Top(t).idx, PATH_DOWN),
                          Call("complete", Top(t).idx, Unset))
        /\ UNCHANGED jobVars
     \/ /\ server_connect(own)
        /\ jobs' = jobs \cup {own}
        /\ live' = live \cup {own}
        /\ Goto(t, Call("sent", Top(t).idx, Unset))
  /\ UNCHANGED <<actionVars, readers, mainVars>>

(***************************************************************************)
(* The handshake of the server: received, or an error after the job was     *)
(* registered.  Job_cleanup pops that job, unless its reply was faster,     *)
(* closes the connection and then pops every job on it.  The receiver may   *)
(* be at work on the job that is freed here: it then reads a stale copy.    *)
(***************************************************************************)
handshake(t) ==
  /\ At(t, "sent")
  /\ LET idx == Top(t).idx
         own == <<idx, t>>
     IN
     \/ Return(t) /\ UNCHANGED <<jobs, open>>
     \/ /\ "handshake" \in Faults
        /\ own \in jobs
        /\ jobs' = jobs \ {own}
        /\ open' = open \ (clients \cap {conid[own]})
        /\ GotoCalling(t, Call("cleanup", idx, PATH_DOWN), CallJob("callback", own, PATH_DOWN))
     \/ /\ "handshake" \in Faults
        /\ own \notin jobs
        /\ Goto(t, Call("fail", idx, PATH_DOWN))
        /\ UNCHANGED <<jobs, open>>
  /\ UNCHANGED <<actionVars, readers, mainVars, live, clients, conid>>

JobsOn(c) == {j \in jobs : conid[j] = c}

CleanedUp(t, f) == IF f.fn = "cleanup" THEN conid[<<f.idx, t>>] ELSE <<f.idx, f.by>>

(***************************************************************************)
(* The loops of Job_cleanup and Client_cleanup_jobs: pop a job of the       *)
(* connection and call it back, until there is none left.                   *)
(***************************************************************************)
pop_by_conid(t) ==
  /\ At(t, "cleanup") \/ At(t, "lost")
  /\ LET f == Top(t)
         c == CleanedUp(t, f)
     IN
     \/ \E j \in JobsOn(c) :
          /\ jobs' = jobs \ {j}
          /\ Start(t, CallJob("callback", j, PATH_DOWN))
     \/ /\ JobsOn(c) = {}
        /\ UNCHANGED jobs
        /\ IF f.fn = "cleanup" THEN Goto(t, Call("fail", f.idx, f.st)) ELSE Return(t)
  /\ UNCHANGED <<actionVars, readers, mainVars, live, connVars>>

(* dispatch(idx), when ServerDispatchAction did not return OK. *)
dispatch_failed(t) ==
  /\ At(t, "fail")
  /\ LET f == Top(t) IN
     /\ WRLOCK(f.idx)
     /\ dispatched' = [dispatched EXCEPT ![f.idx] = FALSE]
     /\ action_done_action_locked(f.idx, f.st)
     /\ Goto(t, Call("cascade", f.idx, Unset))
  /\ UNCHANGED <<doing, readers, mainVars, jobVars>>

(* Mutant of Job_callback_done: the status is stored, the callback is not called. *)
Job_callback_done_uncalled(t) ==
  /\ At(t, "callback")
  /\ WRLOCK(Top(t).idx)
  /\ status' = [status EXCEPT ![Top(t).idx] = Top(t).st]
  /\ live' = live \ {<<Top(t).idx, Top(t).by>>}
  /\ Return(t)
  /\ UNCHANGED <<dispatched, doing, done, recorded, var, readers, mainVars, jobs, connVars>>

(***************************************************************************)
(* Job_callback_done: under the action's lock the status is stored and the  *)
(* callback is taken out of the job, so that it is called at most once.     *)
(***************************************************************************)
Job_callback_done(t) ==
  /\ At(t, "callback")
  /\ LET f == Top(t)
         job == <<f.idx, f.by>>
     IN
     /\ WRLOCK(f.idx)
     /\ status' = [status EXCEPT ![f.idx] = f.st]
     /\ live' = live \ {job}
     /\ IF job \in live THEN Goto(t, Call("complete", f.idx, Unset)) ELSE Return(t)
  /\ UNCHANGED <<dispatched, doing, done, recorded, var, readers, mainVars, jobs, connVars>>

Job_pop(t) ==
  /\ At(t, "pop")
  /\ jobs' = jobs \ ({<<Top(t).idx, Top(t).by>>} \ live)   \* not a newer job
  /\ Return(t)
  /\ UNCHANGED <<actionVars, readers, mainVars, live, connVars>>

(* action_done: nothing happens when DISPATCH/CLOSE disarmed the table. *)
action_done(t) ==
  /\ At(t, "complete")
  /\ LET idx == Top(t).idx IN
     \/ /\ armed
        /\ WRLOCK(idx)
        /\ action_done_action_locked(idx, status[idx])
        /\ Goto(t, Call("cascade", idx, Unset))
     \/ /\ ~armed
        /\ Return(t)
        /\ UNCHANGED <<status, done, recorded, var>>
  /\ UNCHANGED <<dispatched, doing, readers, mainVars, jobVars>>

before(t) ==
  /\ At(t, "before")
  /\ LET idx == Top(t).idx IN
     \/ /\ armed
        /\ WRLOCK(idx)
        /\ doing' = [doing EXCEPT ![idx] = TRUE]
     \/ ~armed /\ UNCHANGED doing
  /\ Return(t)
  /\ UNCHANGED <<dispatched, done, recorded, status, var, readers, mainVars, jobVars>>

(* action_done_action_unlocked: no cascade once an abort is in progress. *)
cascade(t) ==
  /\ At(t, "cascade")
  /\ IF AbortInProgress THEN Return(t) ELSE Goto(t, Call("refs", Top(t).idx, Unset))
  /\ UNCHANGED <<actionVars, readers, mainVars, jobVars>>

(* Mutant of reference_check: no unlock when the reference is already done. *)
reference_check_leaks(t) ==
  /\ At(t, "refs")
  /\ LET f == Top(t)
         refs == referenced_by[f.idx]
         next == [f EXCEPT !.k = @ + 1]
     IN
     \/ f.k > Len(refs) /\ Return(t) /\ UNCHANGED readers
     \/ /\ f.k <= Len(refs)
        /\ LET cidx == refs[f.k] IN
           IF done[cidx] \/ dispatched[cidx]
             THEN /\ readers' = [readers EXCEPT ![cidx] = @ + 1]
                  /\ Goto(t, next)
             ELSE /\ GotoCalling(t, next, Call("dispatch", cidx, Unset))
                  /\ UNCHANGED readers
  /\ UNCHANGED <<actionVars, mainVars, jobVars>>

(***************************************************************************)
(* One iteration of the loop over referenced_by.  The check is made under   *)
(* RDLOCK_ACTION(cidx), what follows is done after it was released; when    *)
(* the condition still names an undefined variable, no branch releases it.  *)
(***************************************************************************)
reference_check(t) ==
  /\ At(t, "refs")
  /\ LET f == Top(t)
         refs == referenced_by[f.idx]
         next == [f EXCEPT !.k = @ + 1]
     IN
     \/ /\ f.k > Len(refs)
        /\ Return(t)
        /\ UNCHANGED readers
     \/ /\ f.k <= Len(refs)
        /\ LET cidx == refs[f.k]
               doit == TdiGetLong(cidx, var)
           IN
           \/ /\ done[cidx] \/ dispatched[cidx]
              /\ Goto(t, next)
              /\ UNCHANGED readers
           \/ /\ ~done[cidx] /\ ~dispatched[cidx]
              /\ doit = UNKNOWN_VAR
              /\ readers' = [readers EXCEPT ![cidx] = @ + 1]
              /\ Goto(t, next)
           \/ /\ ~done[cidx] /\ ~dispatched[cidx]
              /\ doit # UNKNOWN_VAR
              /\ GotoCalling(t, next,
                   Call(CASE doit = INVALID -> "invdep"
                          [] doit = 0       -> "notdisp"
                          [] OTHER          -> "dispatch", cidx, Unset))
              /\ UNCHANGED readers
  /\ UNCHANGED <<actionVars, mainVars, jobVars>>

not_dispatched(t) ==
  /\ At(t, "notdisp")
  /\ WRLOCK(Top(t).idx)
  /\ action_done_action_locked(Top(t).idx, NOT_DISPATCHED)
  /\ Goto(t, Call("cascade", Top(t).idx, Unset))
  /\ UNCHANGED <<dispatched, doing, readers, mainVars, jobVars>>

(***************************************************************************)
(* The invalid dependency branch calls action_done, which locks again what  *)
(* this thread holds for writing (refused with EDEADLK), unlocks and        *)
(* cascades; then it unlocks a lock nobody holds, and cascades once more.   *)
(***************************************************************************)
invalid_dependency(t) ==
  /\ At(t, "invdep")
  /\ WRLOCK(Top(t).idx)
  /\ action_done_action_locked(Top(t).idx, INVALID_DEPENDENCY)
  /\ GotoCalling(t, Call("invend", Top(t).idx, Unset), Call("cascade", Top(t).idx, Unset))
  /\ UNCHANGED <<dispatched, doing, readers, mainVars, jobVars>>

(***************************************************************************)
(* Undefined behaviour: the second unlock either leaves the lock alone or   *)
(* corrupts its reader count so that no writer ever gets it again.          *)
(***************************************************************************)
invalid_dependency_end(t) ==
  /\ At(t, "invend")
  /\ \/ UNCHANGED readers
     \/ readers' = [readers EXCEPT ![Top(t).idx] = @ + 1]
  /\ Goto(t, Call("cascade", Top(t).idx, Unset))
  /\ UNCHANGED <<actionVars, mainVars, jobVars>>

ThreadStep(t) ==
  \/ dispatch(t) \/ send_message(t) \/ handshake(t) \/ pop_by_conid(t)
  \/ dispatch_failed(t) \/ Job_callback_done(t) \/ Job_pop(t) \/ action_done(t)
  \/ before(t)
  \/ cascade(t) \/ reference_check(t) \/ not_dispatched(t)
  \/ invalid_dependency(t) \/ invalid_dependency_end(t)

-----------------------------------------------------------------------------
(* What wakes the receiver: a reply of an action server, a lost connection. *)

(***************************************************************************)
(* The server replies over a socket of its own, whatever became of the      *)
(* connection the message was sent on.                                      *)
(***************************************************************************)
Answerable == {j \in jobs : conid[j] \in clients \cup open}

job_starting(idx) ==
  /\ stack["receiver"] = <<>>
  /\ \E t \in Threads : <<idx, t>> \in Answerable
  /\ armed /\ ~doing[idx]    \* otherwise before(idx) changes nothing
  /\ Start("receiver", Call("before", idx, Unset))
  /\ UNCHANGED <<actionVars, readers, mainVars, jobVars>>

job_finished(j, st) ==
  /\ stack["receiver"] = <<>>
  /\ j \in Answerable
  /\ stack' = [stack EXCEPT !["receiver"] = <<CallJob("callback", j, st), CallJob("pop", j, st)>>]
  /\ UNCHANGED <<actionVars, readers, mainVars, jobVars>>

(***************************************************************************)
(* A server goes away: its reply socket is closed, the receiver removes the *)
(* client and calls back the jobs on the connection the client has now.     *)
(***************************************************************************)
connection_lost(c) ==
  /\ "lost" \in Faults
  /\ stack["receiver"] = <<>>
  /\ c \in clients
  /\ \E j \in jobs : server[j[1]] = server[c[1]]
  /\ clients' = clients \ {c}
  /\ open' = open \ ConnectionsTo(server[c[1]])
  /\ Start("receiver", CallJob("lost", c, Unset))
  /\ UNCHANGED <<actionVars, readers, mainVars, jobs, live, conid>>

Receive ==
  \/ \E idx \in Actions : job_starting(idx)
  \/ \E c \in Actions \X Threads : connection_lost(c)
  \/ \E j \in Actions \X Threads, st \in Replies : job_finished(j, st)

-----------------------------------------------------------------------------
(* The main thread. *)

(***************************************************************************)
(* WRLOCK_TABLE waits until the receiver is out of the sections that hold   *)
(* the table lock for reading.                                              *)
(***************************************************************************)
WRLOCK_TABLE ==
  \A n \in 1 .. Len(stack["receiver"]) :
    stack["receiver"][n].fn \in {"callback", "pop", "before", "complete", "lost"}

ServerDispatchPhase ==
  /\ pc = "idle"
  /\ Len(calls) < MaxCalls
  /\ WRLOCK_TABLE
  /\ armed' = TRUE
  /\ failed_essential' = FALSE
  /\ pc' = "lookup"
  /\ UNCHANGED <<actionVars, readers, nci, AbortInProgress, i, rangeVars,
                 first_g, last_g, stack, jobVars>>

(***************************************************************************)
(* The command goes on without the table lock: what was left of the abort   *)
(* flag is cleared before the phase is looked up.                           *)
(***************************************************************************)
phase_lookup(p, s, n) ==
  /\ pc = "lookup"
  /\ noact' = n
  /\ AbortInProgress' = FALSE
  /\ calls' = Append(calls, p)
  /\ sync' = s
  /\ curPhase' = p
  /\ LET r == set_action_ranges(p) IN
     /\ first_c' = r.first_c
     /\ last_c' = r.last_c
     /\ first_s' = r.first_s
     /\ last_s' = r.last_s
     /\ first_g' = r.first_s
  /\ last_g' = 0
  /\ pc' = "group"
  /\ UNCHANGED <<actionVars, readers, nci, armed, failed_essential, i, stack, jobVars>>

(* The name of the phase is not known: the command ends with an error. *)
phase_unknown(n) ==
  /\ pc = "lookup"
  /\ noact' = n
  /\ AbortInProgress' = FALSE
  /\ curPhase' = 0
  /\ pc' = "idle"
  /\ UNCHANGED <<actionVars, readers, nci, armed, failed_essential, i, first_c, last_c,
                 first_s, last_s, sync, calls, first_g, last_g, stack, jobVars>>

next_group ==
  /\ pc = "group"
  /\ IF first_g < last_s
       THEN /\ last_g' = set_group(sync, first_g, last_s)
            /\ i' = first_g
            /\ pc' = "dispatch"
       ELSE /\ i' = first_c
            /\ pc' = "wait_all"
            /\ UNCHANGED last_g
  /\ UNCHANGED <<actionVars, readers, nci, armed, failed_essential,
                 AbortInProgress, rangeVars, first_g, stack, jobVars>>

dispatch_group ==
  /\ pc = "dispatch"
  /\ stack["main"] = <<>>
  /\ \/ /\ i < last_g
        /\ dispatch_locked(i)
        /\ Start("main", AfterDispatchLocked(i))
        /\ i' = i + 1
        /\ UNCHANGED pc
     \/ /\ i >= last_g
        /\ i' = first_g
        /\ pc' = "wait_group"
        /\ UNCHANGED <<actionVars, stack>>
  /\ UNCHANGED <<readers, nci, armed, failed_essential, AbortInProgress,
                 rangeVars, first_g, last_g, jobVars>>

InFlight(a) == dispatched[a] /\ ~done[a]

(***************************************************************************)
(* wait_for_actions scans with check_actions_done, one action at a time; an *)
(* action in flight makes it wait and scan again, after a signal of JobWaitC *)
(* or after a second, whichever comes first.                                *)
(***************************************************************************)
check_actions_done(first, last) ==
  /\ i < last
  /\ i' = IF InFlight(i) THEN first ELSE i + 1
  /\ UNCHANGED <<pc, first_g>>

(* Mutant of wait_for_group: the wait between two groups is left out. *)
wait_for_group_skipped ==
  /\ pc = "wait_group"
  /\ first_g' = last_g
  /\ pc' = "group"
  /\ UNCHANGED <<i, actionVars, readers, nci, armed, failed_essential,
                 AbortInProgress, rangeVars, last_g, stack, jobVars>>

wait_for_group ==
  /\ pc = "wait_group"
  /\ \/ check_actions_done(first_g, last_g)
     \/ /\ i >= last_g
        /\ first_g' = last_g
        /\ pc' = "group"
        /\ UNCHANGED i
  /\ UNCHANGED <<actionVars, readers, nci, armed, failed_essential,
                 AbortInProgress, rangeVars, last_g, stack, jobVars>>

wait_for_all ==
  /\ pc = "wait_all"
  /\ \/ check_actions_done(first_c, last_c)
     \/ /\ i >= last_c
        /\ pc' = "set_abort"
        /\ UNCHANGED <<i, first_g>>
  /\ UNCHANGED <<actionVars, readers, nci, armed, failed_essential,
                 AbortInProgress, rangeVars, last_g, stack, jobVars>>

(* Mutant of setAbortInProgress: the loop that follows starts one too early. *)
setAbortInProgress_early ==
  /\ pc = "set_abort"
  /\ AbortInProgress' = TRUE
  /\ i' = first_c - 1
  /\ pc' = "mark"
  /\ UNCHANGED <<actionVars, readers, nci, armed, failed_essential, rangeVars,
                 first_g, last_g, stack, jobVars>>

setAbortInProgress ==
  /\ pc = "set_abort"
  /\ AbortInProgress' = TRUE
  /\ i' = first_c
  /\ pc' = "mark"
  /\ UNCHANGED <<actionVars, readers, nci, armed, failed_essential, rangeVars,
                 first_g, last_g, stack, jobVars>>

(***************************************************************************)
(* Every conditional action of the phase that is not done cannot happen any *)
(* more.  The wait that follows in the code returns at once.                *)
(***************************************************************************)
mark_cant_happen ==
  /\ pc = "mark"
  /\ \/ /\ i < last_c
        /\ WRLOCK(i)
        /\ IF done[i] THEN UNCHANGED <<status, done, recorded, var>>
                      ELSE action_done_action_locked(i, CANT_HAPPEN)
        /\ i' = i + 1
        /\ UNCHANGED pc
     \/ /\ i >= last_c
        /\ i' = first_c
        /\ pc' = IF noact THEN "idle" ELSE "record_c"
        /\ UNCHANGED <<status, done, recorded, var>>
  /\ UNCHANGED <<dispatched, doing, readers, nci, armed, failed_essential,
                 AbortInProgress, rangeVars, first_g, last_g, stack, jobVars>>

(* Mutant of record_status: the sequential actions are forgotten. *)
record_status_conditional ==
  /\ pc \in {"record_c", "record_s"}
  /\ \/ /\ i < last_c
        /\ WRLOCK(i)
        /\ recorded' = [recorded EXCEPT ![i] = done[i]]
        /\ nci' = [nci EXCEPT ![i] = status[i]]
        /\ i' = i + 1
        /\ UNCHANGED pc
     \/ /\ i >= last_c
        /\ pc' = "idle"
        /\ UNCHANGED <<i, recorded, nci>>
  /\ UNCHANGED <<dispatched, doing, done, status, var, readers, armed, failed_essential,
                 AbortInProgress, rangeVars, first_g, last_g, stack, jobVars>>

(* Mutant of record_status: failed_essential is assigned, not accumulated. *)
record_status_overwrites ==
  /\ pc \in {"record_c", "record_s"}
  /\ LET last == IF pc = "record_c" THEN last_c ELSE last_s IN
     \/ /\ i < last
        /\ WRLOCK(i)
        /\ LET new == done[i] /\ ~recorded[i] IN
           /\ recorded' = [recorded EXCEPT ![i] = @ \/ new]
           /\ nci' = [nci EXCEPT ![i] = IF new THEN status[i] ELSE @]
           /\ failed_essential' = (new /\ ~IS_OK(status[i]) /\ i \in Essential)
        /\ i' = i + 1
        /\ UNCHANGED pc
     \/ /\ i >= last
        /\ i' = first_s
        /\ pc' = IF pc = "record_c" THEN "record_s" ELSE "idle"
        /\ UNCHANGED <<recorded, nci, failed_essential>>
  /\ UNCHANGED <<dispatched, doing, done, status, var, readers, armed,
                 AbortInProgress, rangeVars, first_g, last_g, stack, jobVars>>

(* record_status, first over the conditional, then the sequential actions. *)
record_status ==
  /\ pc \in {"record_c", "record_s"}
  /\ LET last == IF pc = "record_c" THEN last_c ELSE last_s IN
     \/ /\ i < last
        /\ WRLOCK(i)
        /\ LET new == done[i] /\ ~recorded[i] IN
           /\ recorded' = [recorded EXCEPT ![i] = @ \/ new]
           /\ nci' = [nci EXCEPT ![i] = IF new THEN status[i] ELSE @]
           /\ failed_essential' = \/ failed_essential
                                  \/ new /\ ~IS_OK(status[i]) /\ i \in Essential
        /\ i' = i + 1
        /\ UNCHANGED pc
     \/ /\ i >= last
        /\ i' = first_s
        /\ pc' = IF pc = "record_c" THEN "record_s" ELSE "idle"
        /\ UNCHANGED <<recorded, nci, failed_essential>>
  /\ UNCHANGED <<dispatched, doing, done, status, var, readers, armed,
                 AbortInProgress, rangeVars, first_g, last_g, stack, jobVars>>

(* ServerDispatchClose disarms the table between phases. *)
server_dispatch_table_disarm ==
  /\ pc = "idle"
  /\ WRLOCK_TABLE
  /\ armed
  /\ armed' = FALSE
  /\ UNCHANGED <<actionVars, readers, nci, failed_essential, AbortInProgress,
                 pc, i, rangeVars, first_g, last_g, stack, jobVars>>

ServerFailedEssential ==
  /\ pc = "idle"
  /\ WRLOCK_TABLE
  /\ failed_essential
  /\ failed_essential' = FALSE
  /\ UNCHANGED <<actionVars, readers, nci, armed, AbortInProgress,
                 pc, i, rangeVars, first_g, last_g, stack, jobVars>>

LookupStep ==
  \/ \E p \in Phases, s \in Syncs, n \in NoActs : phase_lookup(p, s, n)
  \/ \E n \in NoActs : phase_unknown(n)

InPhaseStep ==
  \/ next_group \/ dispatch_group \/ wait_for_group \/ wait_for_all
  \/ setAbortInProgress \/ mark_cant_happen \/ record_status

MainStep ==
  \/ ServerDispatchPhase
  \/ LookupStep
  \/ InPhaseStep
  \/ server_dispatch_table_disarm
  \/ ServerFailedEssential

Next == MainStep \/ Receive \/ \E t \in Threads : ThreadStep(t)

Spec == Init /\ [][Next]_vars

(***************************************************************************)
(* The threads keep running, and a server to which an action was sent       *)
(* answers sooner or later (or its connection is lost).                     *)
(***************************************************************************)
Fairness ==
  /\ WF_vars(LookupStep \/ InPhaseStep)
  /\ \A t \in Threads : WF_vars(ThreadStep(t))
  /\ WF_vars(\E j \in Actions \X Threads, st \in Replies : job_finished(j, st))

FairSpec == Spec /\ Fairness

-----------------------------------------------------------------------------
(* Properties. *)

(***************************************************************************)
(* The group barrier of /SYNCH (set_group, wait_for_actions): two           *)
(* sequential actions that are in flight at the same time belong to the     *)
(* same phase and to the same group, whatever the receiver, failing         *)
(* connections and conditional actions do meanwhile.                        *)
(***************************************************************************)
GroupBarrier ==
  \A a, b \in Actions \ Conditional :
    InFlight(a) /\ InFlight(b) => /\ phase[a] = phase[b]
                                 /\ Group(a, sync) = Group(b, sync)

Repeated(p) == \E m, n \in 1 .. Len(calls) : m # n /\ calls[m] = p /\ calls[n] = p

(***************************************************************************)
(* Whenever a thread is about to dispatch a conditional action, the second  *)
(* time included when both threads found it undispatched, every action the  *)
(* condition names has reported a completion, and the sequential ones among *)
(* them are not in flight again; only those of a phase that is being        *)
(* dispatched once more may be (the variable is left from the first time).  *)
(* The check (reference_check) and the dispatch are separate steps between  *)
(* which the other thread runs.                                             *)
(***************************************************************************)
DependencyOrder ==
  \A t \in Threads : At(t, "dispatch") =>
    \A d \in Refs(Top(t).idx) :
      /\ var[d] # UNKNOWN_VAR
      /\ d \in Conditional \/ done[d] \/ (phase[d] = curPhase /\ Repeated(curPhase))

(***************************************************************************)
(* When ServerDispatchPhase has returned, every sequential action of the    *)
(* phase is done and, unless /NOACTION was given, its final status is the   *)
(* one record_status stored in the tree; no late callback changes it.       *)
(***************************************************************************)
PhaseReport ==
  pc = "idle" /\ curPhase # 0 =>
    \A a \in InPhase(curPhase) \ Conditional :
      /\ done[a]
      /\ noact \/ (recorded[a] /\ nci[a] = status[a])

(***************************************************************************)
(* ServerFailedEssential tells the truth about the phase that returned: a   *)
(* sequential essential action that failed is reported, and a report means  *)
(* that some essential action of the phase has a failure in the tree.       *)
(***************************************************************************)
EssentialReported ==
  [][pc = "record_s" /\ pc' = "idle" =>
       LET bad == {a \in InPhase(curPhase) \cap Essential : ~IS_OK(nci[a])} IN
       /\ bad \ Conditional # {} => failed_essential
       /\ failed_essential => bad # {}]_vars

(***************************************************************************)
(* A read lock of action_done_action_unlocked is left behind only on an     *)
(* action whose condition names several actions (or is invalid): with one   *)
(* reference, the reference that triggered the check is defined.            *)
(***************************************************************************)
LockLeak ==
  \A c \in Actions : readers[c] > 0 =>
    \/ \E d1, d2 \in Refs(c) : d1 # d2
    \/ when[c] = "invalid"

(***************************************************************************)
(* Every DISPATCH/PHASE returns when no condition leaks a lock and the      *)
(* servers answer or go away, unless a job was forgotten: the client got    *)
(* another connection while the job was in flight, and then its server went *)
(* away, so that only the jobs on the newer connection were called back.    *)
(***************************************************************************)
Forgotten ==
  /\ \A t \in Threads : stack[t] = <<>>
  /\ \E j \in jobs \ Answerable : InFlight(j[1])

PhaseReturns == pc # "idle" ~> (pc = "idle" \/ []Forgotten)

(***************************************************************************)
(* docs/dt_dispatch.md on the WHEN expression: when all the actions it      *)
(* names have completed it is evaluated, and if it holds the action will be *)
(* dispatched.                                                              *)
(***************************************************************************)
DispatchedWhenTrue ==
  \A c \in Conditional :
    (/\ ~dispatched[c] /\ ~done[c]
     /\ \A d \in Refs(c) : done[d] /\ IS_OK(status[d])) ~> dispatched[c]

=============================================================================
