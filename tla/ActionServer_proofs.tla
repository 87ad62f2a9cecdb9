-------------------------- MODULE ActionServer_proofs --------------------------
(***************************************************************************)
(* What holds of an action server for any number of jobs, callers, workers  *)
(* and aborts.                                                              *)
(***************************************************************************)
EXTENDS ActionServer, TLAPS, SequenceTheorems

Serving == {"begin", "run", "log", "logging", "task", "log_done", "logging_done", "finish"}
             \cup ReplyPcs
AbortPcs == {"abort", "abort_end"} \cup ReplyPcs

(* What a thread has at hand where it is. *)
CallerInv ==
  \A c \in Callers :
    /\ pc[c] \in CallerPcs \cup ReplyPcs
    /\ pc[c] \in ReplyPcs =>
         kind[c] = "ABORT" /\ aborting[c] # <<>> /\ job[c] = Head(aborting[c])
    /\ pc[c] = "abort_end" => aborting[c] = <<>>

WorkerInv ==
  \A w \in Workers :
    /\ pc[w] \in WorkerPcs \cup ReplyPcs
    /\ pc[w] \in Serving => job[w] \in Jobs
    /\ pc[w] \in {"new", "start", "next", "wait"} => job[w] = None
    /\ pc[w] \in ReplyPcs =>
         /\ kind[w] \in {"STARTING", "FINISHED", "CHECKEDIN", "MONITOR"}
         /\ kind[w] = "MONITOR" => sending[w] # <<>>
    /\ pc[w] # "new" => Worker # None

ThreadInv == CallerInv /\ WorkerInv /\ (running => Worker # None)

TypeInv == TypeOK /\ ThreadInv

-----------------------------------------------------------------------------
(* Types. *)

LEMMA Constants ==
  /\ Jobs \subseteq Nat /\ None \notin Jobs
  /\ owner \in [Jobs -> Clients]
  /\ Callers \subseteq Threads /\ Workers \subseteq Threads
  /\ Callers \cap Workers = {}
  /\ None \notin Callers /\ None \notin Workers
BY ServerType DEF Jobs, Threads

LEMMA HeadTail ==
  ASSUME NEW S, NEW s \in Seq(S), s # <<>>
  PROVE  Head(s) \in S /\ Tail(s) \in Seq(S)
BY HeadTailProperties

(* The job, the address and the text of a reply on its way. *)
LEMMA SendingReply ==
  ASSUME TypeInv, NEW t \in Threads, pc[t] \in ReplyPcs
  PROVE  /\ job[t] \in Jobs /\ kind[t] \in Kinds /\ addr[job[t]] \in Clients
         /\ t \in Callers => aborting[t] \in Seq(Jobs) /\ aborting[t] # <<>>
<1>1. CASE t \in Callers
  <2>1. /\ aborting[t] \in Seq(Jobs) /\ aborting[t] # <<>>
        /\ job[t] = Head(aborting[t]) /\ kind[t] = "ABORT"
    BY <1>1 DEF TypeInv, TypeOK, ThreadInv, CallerInv
  <2>2. job[t] \in Jobs
    BY <2>1, HeadTail
  <2> QED BY <2>1, <2>2 DEF TypeInv, TypeOK, Kinds
<1>2. CASE t \in Workers
  BY <1>2, Constants DEF TypeInv, TypeOK, ThreadInv, WorkerInv, Kinds, Serving
<1> QED BY <1>1, <1>2 DEF Threads

LEMMA FrontType ==
  ASSUME NEW S, NEW s \in Seq(S), s # <<>>
  PROVE  /\ SubSeq(s, 1, Len(s) - 1) \in Seq(S)
         /\ Len(SubSeq(s, 1, Len(s) - 1)) = Len(s) - 1
         /\ \A i \in 1 .. Len(s) - 1 : SubSeq(s, 1, Len(s) - 1)[i] = s[i]
         /\ Len(s) \in 1 .. Len(s) /\ s[Len(s)] \in S
<1>1. Len(s) \in Nat \ {0}
  BY EmptySeq
<1>2. \A i \in 1 .. Len(s) - 1 : s[i] \in S
  BY <1>1, ElementOfSeq
<1> DEFINE n == Len(s) - 1
<1>3. n \in Int /\ n >= 0 /\ n - 1 + 1 = n
  BY <1>1
<1>4. \A i \in 1 .. n : s[i] \in S
  BY <1>2
<1> HIDE DEF n
<1>5. /\ SubSeq(s, 1, n) \in Seq(S)
      /\ Len(SubSeq(s, 1, n)) = IF 1 <= n THEN n - 1 + 1 ELSE 0
      /\ \A i \in 1 .. n - 1 + 1 : SubSeq(s, 1, n)[i] = s[1 + i - 1]
  BY <1>3, <1>4, SubSeqProperties
<1>6. \A i \in 1 .. n : 1 + i - 1 = i
  BY <1>3
<1>7. Len(s) \in 1 .. Len(s) /\ s[Len(s)] \in S
  BY <1>1, ElementOfSeq
<1> QED BY <1>3, <1>5, <1>6, <1>7 DEF n

(* The abort goes on with the next job. *)
LEMMA next_abortType ==
  ASSUME TypeInv, NEW c \in Callers, NEW rest \in Seq(Jobs), next_abort(c, rest)
  PROVE  /\ pc' \in [Threads -> CallerPcs \cup WorkerPcs \cup ReplyPcs]
         /\ job' \in [Threads -> Jobs \cup {None}]
         /\ kind' \in [Threads -> Kinds \cup {None}]
         /\ aborting' \in [Callers -> Seq(Jobs)]
         /\ CallerInv'
         /\ \A w \in Workers : pc'[w] = pc[w] /\ job'[w] = job[w] /\ kind'[w] = kind[w]
<1>0. rest # <<>> => Head(rest) \in Jobs
  BY HeadTail
<1>1. aborting' \in [Callers -> Seq(Jobs)] /\ aborting'[c] = rest
  BY DEF next_abort, TypeInv, TypeOK
<1>2. /\ pc' \in [Threads -> CallerPcs \cup WorkerPcs \cup ReplyPcs]
      /\ job' \in [Threads -> Jobs \cup {None}]
      /\ kind' \in [Threads -> Kinds \cup {None}]
  <2>1. CASE rest = <<>>
    BY <2>1 DEF next_abort, Goto, TypeInv, TypeOK, CallerPcs
  <2>2. CASE rest # <<>>
    BY <1>0, <2>2 DEF next_abort, StartReply, TypeInv, TypeOK, ReplyPcs, Kinds
  <2> QED BY <2>1, <2>2
<1>3. /\ \A t \in Threads \ {c} : pc'[t] = pc[t] /\ job'[t] = job[t] /\ kind'[t] = kind[t]
      /\ \A d \in Callers \ {c} : aborting'[d] = aborting[d]
  BY DEF next_abort, StartReply, Goto, TypeInv, TypeOK
<1>4. /\ pc'[c] = IF rest = <<>> THEN "abort_end" ELSE "find"
      /\ rest # <<>> => job'[c] = Head(rest) /\ kind'[c] = "ABORT"
  BY Constants DEF next_abort, StartReply, Goto, TypeInv, TypeOK
<1>5. CallerInv'
  BY <1>1, <1>3, <1>4, Constants DEF TypeInv, ThreadInv, CallerInv, CallerPcs, ReplyPcs
<1> QED BY <1>1, <1>2, <1>3, <1>5, Constants

LEMMA find_clientType ==
  ASSUME TypeInv, NEW t \in Threads, find_client(t)
  PROVE  TypeInv'
<1>1. TypeOK'
  <2>1. pc' \in [Threads -> CallerPcs \cup WorkerPcs \cup ReplyPcs]
    BY DEF find_client, Goto, TypeInv, TypeOK, ReplyPcs
  <2>2. clientsMutex' \in Threads \cup {None}
    BY DEF find_client, TypeInv, TypeOK
  <2> QED BY <2>1, <2>2 DEF find_client, TypeInv, TypeOK, workerVars, jobVars, bounds
<1>2. CallerInv'
  BY Constants DEF find_client, TypeInv, TypeOK, ThreadInv, CallerInv, CallerPcs, ReplyPcs, Goto,
    workerVars, jobVars, bounds
<1>3. WorkerInv' /\ (running => Worker # None)'
  BY Constants DEF find_client, TypeInv, TypeOK, ThreadInv, WorkerInv, Serving, WorkerPcs,
    ReplyPcs, Goto, workerVars, jobVars, bounds
<1> QED BY <1>1, <1>2, <1>3 DEF TypeInv, ThreadInv

LEMMA check_socketType ==
  ASSUME TypeInv, NEW t \in Threads, check_socket(t)
  PROVE  TypeInv'
<1>1. TypeOK'
  <2>1. pc' \in [Threads -> CallerPcs \cup WorkerPcs \cup ReplyPcs]
    BY DEF check_socket, Goto, TypeInv, TypeOK, ReplyPcs
  <2>2. clientsMutex' \in Threads \cup {None} /\ connected' \subseteq Clients
    BY DEF check_socket, TypeInv, TypeOK
  <2> QED BY <2>1, <2>2 DEF check_socket, TypeInv, TypeOK, workerVars, jobVars, bounds
<1>2. CallerInv'
  BY Constants DEF check_socket, TypeInv, TypeOK, ThreadInv, CallerInv, CallerPcs, ReplyPcs,
    Goto, workerVars, jobVars, bounds
<1>3. WorkerInv' /\ (running => Worker # None)'
  BY Constants DEF check_socket, TypeInv, TypeOK, ThreadInv, WorkerInv, Serving, WorkerPcs,
    ReplyPcs, Goto, workerVars, jobVars, bounds
<1> QED BY <1>1, <1>2, <1>3 DEF TypeInv, ThreadInv

LEMMA open_socketType ==
  ASSUME TypeInv, NEW t \in Threads, open_socket(t)
  PROVE  TypeInv'
<1>1. TypeOK'
  <2>1. pc' \in [Threads -> CallerPcs \cup WorkerPcs \cup ReplyPcs]
    BY DEF open_socket, Goto, TypeInv, TypeOK, ReplyPcs
  <2>2. connected' \subseteq Clients
    BY SendingReply DEF open_socket, TypeInv, TypeOK, ReplyPcs
  <2> QED BY <2>1, <2>2 DEF open_socket, TypeInv, TypeOK, locks, workerVars, jobVars, bounds
<1>2. CallerInv'
  BY Constants DEF open_socket, TypeInv, TypeOK, ThreadInv, CallerInv, CallerPcs, ReplyPcs, Goto,
    workerVars, jobVars, bounds, locks
<1>3. WorkerInv' /\ (running => Worker # None)'
  BY Constants DEF open_socket, TypeInv, TypeOK, ThreadInv, WorkerInv, Serving, WorkerPcs,
    ReplyPcs, Goto, workerVars, jobVars, bounds, locks
<1> QED BY <1>1, <1>2, <1>3 DEF TypeInv, ThreadInv

LEMMA send_allType ==
  ASSUME TypeInv, NEW t \in Threads, send_all(t)
  PROVE  TypeInv'
<1>1. TypeOK'
  <2>1. pc' \in [Threads -> CallerPcs \cup WorkerPcs \cup ReplyPcs]
    BY DEF send_all, Goto, TypeInv, TypeOK, ReplyPcs
  <2>2. job[t] \in Jobs /\ kind[t] \in Kinds /\ addr[job[t]] \in Clients
    BY SendingReply DEF send_all, TypeInv, TypeOK, ReplyPcs
  <2>3. Append(replies[job[t]], <<kind[t], addr[job[t]]>>) \in Seq(Kinds \X Clients)
    BY <2>2, AppendProperties DEF TypeInv, TypeOK
  <2>4. replies' \in [Jobs -> Seq(Kinds \X Clients)] /\ connected' \subseteq Clients
    BY <2>2, <2>3 DEF send_all, TypeInv, TypeOK
  <2> QED BY <2>1, <2>4 DEF send_all, TypeInv, TypeOK, locks, workerVars, bounds
<1>2. CallerInv'
  BY Constants DEF send_all, TypeInv, TypeOK, ThreadInv, CallerInv, CallerPcs, ReplyPcs, Goto,
    workerVars, jobVars, bounds, locks, Kinds
<1>3. WorkerInv' /\ (running => Worker # None)'
  BY Constants DEF send_all, TypeInv, TypeOK, ThreadInv, WorkerInv, Serving, WorkerPcs, ReplyPcs,
    Goto, workerVars, jobVars, bounds, locks, Kinds
<1> QED BY <1>1, <1>2, <1>3 DEF TypeInv, ThreadInv

LEMMA SendToMonitorType ==
  ASSUME TypeInv, NEW t \in Threads, pc[t] \in ReplyPcs, NEW ok, SendToMonitor(t, ok),
         connected' \subseteq Clients,
         UNCHANGED <<queue, CurrentJob, Logging, locks, workerVars, flush, replies, bounds>>
  PROVE  TypeInv'
<1>1. t \in Workers /\ t \notin Callers /\ sending[t] \in Seq(Clients) /\ sending[t] # <<>>
  BY Constants DEF SendToMonitor, TypeInv, TypeOK, ThreadInv, CallerInv, WorkerInv, Threads
<1>2. Tail(sending[t]) \in Seq(Clients) /\ job[t] \in Jobs
  BY <1>1, HeadTail, SendingReply
<1>3. Monitors' \in Seq(Clients) /\ sending' \in [Workers -> Seq(Clients)]
  BY <1>2 DEF SendToMonitor, next_monitor, TypeInv, TypeOK
<1>4. addr' \in [Jobs -> Clients]
  <2>1. Tail(sending[t]) # <<>> => Head(Tail(sending[t])) \in Clients
    BY <1>2, HeadTail
  <2>2. owner[job[t]] \in Clients
    BY <1>2, Constants
  <2> QED BY <1>2, <2>1, <2>2 DEF SendToMonitor, next_monitor, TypeInv, TypeOK
<1>5. /\ pc' \in [Threads -> CallerPcs \cup WorkerPcs \cup ReplyPcs]
      /\ kind' \in [Threads -> Kinds \cup {None}]
  BY DEF SendToMonitor, next_monitor, Goto, TypeInv, TypeOK, ReplyPcs, Kinds
<1>6. /\ pc'[t] = "find" /\ sending'[t] = Tail(sending[t])
      /\ kind'[t] = IF sending'[t] = <<>> THEN "FINISHED" ELSE "MONITOR"
      /\ \A u \in Threads \ {t} : pc'[u] = pc[u] /\ kind'[u] = kind[u]
      /\ \A w \in Workers \ {t} : sending'[w] = sending[w]
      /\ UNCHANGED <<job, aborting, Worker, running, fate>>
  BY <1>1 DEF SendToMonitor, next_monitor, Goto, TypeInv, TypeOK, workerVars
<1>7. TypeOK'
  BY <1>3, <1>4, <1>5, <1>6 DEF TypeInv, TypeOK, locks, workerVars, bounds
<1>8. CallerInv'
  BY <1>1, <1>6, Constants DEF TypeInv, ThreadInv, CallerInv
<1>9. WorkerInv'
  <2> SUFFICES ASSUME NEW w \in Workers
               PROVE  WorkerInv!(w)'
    BY DEF WorkerInv
  <2>1. CASE w = t
    BY <1>1, <1>2, <1>6, <2>1 DEF TypeInv, ThreadInv, WorkerInv, ReplyPcs
  <2>2. CASE w # t
    BY <1>6, <2>2, Constants DEF TypeInv, ThreadInv, WorkerInv
  <2> QED BY <2>1, <2>2
<1> QED BY <1>6, <1>7, <1>8, <1>9 DEF TypeInv, ThreadInv

LEMMA AbortJobType ==
  ASSUME TypeInv, NEW t \in Threads, pc[t] \in ReplyPcs, AbortJob(t),
         connected' \subseteq Clients,
         UNCHANGED <<queue, CurrentJob, Logging, locks, workerVars, flush, replies, bounds>>
  PROVE  TypeInv'
<1>1. t \in Callers /\ job[t] \in Jobs
  BY SendingReply DEF AbortJob, TypeInv, ThreadInv, WorkerInv, Threads
<1>2. Tail(aborting[t]) \in Seq(Jobs) /\ next_abort(t, Tail(aborting[t]))
  BY <1>1, SendingReply, HeadTail DEF AbortJob
<1>3. TypeOK'
  BY <1>1, <1>2, next_abortType DEF AbortJob, TypeInv, TypeOK, locks, workerVars, bounds
<1>4. WorkerInv'
  BY <1>1, <1>2, next_abortType DEF AbortJob, TypeInv, ThreadInv, WorkerInv, workerVars
<1> QED BY <1>1, <1>2, <1>3, <1>4, next_abortType DEF TypeInv, ThreadInv, workerVars

LEMMA reply_returnsType ==
  ASSUME TypeInv, NEW t \in Threads, pc[t] \in ReplyPcs, NEW ok, reply_returns(t, ok),
         connected' \subseteq Clients,
         UNCHANGED <<queue, CurrentJob, Logging, locks, workerVars, flush, replies, bounds>>
  PROVE  TypeInv'
<1>1. ASSUME kind[t] \in {"STARTING", "FINISHED", "CHECKEDIN"},
             Goto(t, IF kind[t] = "STARTING" THEN "run" ELSE "finish"),
             UNCHANGED <<Monitors, job, kind, aborting, sending, addr, fate>>
      PROVE  TypeInv'
  <2>1. TypeOK'
    BY <1>1 DEF Goto, TypeInv, TypeOK, locks, workerVars, bounds, WorkerPcs
  <2>2. t \in Workers
    BY <1>1 DEF TypeInv, ThreadInv, CallerInv, Threads
  <2>3. CallerInv'
    BY <1>1, <2>2, Constants DEF Goto, TypeInv, TypeOK, ThreadInv, CallerInv
  <2>4. WorkerInv'
    BY <1>1, <2>2, SendingReply, Constants
    DEF Goto, TypeInv, TypeOK, ThreadInv, WorkerInv, WorkerPcs, Serving, ReplyPcs, workerVars
  <2> QED BY <2>1, <2>3, <2>4 DEF TypeInv, ThreadInv, workerVars
<1> QED BY <1>1, SendToMonitorType, AbortJobType DEF reply_returns

LEMMA reply_sentType ==
  ASSUME TypeInv, NEW t \in Threads, reply_sent(t)
  PROVE  TypeInv'
<1>1. CASE reply_returns(t, TRUE)
  BY <1>1, reply_returnsType DEF reply_sent, ReplyPcs, TypeInv, TypeOK
<1>2. CASE Goto(t, "cleanup") /\ UNCHANGED <<Monitors, job, kind, aborting, sending, addr, fate>>
  <2>1. TypeOK'
    BY <1>2 DEF reply_sent, Goto, TypeInv, TypeOK, locks, workerVars, bounds, ReplyPcs
  <2>2. CallerInv' /\ WorkerInv'
    BY <1>2, Constants DEF reply_sent, Goto, TypeInv, TypeOK, ThreadInv, CallerInv, WorkerInv, Serving,
      ReplyPcs, workerVars
  <2> QED BY <2>1, <2>2 DEF TypeInv, ThreadInv, reply_sent, workerVars
<1> QED BY <1>1, <1>2 DEF reply_sent

LEMMA cleanup_clientType ==
  ASSUME TypeInv, NEW t \in Threads, cleanup_client(t)
  PROVE  TypeInv'
BY reply_returnsType DEF cleanup_client, ReplyPcs, TypeInv, TypeOK

LEMMA QJobType ==
  ASSUME TypeInv, NEW c \in Callers, QJob(c)
  PROVE  TypeInv'
<1>1. TypeOK'
  <2>1. pc' \in [Threads -> CallerPcs \cup WorkerPcs \cup ReplyPcs]
    BY Constants DEF QJob, Goto, TypeInv, TypeOK, CallerPcs, WorkerPcs
  <2>2. nextid \in Jobs /\ nextid' \in 1 .. MaxJobs + 1
    BY ServerType DEF QJob, TypeInv, TypeOK, Jobs
  <2>3. queue' \in Seq(Jobs) /\ fate' \in [Jobs -> {"unborn", "live", "freed", "removed"}]
    BY <2>2, AppendProperties DEF QJob, TypeInv, TypeOK
  <2> QED BY <2>1, <2>2, <2>3 DEF QJob, LockQueue, TypeInv, TypeOK, workerVars
<1>2. CallerInv'
  BY Constants DEF QJob, TypeInv, TypeOK, ThreadInv, CallerInv, CallerPcs, ReplyPcs, Goto,
    LockQueue, workerVars, WorkerPcs
<1>3. WorkerInv' /\ (running => Worker # None)'
  BY Constants DEF QJob, TypeInv, TypeOK, ThreadInv, WorkerInv, Serving, WorkerPcs, ReplyPcs,
    Goto, LockQueue, workerVars, CallerPcs
<1> QED BY <1>1, <1>2, <1>3 DEF TypeInv, ThreadInv

LEMMA UnlockQueueType ==
  ASSUME TypeInv, NEW c \in Callers, UnlockQueue(c)
  PROVE  TypeInv'
<1>1. TypeOK'
  BY Constants DEF UnlockQueue, TypeInv, TypeOK, Goto, workerVars, jobVars, bounds, CallerPcs,
    WorkerPcs
<1>2. CallerInv'
  BY Constants DEF UnlockQueue, TypeInv, TypeOK, ThreadInv, CallerInv, CallerPcs, ReplyPcs, Goto,
    workerVars, jobVars, bounds, WorkerPcs
<1>3. WorkerInv' /\ (running => Worker # None)'
  BY Constants DEF UnlockQueue, TypeInv, TypeOK, ThreadInv, WorkerInv, Serving, WorkerPcs,
    ReplyPcs, Goto, workerVars, jobVars, bounds, CallerPcs
<1> QED BY <1>1, <1>2, <1>3 DEF TypeInv, ThreadInv

LEMMA StartWorkerType ==
  ASSUME TypeInv, NEW c \in Callers, StartWorker(c)
  PROVE  TypeInv'
<1>1. CASE running
  <2>1. TypeOK'
    BY <1>1, Constants DEF StartWorker, Goto, TypeInv, TypeOK, locks, jobVars, bounds, workerVars, CallerPcs
  <2>2. CallerInv' /\ WorkerInv' /\ (running => Worker # None)'
    BY <1>1, Constants DEF StartWorker, Goto, TypeInv, TypeOK, ThreadInv, CallerInv, WorkerInv,
      workerVars, CallerPcs, WorkerPcs, ReplyPcs
  <2> QED BY <2>1, <2>2 DEF TypeInv, ThreadInv
<1>2. CASE ~running
  <2>1. PICK w \in Workers :
          /\ pc[w] = "new"
          /\ pc' = [pc EXCEPT ![c] = "wait_set", ![w] = "start"]
          /\ Worker' = w
    BY <1>2 DEF StartWorker
  <2>2. /\ c \in Threads /\ w \in Threads /\ c # w /\ w # None
        /\ pc'[c] = "wait_set" /\ pc'[w] = "start"
        /\ \A t \in Threads \ {c, w} : pc'[t] = pc[t]
    BY <2>1, Constants DEF TypeInv, TypeOK
  <2>3. TypeOK'
    <3>1. pc' \in [Threads -> CallerPcs \cup WorkerPcs \cup ReplyPcs]
      BY <2>1 DEF TypeInv, TypeOK, CallerPcs, WorkerPcs
    <3> QED BY <1>2, <2>1, <3>1 DEF StartWorker, TypeInv, TypeOK, locks, jobVars, bounds
  <2>4. UNCHANGED <<job, kind, aborting, sending, running>>
    BY <1>2 DEF StartWorker
  <2>5. CallerInv'
    BY <2>2, <2>4, Constants DEF TypeInv, ThreadInv, CallerInv, CallerPcs, ReplyPcs
  <2>6. WorkerInv' /\ (running => Worker # None)'
    <3> SUFFICES ASSUME NEW u \in Workers
                 PROVE  WorkerInv!(u)'
      BY <2>1, <2>2 DEF WorkerInv
    <3>1. CASE u = w
      BY <2>1, <2>2, <2>4, <3>1 DEF TypeInv, ThreadInv, WorkerInv, WorkerPcs, ReplyPcs, Serving
    <3>2. CASE u # w
      BY <2>1, <2>2, <2>4, <3>2, Constants DEF TypeInv, ThreadInv, WorkerInv
    <3> QED BY <3>1, <3>2
  <2> QED BY <2>3, <2>5, <2>6 DEF TypeInv, ThreadInv
<1> QED BY <1>1, <1>2

LEMMA CONDITION_WAITType ==
  ASSUME TypeInv, NEW c \in Callers, CONDITION_WAIT(c)
  PROVE  TypeInv'
<1>1. TypeOK'
  <2>1. pc' \in [Threads -> CallerPcs \cup WorkerPcs \cup ReplyPcs] /\ asleep' \subseteq Callers
    BY DEF CONDITION_WAIT, Goto, TypeInv, TypeOK, CallerPcs
  <2> QED BY <2>1 DEF CONDITION_WAIT, TypeInv, TypeOK, locks, jobVars, bounds
<1>2. CallerInv'
  BY Constants DEF CONDITION_WAIT, TypeInv, TypeOK, ThreadInv, CallerInv, CallerPcs, ReplyPcs,
    Goto, locks, jobVars, bounds, WorkerPcs
<1>3. WorkerInv' /\ (running => Worker # None)'
  <2>1. /\ \A w \in Workers : pc'[w] = pc[w]
        /\ UNCHANGED <<job, kind, sending, Worker, running>>
    BY Constants DEF CONDITION_WAIT, Goto, TypeInv, TypeOK
  <2> QED BY <2>1 DEF TypeInv, ThreadInv, WorkerInv
<1> QED BY <1>1, <1>2, <1>3 DEF TypeInv, ThreadInv

LEMMA SrvAbortType ==
  ASSUME TypeInv, NEW c \in Callers, NEW p1 \in BOOLEAN, SrvAbort(c, p1)
  PROVE  TypeInv'
<1>1. TypeOK'
  <2>1. pc' \in [Threads -> CallerPcs \cup WorkerPcs \cup ReplyPcs]
    BY DEF SrvAbort, KillWorker, Goto, TypeInv, TypeOK, CallerPcs
  <2>2. cancel' \subseteq Workers /\ asleep' \subseteq Callers
    BY DEF SrvAbort, KillWorker, TypeInv, TypeOK, ThreadInv
  <2>3. flush' \in [Callers -> BOOLEAN] /\ aborts' \in 0 .. MaxAborts
    BY ServerType DEF SrvAbort, TypeInv, TypeOK
  <2> QED BY <2>1, <2>2, <2>3 DEF SrvAbort, TypeInv, TypeOK, locks, jobVars
<1>2. CallerInv' /\ WorkerInv'
  BY Constants DEF SrvAbort, KillWorker, Goto, TypeInv, TypeOK, ThreadInv, CallerInv, WorkerInv,
    CallerPcs, ReplyPcs
<1> QED BY <1>1, <1>2 DEF TypeInv, ThreadInv, SrvAbort

LEMMA SrvAbort_lockedType ==
  ASSUME TypeInv, NEW c \in Callers, SrvAbort_locked(c)
  PROVE  TypeInv'
<1> DEFINE rest == (IF CurrentJob = None THEN <<>> ELSE <<CurrentJob>>)
                   \o (IF flush[c] THEN queue ELSE <<>>)
<1>1. rest \in Seq(Jobs) /\ next_abort(c, rest)
  <2>1. /\ (IF CurrentJob = None THEN <<>> ELSE <<CurrentJob>>) \in Seq(Jobs)
        /\ (IF flush[c] THEN queue ELSE <<>>) \in Seq(Jobs)
    BY EmptySeq DEF TypeInv, TypeOK
  <2> QED BY <2>1, ConcatProperties DEF SrvAbort_locked
<1> HIDE DEF rest
<1>2. TypeOK'
  BY <1>1, next_abortType DEF SrvAbort_locked, LockQueue, TypeInv, TypeOK, workerVars, jobVars, bounds
<1>3. WorkerInv' /\ (running => Worker # None)'
  BY <1>1, next_abortType DEF SrvAbort_locked, TypeInv, ThreadInv, WorkerInv, workerVars
<1> QED BY <1>1, <1>2, <1>3, next_abortType DEF TypeInv, ThreadInv

LEMMA SrvAbort_unlockType ==
  ASSUME TypeInv, NEW c \in Callers, SrvAbort_unlock(c)
  PROVE  TypeInv'
<1>1. TypeOK'
  <2>1. pc' \in [Threads -> CallerPcs \cup WorkerPcs \cup ReplyPcs]
    BY DEF SrvAbort_unlock, Goto, TypeInv, TypeOK, CallerPcs
  <2>2. queue' \in Seq(Jobs) /\ CurrentJob' \in Jobs \cup {None}
    BY EmptySeq DEF SrvAbort_unlock, TypeInv, TypeOK
  <2> QED BY <2>1, <2>2 DEF SrvAbort_unlock, TypeInv, TypeOK, workerVars, jobVars, bounds
<1>2. CallerInv'
  BY Constants DEF SrvAbort_unlock, TypeInv, TypeOK, ThreadInv, CallerInv, CallerPcs, ReplyPcs,
    Goto, workerVars, jobVars, bounds, WorkerPcs
<1>3. WorkerInv' /\ (running => Worker # None)'
  BY Constants DEF SrvAbort_unlock, TypeInv, TypeOK, ThreadInv, WorkerInv, Serving, WorkerPcs,
    ReplyPcs, Goto, workerVars, jobVars, bounds, CallerPcs
<1> QED BY <1>1, <1>2, <1>3 DEF TypeInv, ThreadInv

LEMMA RemoveLastType ==
  ASSUME TypeInv, NEW c \in Callers, RemoveLast(c)
  PROVE  TypeInv'
<1>1. TypeOK'
  <2>1. pc' \in [Threads -> CallerPcs \cup WorkerPcs \cup ReplyPcs]
    BY DEF RemoveLast, Goto, TypeInv, TypeOK, CallerPcs
  <2>2. queue' \in Seq(Jobs)
    BY FrontType DEF RemoveLast, TypeInv, TypeOK
  <2>3. fate' \in [Jobs -> {"unborn", "live", "freed", "removed"}]
    BY DEF RemoveLast, TypeInv, TypeOK
  <2>4. {Logging, QueueLocked, running}' \subseteq BOOLEAN /\ queueMutex' \in Callers \cup {None}
    BY DEF RemoveLast, LockQueue, workerVars, TypeInv, TypeOK
  <2>5. UNCHANGED <<CurrentJob, connected, Monitors, Worker, asleep, staticLock, clientsMutex, cancel,
                    job, kind, aborting, sending, flush, addr, replies, bounds>>
    BY DEF RemoveLast, LockQueue, workerVars
  <2> QED BY <2>1, <2>2, <2>3, <2>4, <2>5 DEF TypeInv, TypeOK, bounds
<1>2. CallerInv'
  BY Constants DEF RemoveLast, TypeInv, TypeOK, ThreadInv, CallerInv, CallerPcs, ReplyPcs, Goto,
    LockQueue, workerVars, WorkerPcs
<1>3. WorkerInv' /\ (running => Worker # None)'
  BY Constants DEF RemoveLast, TypeInv, TypeOK, ThreadInv, WorkerInv, Serving, WorkerPcs,
    ReplyPcs, Goto, LockQueue, workerVars, CallerPcs
<1> QED BY <1>1, <1>2, <1>3 DEF TypeInv, ThreadInv

LEMMA SrvSetLoggingType ==
  ASSUME TypeInv, NEW c \in Callers, SrvSetLogging(c)
  PROVE  TypeInv'
<1>1. TypeOK'
  BY Constants DEF SrvSetLogging, TypeInv, TypeOK, locks, workerVars, threadVars, jobVars, bounds
<1>2. CallerInv'
  BY Constants DEF SrvSetLogging, TypeInv, TypeOK, ThreadInv, CallerInv, CallerPcs, ReplyPcs,
    locks, workerVars, threadVars, jobVars, bounds
<1>3. WorkerInv' /\ (running => Worker # None)'
  BY Constants DEF SrvSetLogging, TypeInv, TypeOK, ThreadInv, WorkerInv, Serving, WorkerPcs,
    ReplyPcs, locks, workerVars, threadVars, jobVars, bounds
<1> QED BY <1>1, <1>2, <1>3 DEF TypeInv, ThreadInv

LEMMA worker_startType ==
  ASSUME TypeInv, NEW w \in Workers, worker_start(w)
  PROVE  TypeInv'
<1>1. TypeOK'
  BY Constants DEF worker_start, TypeInv, TypeOK, Goto, CONDITION_SET_TO, locks, jobVars, bounds,
    WorkerPcs
<1>2. CallerInv'
  BY Constants DEF worker_start, TypeInv, TypeOK, ThreadInv, CallerInv, CallerPcs, ReplyPcs,
    Goto, CONDITION_SET_TO, locks, jobVars, bounds, WorkerPcs
<1>3. WorkerInv' /\ (running => Worker # None)'
  BY Constants DEF worker_start, TypeInv, TypeOK, ThreadInv, WorkerInv, Serving, WorkerPcs,
    ReplyPcs, Goto, CONDITION_SET_TO, locks, jobVars, bounds
<1> QED BY <1>1, <1>2, <1>3 DEF TypeInv, ThreadInv

LEMMA NextJobType ==
  ASSUME TypeInv, NEW w \in Workers, NextJob(w)
  PROVE  TypeInv'
<1>1. TypeOK'
  <2>1. pc' \in [Threads -> CallerPcs \cup WorkerPcs \cup ReplyPcs]
    BY DEF NextJob, Goto, TypeInv, TypeOK, WorkerPcs
  <2>2. queue' \in Seq(Jobs) /\ job' \in [Threads -> Jobs \cup {None}]
    <3>1. queue # <<>> => Head(queue) \in Jobs /\ Tail(queue) \in Seq(Jobs)
      BY HeadTail DEF TypeInv, TypeOK
    <3> QED BY <3>1 DEF NextJob, TypeInv, TypeOK
  <2>3. QueueLocked' \in BOOLEAN
    BY DEF NextJob
  <2> QED BY <2>1, <2>2, <2>3 DEF NextJob, TypeInv, TypeOK, workerVars, jobVars, bounds
<1>2. CallerInv'
  BY Constants DEF NextJob, TypeInv, TypeOK, ThreadInv, CallerInv, CallerPcs, ReplyPcs, Goto,
    QUEUE_LOCK, workerVars, jobVars, bounds, WorkerPcs
<1>3. WorkerInv' /\ (running => Worker # None)'
  BY Constants DEF NextJob, TypeInv, TypeOK, ThreadInv, WorkerInv, Serving, WorkerPcs, ReplyPcs,
    Goto, QUEUE_LOCK, workerVars, jobVars, bounds
<1> QED BY <1>1, <1>2, <1>3 DEF TypeInv, ThreadInv

LEMMA SetCurrentJobType ==
  ASSUME TypeInv, NEW w \in Workers, SetCurrentJob(w)
  PROVE  TypeInv'
<1>1. TypeOK'
  BY Constants DEF SetCurrentJob, TypeInv, TypeOK, Goto, QueueSection, StartReply, workerVars,
    jobVars, bounds, WorkerPcs, ReplyPcs, Kinds
<1>2. CallerInv'
  BY Constants DEF SetCurrentJob, TypeInv, TypeOK, ThreadInv, CallerInv, CallerPcs, ReplyPcs,
    Goto, QueueSection, StartReply, workerVars, jobVars, bounds, WorkerPcs, Kinds
<1>3. WorkerInv' /\ (running => Worker # None)'
  <2>1. /\ pc'[w] \in {"run", "find"}
        /\ pc'[w] = "find" => kind'[w] = "STARTING"
        /\ \A u \in Workers \ {w} : pc'[u] = pc[u] /\ kind'[u] = kind[u]
        /\ UNCHANGED <<job, sending, Worker, running>>
    BY Constants DEF SetCurrentJob, StartReply, Goto, TypeInv, TypeOK, workerVars
  <2>2. job[w] \in Jobs /\ pc[w] = "begin"
    BY DEF SetCurrentJob, TypeInv, ThreadInv, WorkerInv, Serving
  <2> QED BY <2>1, <2>2 DEF TypeInv, ThreadInv, WorkerInv, WorkerPcs, ReplyPcs, Serving
<1> QED BY <1>1, <1>2, <1>3 DEF TypeInv, ThreadInv

LEMMA worker_runType ==
  ASSUME TypeInv, NEW w \in Workers, worker_run(w)
  PROVE  TypeInv'
<1>1. w \in Threads /\ w \notin Callers /\ job[w] \in Jobs /\ pc[w] = "run"
  BY Constants DEF worker_run, TypeInv, ThreadInv, WorkerInv, Serving
<1>2. /\ Monitors' \in Seq(Clients) /\ addr' \in [Jobs -> Clients]
      /\ sending' \in [Workers -> Seq(Clients)]
  <2>1. CASE DoSrvAction(w) \/ DoSrvCommand(w)
    BY <2>1 DEF DoSrvAction, DoSrvCommand, TypeInv, TypeOK
  <2>2. CASE AddMonitorClient(w)
    <3>1. <<addr[job[w]]>> \in Seq(Clients)
      BY <1>1 DEF TypeInv, TypeOK
    <3> QED BY <2>2, <3>1, ConcatProperties DEF AddMonitorClient, TypeInv, TypeOK
  <2>3. CASE SendToMonitors(w)
    <3>1. Monitors # <<>> => Head(Monitors) \in Clients
      BY HeadTail DEF TypeInv, TypeOK
    <3>2. addr' \in [Jobs -> Clients]
      <4>1. owner[job[w]] \in Clients
        BY <1>1, Constants
      <4> QED BY <2>3, <3>1, <4>1 DEF SendToMonitors, next_monitor, TypeInv, TypeOK
    <3> QED BY <2>3, <3>2 DEF SendToMonitors, next_monitor, TypeInv, TypeOK
  <2> QED BY <2>1, <2>2, <2>3 DEF worker_run
<1>3. /\ pc'[w] \in {"find", "log", "task"}
      /\ pc' = [pc EXCEPT ![w] = pc'[w]]
      /\ pc'[w] = "find" => kind'[w] \in {"FINISHED", "CHECKEDIN", "MONITOR"}
      /\ kind' = [kind EXCEPT ![w] = kind'[w]]
      /\ kind'[w] \in Kinds \cup {None}
  BY <1>1 DEF worker_run, DoSrvAction, DoSrvCommand, AddMonitorClient, SendToMonitors, next_monitor,
    StartReply, Goto, TypeInv, TypeOK, Kinds
<1>4. /\ pc'[w] = "find" /\ kind'[w] = "MONITOR" => sending'[w] # <<>>
      /\ \A u \in Workers \ {w} : sending'[u] = sending[u]
  BY <1>1 DEF worker_run, DoSrvAction, DoSrvCommand, AddMonitorClient, SendToMonitors, next_monitor,
    StartReply, Goto, TypeInv, TypeOK
<1>5. TypeOK'
  <2>1. pc' \in [Threads -> CallerPcs \cup WorkerPcs \cup ReplyPcs]
    BY <1>1, <1>3 DEF TypeInv, TypeOK, WorkerPcs, ReplyPcs
  <2>2. kind' \in [Threads -> Kinds \cup {None}]
    BY <1>1, <1>3 DEF TypeInv, TypeOK
  <2> QED BY <1>2, <2>1, <2>2 DEF worker_run, TypeInv, TypeOK, locks, workerVars, bounds
<1>6. /\ \A t \in Threads \ {w} : pc'[t] = pc[t] /\ kind'[t] = kind[t]
      /\ UNCHANGED <<job, aborting, Worker, running>>
  BY <1>1, <1>3 DEF worker_run, workerVars, TypeInv, TypeOK
<1>7. CallerInv'
  BY <1>1, <1>6, Constants DEF TypeInv, ThreadInv, CallerInv
<1>8. WorkerInv'
  BY <1>1, <1>3, <1>4, <1>6, Constants DEF TypeInv, ThreadInv, WorkerInv, WorkerPcs, ReplyPcs, Serving
<1> QED BY <1>5, <1>6, <1>7, <1>8 DEF TypeInv, ThreadInv

LEMMA log_lineType ==
  ASSUME TypeInv, NEW w \in Workers, log_line(w)
  PROVE  TypeInv'
<1>1. TypeOK'
  BY Constants DEF log_line, TypeInv, TypeOK, Goto, workerVars, jobVars, bounds, WorkerPcs
<1>2. CallerInv'
  BY Constants DEF log_line, TypeInv, TypeOK, ThreadInv, CallerInv, CallerPcs, ReplyPcs, Goto,
    workerVars, jobVars, bounds, WorkerPcs
<1>3. WorkerInv' /\ (running => Worker # None)'
  BY Constants DEF log_line, TypeInv, TypeOK, ThreadInv, WorkerInv, Serving, WorkerPcs, ReplyPcs,
    Goto, workerVars, jobVars, bounds
<1> QED BY <1>1, <1>2, <1>3 DEF TypeInv, ThreadInv

LEMMA log_writtenType ==
  ASSUME TypeInv, NEW w \in Workers, log_written(w)
  PROVE  TypeInv'
<1>1. TypeOK'
  BY Constants DEF log_written, TypeInv, TypeOK, Goto, StartReply, workerVars, jobVars, bounds,
    WorkerPcs, ReplyPcs, Kinds
<1>2. CallerInv'
  BY Constants DEF log_written, TypeInv, TypeOK, ThreadInv, CallerInv, CallerPcs, ReplyPcs, Goto,
    StartReply, workerVars, jobVars, bounds, WorkerPcs, Kinds
<1>3. WorkerInv' /\ (running => Worker # None)'
  BY Constants DEF log_written, TypeInv, TypeOK, ThreadInv, WorkerInv, Serving, WorkerPcs,
    ReplyPcs, Goto, StartReply, workerVars, jobVars, bounds, Kinds
<1> QED BY <1>1, <1>2, <1>3 DEF TypeInv, ThreadInv

LEMMA task_doneType ==
  ASSUME TypeInv, NEW w \in Workers, task_done(w)
  PROVE  TypeInv'
<1>1. TypeOK'
  BY Constants DEF task_done, TypeInv, TypeOK, Goto, StartReply, locks, workerVars, jobVars,
    bounds, WorkerPcs, ReplyPcs, Kinds
<1>2. CallerInv'
  BY Constants DEF task_done, TypeInv, TypeOK, ThreadInv, CallerInv, CallerPcs, ReplyPcs, Goto,
    StartReply, locks, workerVars, jobVars, bounds, WorkerPcs, Kinds
<1>3. WorkerInv' /\ (running => Worker # None)'
  BY Constants DEF task_done, TypeInv, TypeOK, ThreadInv, WorkerInv, Serving, WorkerPcs,
    ReplyPcs, Goto, StartReply, locks, workerVars, jobVars, bounds, Kinds
<1> QED BY <1>1, <1>2, <1>3 DEF TypeInv, ThreadInv

LEMMA worker_finishType ==
  ASSUME TypeInv, NEW w \in Workers, worker_finish(w)
  PROVE  TypeInv'
<1>1. TypeOK'
  BY Constants DEF worker_finish, TypeInv, TypeOK, Goto, QueueSection, workerVars, bounds,
    WorkerPcs
<1>2. CallerInv'
  BY Constants DEF worker_finish, TypeInv, TypeOK, ThreadInv, CallerInv, CallerPcs, ReplyPcs,
    Goto, QueueSection, workerVars, bounds, WorkerPcs
<1>3. WorkerInv' /\ (running => Worker # None)'
  BY Constants DEF worker_finish, TypeInv, TypeOK, ThreadInv, WorkerInv, Serving, WorkerPcs,
    ReplyPcs, Goto, QueueSection, workerVars, bounds
<1> QED BY <1>1, <1>2, <1>3 DEF TypeInv, ThreadInv

LEMMA cancelledType ==
  ASSUME TypeInv, NEW w \in Workers, cancelled(w)
  PROVE  TypeInv'
<1>1. TypeOK'
  BY Constants DEF cancelled, TypeInv, TypeOK, Goto, QUEUE_LOCK, workerVars, jobVars, bounds,
    WorkerPcs
<1>2. CallerInv'
  BY Constants DEF cancelled, TypeInv, TypeOK, ThreadInv, CallerInv, CallerPcs, ReplyPcs, Goto,
    QUEUE_LOCK, workerVars, jobVars, bounds, WorkerPcs
<1>3. WorkerInv' /\ (running => Worker # None)'
  BY Constants DEF cancelled, TypeInv, TypeOK, ThreadInv, WorkerInv, Serving, WorkerPcs,
    ReplyPcs, Goto, QUEUE_LOCK, workerVars, jobVars, bounds
<1> QED BY <1>1, <1>2, <1>3 DEF TypeInv, ThreadInv

LEMMA WorkerExitType ==
  ASSUME TypeInv, NEW w \in Workers, WorkerExit(w)
  PROVE  TypeInv'
<1>1. TypeOK'
  BY Constants DEF WorkerExit, TypeInv, TypeOK, Goto, CONDITION_SET_TO, locks, jobVars, bounds,
    WorkerPcs
<1>2. CallerInv'
  BY Constants DEF WorkerExit, TypeInv, TypeOK, ThreadInv, CallerInv, CallerPcs, ReplyPcs, Goto,
    CONDITION_SET_TO, locks, jobVars, bounds, WorkerPcs
<1>3. WorkerInv' /\ (running => Worker # None)'
  BY Constants DEF WorkerExit, TypeInv, TypeOK, ThreadInv, WorkerInv, Serving, WorkerPcs,
    ReplyPcs, Goto, CONDITION_SET_TO, locks, jobVars, bounds
<1> QED BY <1>1, <1>2, <1>3 DEF TypeInv, ThreadInv

LEMMA InitType == Init => TypeInv
<1> SUFFICES ASSUME Init PROVE TypeInv
  OBVIOUS
<1>1. TypeOK
  <2>1. /\ pc \in [Threads -> CallerPcs \cup WorkerPcs \cup ReplyPcs]
        /\ job \in [Threads -> Jobs \cup {None}] /\ kind \in [Threads -> Kinds \cup {None}]
    BY DEF Init, CallerPcs, WorkerPcs
  <2>2. /\ aborting \in [Callers -> Seq(Jobs)] /\ sending \in [Workers -> Seq(Clients)]
        /\ replies \in [Jobs -> Seq(Kinds \X Clients)]
        /\ queue \in Seq(Jobs) /\ Monitors \in Seq(Clients)
    BY EmptySeq DEF Init
  <2>3. aborts \in 0 .. MaxAborts /\ nextid \in 1 .. MaxJobs + 1
    BY ServerType DEF Init
  <2> QED BY <2>1, <2>2, <2>3, Constants DEF Init, TypeOK
<1>2. ThreadInv
  BY Constants DEF Init, ThreadInv, CallerInv, WorkerInv, CallerPcs, WorkerPcs, ReplyPcs, Serving, Threads
<1> QED BY <1>1, <1>2 DEF TypeInv

LEMMA StutterType ==
  ASSUME TypeInv, UNCHANGED vars
  PROVE  TypeInv'
BY DEF vars, TypeInv, TypeOK, ThreadInv, CallerInv, WorkerInv

LEMMA NextType ==
  ASSUME TypeInv, [Next]_vars
  PROVE  TypeInv'
<1>1. ASSUME NEW t \in Threads, send_reply(t)
      PROVE  TypeInv'
  BY <1>1, find_clientType, check_socketType, open_socketType, send_allType, reply_sentType,
     cleanup_clientType DEF send_reply
<1>2. ASSUME NEW c \in Callers, Request(c)
      PROVE  TypeInv'
  BY <1>2, QJobType, SrvAbortType, RemoveLastType, SrvSetLoggingType DEF Request
<1>3. ASSUME NEW c \in Callers, CallerStep(c)
      PROVE  TypeInv'
  BY <1>1, <1>3, UnlockQueueType, StartWorkerType, CONDITION_WAITType, SrvAbort_lockedType,
     SrvAbort_unlockType DEF CallerStep, Threads
<1>4. ASSUME NEW w \in Workers, WorkerStep(w)
      PROVE  TypeInv'
  BY <1>1, <1>4, worker_startType, NextJobType, SetCurrentJobType, worker_runType, log_lineType,
     log_writtenType, task_doneType, worker_finishType, cancelledType, WorkerExitType
     DEF WorkerStep, Threads
<1> QED BY <1>2, <1>3, <1>4, StutterType DEF Next

(***************************************************************************)
(* Type correctness, for any number of callers and workers: the worker has  *)
(* a job wherever WorkerThread uses one, SrvAbort one wherever it replies,  *)
(* and pthread_cancel is only called for a worker that was started.         *)
(***************************************************************************)
THEOREM TypeCorrect == Spec => []TypeOK
<1>1. Init => TypeInv
  BY InitType
<1>2. TypeInv /\ [Next]_vars => TypeInv'
  BY NextType
<1>3. TypeInv => TypeOK
  BY DEF TypeInv
<1> QED BY <1>1, <1>2, <1>3, PTL DEF Spec

-----------------------------------------------------------------------------
(* What a step does to the control state and to the jobs. *)

SameControl == UNCHANGED <<queueMutex, running, Worker, cancel, aborts>>
SameJobs == UNCHANGED <<queue, CurrentJob, job, aborting, flush, fate, nextid>>

(* Only thread t moves, from a place in P to one in Q. *)
Moves(t, P, Q) ==
  /\ pc[t] \in P /\ pc'[t] \in Q
  /\ \A u \in Threads \ {t} : pc'[u] = pc[u]

LEMMA SendingStep ==
  ASSUME TypeInv, NEW t \in Threads, find_client(t) \/ check_socket(t) \/ open_socket(t) \/ send_all(t)
  PROVE  Moves(t, ReplyPcs, ReplyPcs) /\ SameControl /\ SameJobs /\ UNCHANGED QueueLocked
<1>1. CASE find_client(t)
  BY <1>1 DEF find_client, Goto, Moves, SameControl, SameJobs, TypeInv, TypeOK, ReplyPcs, workerVars,
    jobVars, bounds
<1>2. CASE check_socket(t)
  BY <1>2 DEF check_socket, Goto, Moves, SameControl, SameJobs, TypeInv, TypeOK, ReplyPcs, workerVars,
    jobVars, bounds
<1>3. CASE open_socket(t)
  BY <1>3 DEF open_socket, Goto, Moves, SameControl, SameJobs, TypeInv, TypeOK, ReplyPcs, locks,
    workerVars, jobVars, bounds
<1>4. CASE send_all(t)
  BY <1>4 DEF send_all, Goto, Moves, SameControl, SameJobs, TypeInv, TypeOK, ReplyPcs, locks, workerVars,
    bounds
<1> QED BY <1>1, <1>2, <1>3, <1>4

LEMMA ReplyStep ==
  ASSUME TypeInv, NEW t \in Threads, send_reply(t)
  PROVE  /\ SameControl /\ UNCHANGED <<QueueLocked, queue, CurrentJob, flush, nextid>>
         /\ \/ t \in Workers /\ Moves(t, ReplyPcs, ReplyPcs \cup {"run", "finish"}) /\ SameJobs
            \/ t \in Callers /\ Moves(t, ReplyPcs, ReplyPcs) /\ SameJobs
            \/ t \in Callers /\ Moves(t, ReplyPcs, ReplyPcs \cup {"abort_end"}) /\ AbortJob(t)
<1>1. CASE find_client(t) \/ check_socket(t) \/ open_socket(t) \/ send_all(t)
  BY <1>1, SendingStep DEF SameJobs, Moves, Threads
<1>2. CASE reply_sent(t) \/ cleanup_client(t)
  <2>1. /\ SameControl /\ UNCHANGED <<QueueLocked, queue, CurrentJob, flush, nextid>>
        /\ pc[t] \in ReplyPcs
        /\ \/ reply_returns(t, TRUE) \/ reply_returns(t, FALSE)
           \/ Goto(t, "cleanup") /\ UNCHANGED <<job, aborting, fate>>
    BY <1>2 DEF reply_sent, cleanup_client, SameControl, ReplyPcs, locks, workerVars, bounds
  <2>2. CASE Goto(t, "cleanup") /\ UNCHANGED <<job, aborting, fate>>
    BY <2>1, <2>2 DEF Goto, Moves, SameJobs, TypeInv, TypeOK, ReplyPcs, Threads
  <2>3. CASE AbortJob(t)
    <3>1. t \in Callers
      BY <2>1, <2>3 DEF AbortJob, TypeInv, ThreadInv, WorkerInv, Threads
    <3>2. Moves(t, ReplyPcs, ReplyPcs \cup {"abort_end"})
      BY <2>1, <2>3 DEF AbortJob, next_abort, StartReply, Goto, Moves, TypeInv, TypeOK, ReplyPcs
    <3> QED BY <2>1, <2>3, <3>1, <3>2
  <2>4. ASSUME NEW ok, SendToMonitor(t, ok)
        PROVE  t \in Workers /\ Moves(t, ReplyPcs, ReplyPcs \cup {"run", "finish"}) /\ SameJobs
    <3>1. t \in Workers
      BY <2>1, <2>4 DEF SendToMonitor, TypeInv, ThreadInv, CallerInv, Threads
    <3>2. Moves(t, ReplyPcs, ReplyPcs)
      BY <2>1, <2>4 DEF SendToMonitor, next_monitor, Goto, Moves, TypeInv, TypeOK, ReplyPcs
    <3> QED BY <2>1, <2>4, <3>1, <3>2 DEF SendToMonitor, SameJobs, Moves
  <2>5. ASSUME kind[t] \in {"STARTING", "FINISHED", "CHECKEDIN"},
               Goto(t, IF kind[t] = "STARTING" THEN "run" ELSE "finish"),
               UNCHANGED <<job, aborting, fate>>
        PROVE  t \in Workers /\ Moves(t, ReplyPcs, ReplyPcs \cup {"run", "finish"}) /\ SameJobs
    <3>1. t \in Workers
      BY <2>1, <2>5 DEF TypeInv, ThreadInv, CallerInv, Threads
    <3> QED BY <2>1, <2>5, <3>1 DEF Goto, Moves, SameJobs, TypeInv, TypeOK
  <2> QED BY <2>1, <2>2, <2>3, <2>4, <2>5 DEF reply_returns
<1> QED BY <1>1, <1>2 DEF send_reply

(* The steps of a worker between the start and the end of a job. *)
LEMMA ServingStep ==
  ASSUME TypeInv, NEW w \in Workers, worker_run(w) \/ log_line(w) \/ log_written(w) \/ task_done(w)
  PROVE  Moves(w, Serving \ {"begin"}, Serving \ {"begin"}) /\ SameControl /\ SameJobs /\ UNCHANGED QueueLocked
<1>1. CASE worker_run(w)
  <2>1. Moves(w, {"run"}, Serving \ {"begin"})
    BY <1>1, Constants DEF worker_run, DoSrvAction, DoSrvCommand, AddMonitorClient, SendToMonitors,
      next_monitor, StartReply, Goto, Moves, TypeInv, TypeOK, Serving, ReplyPcs
  <2> QED BY <1>1, <2>1 DEF worker_run, Moves, Serving, SameControl, SameJobs, locks, workerVars, bounds
<1>2. CASE log_line(w)
  BY <1>2, Constants DEF log_line, Goto, Moves, SameControl, SameJobs, TypeInv, TypeOK, Serving, workerVars,
    jobVars, bounds
<1>3. CASE log_written(w)
  BY <1>3, Constants DEF log_written, StartReply, Goto, Moves, SameControl, SameJobs, TypeInv, TypeOK,
    Serving, ReplyPcs, workerVars, jobVars, bounds
<1>4. CASE task_done(w)
  BY <1>4, Constants DEF task_done, StartReply, Goto, Moves, SameControl, SameJobs, TypeInv, TypeOK,
    Serving, ReplyPcs, locks, workerVars, jobVars, bounds
<1> QED BY <1>1, <1>2, <1>3, <1>4

LEMMA SetCurrentJobStep ==
  ASSUME TypeInv, NEW w \in Workers, SetCurrentJob(w)
  PROVE  /\ Moves(w, {"begin"}, {"find", "run"}) /\ SameControl
         /\ queueMutex = None /\ QueueLocked' = FALSE
         /\ CurrentJob' = job[w]
         /\ UNCHANGED <<queue, job, aborting, flush, fate, nextid>>
BY Constants DEF SetCurrentJob, QueueSection, QUEUE_LOCK, StartReply, Goto, Moves, SameControl, TypeInv,
  TypeOK, workerVars, jobVars, bounds

LEMMA worker_finishStep ==
  ASSUME TypeInv, NEW w \in Workers, worker_finish(w)
  PROVE  /\ Moves(w, {"finish"}, {"next"}) /\ SameControl
         /\ queueMutex = None /\ QueueLocked' = FALSE
         /\ job[w] \in Jobs /\ fate' = [fate EXCEPT ![job[w]] = "freed"]
         /\ job'[w] = None /\ \A t \in Threads \ {w} : job'[t] = job[t]
         /\ CurrentJob' = None
         /\ UNCHANGED <<queue, aborting, flush, nextid>>
<1>1. job[w] \in Jobs
  BY DEF worker_finish, TypeInv, ThreadInv, WorkerInv, Serving
<1> QED BY <1>1, Constants DEF worker_finish, QueueSection, QUEUE_LOCK, Goto, Moves, SameControl, TypeInv,
  TypeOK, workerVars, bounds

LEMMA NextJobStep ==
  ASSUME TypeInv, NEW w \in Workers, NextJob(w)
  PROVE  /\ SameControl /\ queueMutex = None
         /\ UNCHANGED <<CurrentJob, aborting, flush, fate, nextid>>
         /\ \A t \in Threads \ {w} : job'[t] = job[t]
         /\ \/ /\ Moves(w, {"next"}, {"begin"}) /\ QueueLocked' = FALSE
               /\ queue # <<>> /\ job'[w] = Head(queue) /\ queue' = Tail(queue)
            \/ Moves(w, {"next"}, {"wait"}) /\ UNCHANGED <<queue, job>>
<1>1. /\ \A t \in Threads \ {w} : job'[t] = job[t]
      /\ queue # <<>> => job'[w] = Head(queue) 
  BY Constants DEF NextJob, TypeInv, TypeOK
<1> QED BY <1>1, Constants DEF NextJob, QUEUE_LOCK, Goto, Moves, SameControl, TypeInv, TypeOK,
  workerVars, jobVars, bounds

LEMMA worker_startStep ==
  ASSUME TypeInv, NEW w \in Workers, worker_start(w)
  PROVE  /\ Moves(w, {"start"}, {"next"}) /\ SameJobs /\ running' = TRUE
         /\ UNCHANGED <<QueueLocked, queueMutex, Worker, cancel, aborts>>
BY Constants DEF worker_start, CONDITION_SET_TO, Goto, Moves, SameJobs, TypeInv, TypeOK, locks, jobVars, bounds

LEMMA cancelledStep ==
  ASSUME TypeInv, NEW w \in Workers, cancelled(w)
  PROVE  /\ Moves(w, Serving \cup {"wait"}, {"exit"}) /\ SameControl /\ SameJobs /\ w \in cancel
         /\ pc[w] # "begin"
         /\ \/ UNCHANGED QueueLocked /\ pc[w] # "wait"
            \/ queueMutex = None /\ QueueLocked' = FALSE
<1>1. pc[w] \in Serving \cup {"wait"} /\ pc[w] # "begin"
  BY DEF cancelled, Serving, ReplyPcs
<1> QED BY <1>1, Constants DEF cancelled, QUEUE_LOCK, Goto, Moves, SameControl, SameJobs, TypeInv, TypeOK,
  workerVars, jobVars, bounds

LEMMA WorkerExitStep ==
  ASSUME TypeInv, NEW w \in Workers, WorkerExit(w)
  PROVE  /\ Moves(w, {"exit"}, {"dead"}) /\ SameJobs /\ running' = FALSE
         /\ UNCHANGED <<QueueLocked, queueMutex, Worker, cancel, aborts>>
BY Constants DEF WorkerExit, CONDITION_SET_TO, Goto, Moves, SameJobs, TypeInv, TypeOK, locks, jobVars, bounds

LEMMA QJobStep ==
  ASSUME TypeInv, NEW c \in Callers, QJob(c)
  PROVE  /\ pc[c] = "idle" /\ pc'[c] = "queued"
         /\ \A d \in Callers \ {c} : pc'[d] = pc[d]
         /\ \A w \in Workers : pc'[w] = pc[w] \/ (pc[w] = "wait" /\ pc'[w] = "next")
         /\ queueMutex = None /\ queueMutex' = c
         /\ nextid \in Jobs /\ nextid' = nextid + 1
         /\ queue' = Append(queue, nextid) /\ fate' = [fate EXCEPT ![nextid] = "live"]
         /\ UNCHANGED <<running, Worker, cancel, aborts, CurrentJob, job, aborting, flush>>
<1> DEFINE Woken == /\ pc'[c] = "queued"
                    /\ \A d \in Callers \ {c} : pc'[d] = pc[d]
                    /\ \A w \in Workers : pc'[w] = pc[w] \/ (pc[w] = "wait" /\ pc'[w] = "next")
<1>1. Woken
  <2>1. CASE Goto(c, "queued")
    BY <2>1, Constants DEF Goto, TypeInv, TypeOK
  <2>2. ASSUME NEW w \in Workers, pc[w] = "wait", pc' = [pc EXCEPT ![c] = "queued", ![w] = "next"]
        PROVE  Woken
    BY <2>2, Constants DEF TypeInv, TypeOK
  <2> QED BY <2>1, <2>2 DEF QJob
<1>2. nextid \in Jobs
  BY ServerType DEF QJob, TypeInv, TypeOK, Jobs
<1> QED BY <1>1, <1>2 DEF QJob, LockQueue, QUEUE_LOCK, workerVars

LEMMA UnlockQueueStep ==
  ASSUME TypeInv, NEW c \in Callers, UnlockQueue(c)
  PROVE  /\ Moves(c, {"queued", "removed"}, {"start_worker", "idle"}) /\ SameJobs
         /\ queueMutex' = None /\ QueueLocked' = FALSE
         /\ UNCHANGED <<running, Worker, cancel, aborts>>
BY Constants DEF UnlockQueue, Goto, Moves, SameJobs, TypeInv, TypeOK, workerVars, jobVars, bounds

LEMMA StartWorkerStep ==
  ASSUME TypeInv, NEW c \in Callers, StartWorker(c)
  PROVE  /\ SameJobs /\ UNCHANGED <<QueueLocked, queueMutex, running, cancel, aborts>>
         /\ \/ Moves(c, {"start_worker"}, {"idle"}) /\ UNCHANGED Worker
            \/ /\ ~running /\ pc[c] = "start_worker" /\ pc'[c] = "wait_set"
               /\ \E w \in Workers :
                    /\ pc[w] = "new" /\ pc'[w] = "start" /\ Worker' = w
                    /\ \A t \in Threads \ {c, w} : pc'[t] = pc[t]
<1>1. SameJobs /\ UNCHANGED <<QueueLocked, queueMutex, running, cancel, aborts>>
  BY DEF StartWorker, SameJobs, locks, workerVars, jobVars, bounds
<1>2. CASE running
  BY <1>1, <1>2, Constants DEF StartWorker, Goto, Moves, TypeInv, TypeOK, workerVars
<1>3. CASE ~running
  <2>1. PICK w \in Workers :
          /\ pc[w] = "new"
          /\ pc' = [pc EXCEPT ![c] = "wait_set", ![w] = "start"]
          /\ Worker' = w
    BY <1>3 DEF StartWorker
  <2>2. /\ pc'[c] = "wait_set" /\ pc'[w] = "start"
        /\ \A t \in Threads \ {c, w} : pc'[t] = pc[t]
    BY <2>1, Constants DEF TypeInv, TypeOK
  <2> QED BY <1>1, <1>3, <2>1, <2>2 DEF StartWorker
<1> QED BY <1>2, <1>3

LEMMA CONDITION_WAITStep ==
  ASSUME TypeInv, NEW c \in Callers, CONDITION_WAIT(c)
  PROVE  /\ SameControl /\ SameJobs /\ UNCHANGED QueueLocked
         /\ \/ running /\ Moves(c, {"wait_set"}, {"idle"})
            \/ ~running /\ Moves(c, {"wait_reset"}, {"abort"})
            \/ UNCHANGED pc
<1>1. SameControl /\ SameJobs /\ UNCHANGED QueueLocked
  BY DEF CONDITION_WAIT, SameControl, SameJobs, locks, jobVars, bounds
<1>2. CASE running = (pc[c] = "wait_set")
  BY <1>1, <1>2, Constants DEF CONDITION_WAIT, Goto, Moves, TypeInv, TypeOK
<1>3. CASE running # (pc[c] = "wait_set")
  BY <1>1, <1>3 DEF CONDITION_WAIT
<1> QED BY <1>2, <1>3

LEMMA SrvAbortStep ==
  ASSUME TypeInv, NEW c \in Callers, NEW p1 \in BOOLEAN, SrvAbort(c, p1)
  PROVE  /\ UNCHANGED <<QueueLocked, queueMutex, running, Worker, queue, CurrentJob, job, aborting,
                        fate, nextid>>
         /\ \A d \in Callers \ {c} : flush'[d] = flush[d]
         /\ aborts < MaxAborts /\ aborts' = aborts + 1
         /\ \/ running /\ Moves(c, {"idle"}, {"wait_reset"}) /\ cancel' = cancel \cup {Worker}
            \/ ~running /\ Moves(c, {"idle"}, {"abort"}) /\ UNCHANGED cancel
<1>1. /\ UNCHANGED <<QueueLocked, queueMutex, running, Worker, queue, CurrentJob, job, aborting,
                     fate, nextid>>
      /\ \A d \in Callers \ {c} : flush'[d] = flush[d]
      /\ aborts < MaxAborts /\ aborts' = aborts + 1
  BY DEF SrvAbort, TypeInv, TypeOK, locks, jobVars
<1> QED BY <1>1, Constants DEF SrvAbort, KillWorker, Goto, Moves, TypeInv, TypeOK

LEMMA SrvAbort_lockedStep ==
  ASSUME TypeInv, NEW c \in Callers, SrvAbort_locked(c)
  PROVE  /\ Moves(c, {"abort"}, {"abort_end", "find"})
         /\ next_abort(c, (IF CurrentJob = None THEN <<>> ELSE <<CurrentJob>>)
                            \o (IF flush[c] THEN queue ELSE <<>>))
         /\ queueMutex = None /\ queueMutex' = c
         /\ UNCHANGED <<running, Worker, cancel, aborts, queue, CurrentJob, flush, fate, nextid>>
BY Constants DEF SrvAbort_locked, next_abort, StartReply, Goto, LockQueue, QUEUE_LOCK, Moves, TypeInv,
  TypeOK, workerVars, jobVars, bounds

LEMMA SrvAbort_unlockStep ==
  ASSUME TypeInv, NEW c \in Callers, SrvAbort_unlock(c)
  PROVE  /\ Moves(c, {"abort_end"}, {"idle"})
         /\ queueMutex' = None /\ QueueLocked' = FALSE
         /\ CurrentJob' = None /\ queue' = IF flush[c] THEN <<>> ELSE queue
         /\ UNCHANGED <<running, Worker, cancel, aborts, job, aborting, flush, fate, nextid>>
BY Constants DEF SrvAbort_unlock, Goto, Moves, TypeInv, TypeOK, workerVars, jobVars, bounds

LEMMA RemoveLastStep ==
  ASSUME TypeInv, NEW c \in Callers, RemoveLast(c)
  PROVE  /\ Moves(c, {"idle"}, {"removed"})
         /\ queueMutex = None /\ queueMutex' = c
         /\ queue # <<>> /\ queue' = SubSeq(queue, 1, Len(queue) - 1)
         /\ fate' = [fate EXCEPT ![queue[Len(queue)]] = "removed"]
         /\ UNCHANGED <<running, Worker, cancel, aborts, CurrentJob, job, aborting, flush, nextid>>
BY Constants DEF RemoveLast, Goto, LockQueue, QUEUE_LOCK, Moves, TypeInv, TypeOK, workerVars, bounds

LEMMA SrvSetLoggingStep ==
  ASSUME NEW c \in Callers, SrvSetLogging(c)
  PROVE  SameControl /\ SameJobs /\ UNCHANGED <<pc, QueueLocked>>
BY DEF SrvSetLogging, SameControl, SameJobs, locks, workerVars, threadVars, jobVars, bounds

-----------------------------------------------------------------------------
(* Locks and cancellation. *)

(* A caller holds the mutex of the queue in its sections; the flag is only  *)
(* left set by a worker that waits for a job.                               *)
LockInv ==
  /\ \A c \in Callers :
       queueMutex = c <=> pc[c] \in {"queued", "removed", "abort_end"} \cup ReplyPcs
  /\ QueueLocked => queueMutex # None \/ \E w \in Workers : pc[w] = "wait"

UnabortedInv ==
  aborts = 0 =>
    /\ cancel = {}
    /\ \A c \in Callers : pc[c] \notin AbortPcs \cup {"wait_reset"}
    /\ \A w \in Workers : pc[w] # "exit"

Live(w) == pc[w] \notin {"new", "dead"}

(* With a single caller there is one worker at a time, and none while the   *)
(* caller aborts jobs.                                                      *)
SoleInv ==
  \A c \in Callers : Callers = {c} =>
    /\ pc[c] \in AbortPcs => ~running
    /\ \A w \in Workers :
         /\ pc[w] = "new" => w # Worker /\ w \notin cancel
         /\ Live(w) => w = Worker
         /\ pc[w] = "start" => ~running /\ pc[c] = "wait_set"
         /\ Live(w) /\ pc[w] # "start" => running
         /\ Live(w) /\ w \in cancel => pc[c] = "wait_reset"
         /\ pc[w] = "exit" => w \in cancel

ControlInv == LockInv /\ UnabortedInv /\ SoleInv

(* A thread that goes on with a job or with an abort. *)
LEMMA BusyControl ==
  ASSUME TypeInv, ControlInv, SameControl, QueueLocked' => QueueLocked,
         \/ \E w \in Workers : Moves(w, Serving, Serving \cup {"next"})
         \/ \E c \in Callers : Moves(c, ReplyPcs, ReplyPcs \cup {"abort_end"})
  PROVE  ControlInv'
<1>1. /\ \A c \in Callers :
           pc'[c] = pc[c] \/ (pc[c] \in ReplyPcs /\ pc'[c] \in ReplyPcs \cup {"abort_end"})
      /\ \A w \in Workers :
           pc'[w] = pc[w] \/ (pc[w] \in Serving /\ pc'[w] \in Serving \cup {"next"})
  BY Constants DEF Moves
<1>2. LockInv'
  <2>1. UNCHANGED queueMutex /\ (QueueLocked' => QueueLocked)
    BY DEF SameControl
  <2> QED BY <1>1, <2>1 DEF ControlInv, LockInv, ReplyPcs, Serving
<1>3. UnabortedInv'
  BY <1>1 DEF ControlInv, UnabortedInv, SameControl, ReplyPcs, Serving, AbortPcs
<1>4. SoleInv'
  BY <1>1 DEF ControlInv, SoleInv, SameControl, ReplyPcs, Serving, AbortPcs, Live
<1> QED BY <1>2, <1>3, <1>4 DEF ControlInv

LEMMA QJobControl ==
  ASSUME TypeInv, ControlInv, NEW c \in Callers, QJob(c)
  PROVE  ControlInv'
<1>1. LockInv'
  BY QJobStep, Constants DEF ControlInv, LockInv, ReplyPcs
<1>2. UnabortedInv'
  BY QJobStep DEF ControlInv, UnabortedInv, AbortPcs, ReplyPcs
<1>3. SoleInv'
  BY QJobStep DEF ControlInv, SoleInv, AbortPcs, ReplyPcs, Live
<1> QED BY <1>1, <1>2, <1>3 DEF ControlInv

LEMMA UnlockQueueControl ==
  ASSUME TypeInv, ControlInv, NEW c \in Callers, UnlockQueue(c)
  PROVE  ControlInv'
<1>1. LockInv'
  BY UnlockQueueStep, Constants DEF ControlInv, LockInv, ReplyPcs, Moves
<1>2. UnabortedInv'
  BY UnlockQueueStep, Constants DEF ControlInv, UnabortedInv, AbortPcs, ReplyPcs, Moves
<1>3. SoleInv'
  BY UnlockQueueStep, Constants DEF ControlInv, SoleInv, AbortPcs, ReplyPcs, Live, Moves
<1> QED BY <1>1, <1>2, <1>3 DEF ControlInv

LEMMA StartWorkerControl ==
  ASSUME TypeInv, ControlInv, NEW c \in Callers, StartWorker(c)
  PROVE  ControlInv'
<1>1. CASE Moves(c, {"start_worker"}, {"idle"}) /\ UNCHANGED Worker
  <2>1. LockInv'
    BY <1>1, StartWorkerStep, Constants DEF ControlInv, LockInv, ReplyPcs, Moves
  <2>2. UnabortedInv'
    BY <1>1, StartWorkerStep, Constants DEF ControlInv, UnabortedInv, AbortPcs, ReplyPcs, Moves
  <2>3. SoleInv'
    BY <1>1, StartWorkerStep, Constants DEF ControlInv, SoleInv, AbortPcs, ReplyPcs, Live, Moves
  <2> QED BY <2>1, <2>2, <2>3 DEF ControlInv
<1>2. CASE ~(Moves(c, {"start_worker"}, {"idle"}) /\ UNCHANGED Worker)
  <2>1. /\ ~running /\ pc[c] = "start_worker" /\ pc'[c] = "wait_set"
        /\ UNCHANGED <<QueueLocked, queueMutex, running, cancel, aborts>>
    BY <1>2, StartWorkerStep
  <2>2. PICK w \in Workers :
          /\ pc[w] = "new" /\ pc'[w] = "start" /\ Worker' = w
          /\ \A t \in Threads \ {c, w} : pc'[t] = pc[t]
    BY <1>2, StartWorkerStep
  <2>3. /\ \A d \in Callers \ {c} : pc'[d] = pc[d]
        /\ \A u \in Workers \ {w} : pc'[u] = pc[u]
    BY <2>2, Constants
  <2>4. LockInv'
    BY <2>1, <2>2, <2>3, Constants DEF ControlInv, LockInv, ReplyPcs
  <2>5. UnabortedInv'
    BY <2>1, <2>2, <2>3 DEF ControlInv, UnabortedInv, AbortPcs, ReplyPcs
  <2>6. SoleInv'
    <3> SUFFICES ASSUME Callers = {c} PROVE SoleInv!(c)'
      BY DEF SoleInv
    <3>1. ASSUME NEW u \in Workers
          PROVE  ~Live(u)
      BY <2>1 DEF ControlInv, SoleInv, Live
    <3>2. \A u \in Workers \ {w} : ~Live(u)'
      BY <2>3, <3>1 DEF Live
    <3>3. \A u \in Workers : pc[u] = "new" => u \notin cancel
      BY DEF ControlInv, SoleInv
    <3>4. \A u \in Workers \ {w} : pc'[u] = "new" => u # w /\ u \notin cancel
      BY <2>3, <3>3
    <3> QED BY <2>1, <2>2, <3>2, <3>3, <3>4 DEF AbortPcs, ReplyPcs, Live
  <2> QED BY <2>4, <2>5, <2>6 DEF ControlInv
<1> QED BY <1>1, <1>2, StartWorkerStep

LEMMA CONDITION_WAITControl ==
  ASSUME TypeInv, ControlInv, NEW c \in Callers, CONDITION_WAIT(c)
  PROVE  ControlInv'
<1>0. /\ UNCHANGED <<QueueLocked, queueMutex, running, Worker, cancel, aborts>>
      /\ \A t \in Threads \ {c} : pc'[t] = pc[t]
      /\ \/ running /\ pc[c] = "wait_set" /\ pc'[c] = "idle"
         \/ ~running /\ pc[c] = "wait_reset" /\ pc'[c] = "abort"
         \/ pc'[c] = pc[c]
  BY CONDITION_WAITStep DEF Moves, SameControl
<1>1. LockInv'
  BY <1>0, Constants DEF ControlInv, LockInv, ReplyPcs
<1>2. UnabortedInv'
  BY <1>0, Constants DEF ControlInv, UnabortedInv, AbortPcs, ReplyPcs
<1>3. SoleInv'
  BY <1>0, Constants DEF ControlInv, SoleInv, AbortPcs, ReplyPcs, Live
<1> QED BY <1>1, <1>2, <1>3 DEF ControlInv

LEMMA SrvAbortControl ==
  ASSUME TypeInv, ControlInv, NEW c \in Callers, NEW p1 \in BOOLEAN, SrvAbort(c, p1)
  PROVE  ControlInv'
<1>1. LockInv'
  BY SrvAbortStep, Constants DEF ControlInv, LockInv, ReplyPcs, Moves
<1>2. UnabortedInv'
  BY SrvAbortStep DEF UnabortedInv, TypeInv, TypeOK
<1>3. SoleInv'
  BY SrvAbortStep, Constants DEF ControlInv, SoleInv, AbortPcs, ReplyPcs, Live, Moves
<1> QED BY <1>1, <1>2, <1>3 DEF ControlInv

LEMMA SrvAbort_lockedControl ==
  ASSUME TypeInv, ControlInv, NEW c \in Callers, SrvAbort_locked(c)
  PROVE  ControlInv'
<1>0. /\ pc[c] = "abort" /\ pc'[c] \in {"abort_end", "find"}
      /\ \A t \in Threads \ {c} : pc'[t] = pc[t]
      /\ queueMutex = None /\ queueMutex' = c
      /\ UNCHANGED <<running, Worker, cancel, aborts>>
  BY SrvAbort_lockedStep DEF Moves
<1>1. LockInv'
  BY <1>0, Constants DEF ControlInv, LockInv, ReplyPcs
<1>2. UnabortedInv'
  BY <1>0, Constants DEF ControlInv, UnabortedInv, AbortPcs, ReplyPcs
<1>3. SoleInv'
  BY <1>0, Constants DEF ControlInv, SoleInv, AbortPcs, ReplyPcs, Live
<1> QED BY <1>1, <1>2, <1>3 DEF ControlInv

LEMMA SrvAbort_unlockControl ==
  ASSUME TypeInv, ControlInv, NEW c \in Callers, SrvAbort_unlock(c)
  PROVE  ControlInv'
<1>1. LockInv'
  BY SrvAbort_unlockStep, Constants DEF ControlInv, LockInv, ReplyPcs, Moves
<1>2. UnabortedInv'
  BY SrvAbort_unlockStep, Constants DEF ControlInv, UnabortedInv, AbortPcs, ReplyPcs, Moves
<1>3. SoleInv'
  BY SrvAbort_unlockStep, Constants DEF ControlInv, SoleInv, AbortPcs, ReplyPcs, Live, Moves
<1> QED BY <1>1, <1>2, <1>3 DEF ControlInv

LEMMA RemoveLastControl ==
  ASSUME TypeInv, ControlInv, NEW c \in Callers, RemoveLast(c)
  PROVE  ControlInv'
<1>1. LockInv'
  BY RemoveLastStep, Constants DEF ControlInv, LockInv, ReplyPcs, Moves
<1>2. UnabortedInv'
  BY RemoveLastStep, Constants DEF ControlInv, UnabortedInv, AbortPcs, ReplyPcs, Moves
<1>3. SoleInv'
  BY RemoveLastStep, Constants DEF ControlInv, SoleInv, AbortPcs, ReplyPcs, Live, Moves
<1> QED BY <1>1, <1>2, <1>3 DEF ControlInv

LEMMA worker_startControl ==
  ASSUME TypeInv, ControlInv, NEW w \in Workers, worker_start(w)
  PROVE  ControlInv'
<1>0. /\ pc[w] = "start" /\ pc'[w] = "next" /\ running' = TRUE
      /\ \A t \in Threads \ {w} : pc'[t] = pc[t]
      /\ UNCHANGED <<QueueLocked, queueMutex, Worker, cancel, aborts>>
  BY worker_startStep DEF Moves
<1>1. LockInv'
  BY <1>0, Constants DEF ControlInv, LockInv, ReplyPcs
<1>2. UnabortedInv'
  BY <1>0, Constants DEF ControlInv, UnabortedInv, AbortPcs, ReplyPcs
<1>3. SoleInv'
  BY <1>0, Constants DEF ControlInv, SoleInv, AbortPcs, ReplyPcs, Live
<1> QED BY <1>1, <1>2, <1>3 DEF ControlInv

LEMMA NextJobControl ==
  ASSUME TypeInv, ControlInv, NEW w \in Workers, NextJob(w)
  PROVE  ControlInv'
<1>0. /\ pc[w] = "next"
      /\ \A t \in Threads \ {w} : pc'[t] = pc[t]
      /\ UNCHANGED <<queueMutex, running, Worker, cancel, aborts>>
      /\ \/ pc'[w] = "begin" /\ QueueLocked' = FALSE
         \/ pc'[w] = "wait"
  BY NextJobStep DEF Moves, SameControl
<1>1. LockInv'
  BY <1>0, Constants DEF ControlInv, LockInv, ReplyPcs
<1>2. UnabortedInv'
  BY <1>0, Constants DEF ControlInv, UnabortedInv, AbortPcs, ReplyPcs
<1>3. SoleInv'
  BY <1>0, Constants DEF ControlInv, SoleInv, AbortPcs, ReplyPcs, Live
<1> QED BY <1>1, <1>2, <1>3 DEF ControlInv

LEMMA cancelledControl ==
  ASSUME TypeInv, ControlInv, NEW w \in Workers, cancelled(w)
  PROVE  ControlInv'
<1>0. /\ Live(w) /\ pc[w] # "start" /\ pc'[w] = "exit" /\ w \in cancel
      /\ \A t \in Threads \ {w} : pc'[t] = pc[t]
      /\ UNCHANGED <<queueMutex, running, Worker, cancel, aborts>>
      /\ \/ QueueLocked' = FALSE
         \/ UNCHANGED QueueLocked /\ pc[w] # "wait"
  BY cancelledStep DEF Moves, SameControl, Live, Serving, ReplyPcs
<1>1. LockInv'
  BY <1>0, Constants DEF ControlInv, LockInv, ReplyPcs
<1>2. UnabortedInv'
  BY <1>0, Constants DEF ControlInv, UnabortedInv, AbortPcs, ReplyPcs
<1>3. SoleInv'
  BY <1>0, Constants DEF ControlInv, SoleInv, AbortPcs, ReplyPcs, Live
<1> QED BY <1>1, <1>2, <1>3 DEF ControlInv

LEMMA WorkerExitControl ==
  ASSUME TypeInv, ControlInv, NEW w \in Workers, WorkerExit(w)
  PROVE  ControlInv'
<1>0. /\ pc[w] = "exit" /\ pc'[w] = "dead" /\ running' = FALSE
      /\ \A t \in Threads \ {w} : pc'[t] = pc[t]
      /\ UNCHANGED <<QueueLocked, queueMutex, Worker, cancel, aborts>>
  BY WorkerExitStep DEF Moves
<1>1. LockInv'
  BY <1>0, Constants DEF ControlInv, LockInv, ReplyPcs
<1>2. UnabortedInv'
  BY <1>0, Constants DEF ControlInv, UnabortedInv, AbortPcs, ReplyPcs
<1>3. SoleInv'
  BY <1>0, Constants DEF ControlInv, SoleInv, AbortPcs, ReplyPcs, Live
<1> QED BY <1>1, <1>2, <1>3 DEF ControlInv

LEMMA NextControl ==
  ASSUME TypeInv, ControlInv, [Next]_vars
  PROVE  ControlInv'
<1>1. ASSUME NEW t \in Threads, send_reply(t)
      PROVE  ControlInv'
  <2>1. /\ SameControl /\ (QueueLocked' => QueueLocked)
        /\ \/ t \in Workers /\ Moves(t, Serving, Serving \cup {"next"})
           \/ t \in Callers /\ Moves(t, ReplyPcs, ReplyPcs \cup {"abort_end"})
    BY <1>1, ReplyStep DEF Moves, Serving
  <2> QED BY <2>1, BusyControl
<1>2. ASSUME NEW w \in Workers,
             \/ worker_run(w) \/ log_line(w) \/ log_written(w) \/ task_done(w)
             \/ SetCurrentJob(w) \/ worker_finish(w)
      PROVE  ControlInv'
  <2>1. Moves(w, Serving, Serving \cup {"next"}) /\ SameControl /\ (QueueLocked' => QueueLocked)
    BY <1>2, ServingStep, SetCurrentJobStep, worker_finishStep DEF Moves, Serving, ReplyPcs
  <2> QED BY <2>1, BusyControl
<1>3. ASSUME NEW c \in Callers, Request(c)
      PROVE  ControlInv'
  <2>1. CASE SrvSetLogging(c)
    BY <2>1, SrvSetLoggingStep DEF ControlInv, LockInv, UnabortedInv, SoleInv, Live, SameControl
  <2> QED BY <1>3, <2>1, QJobControl, SrvAbortControl, RemoveLastControl DEF Request
<1>4. ASSUME NEW c \in Callers, CallerStep(c)
      PROVE  ControlInv'
  BY <1>1, <1>4, UnlockQueueControl, StartWorkerControl, CONDITION_WAITControl, SrvAbort_lockedControl,
     SrvAbort_unlockControl DEF CallerStep, Threads
<1>5. ASSUME NEW w \in Workers, WorkerStep(w)
      PROVE  ControlInv'
  BY <1>1, <1>2, <1>5, worker_startControl, NextJobControl, cancelledControl, WorkerExitControl
     DEF WorkerStep, Threads
<1>6. CASE UNCHANGED vars
  BY <1>6 DEF vars, ControlInv, LockInv, UnabortedInv, SoleInv, Live
<1> QED BY <1>3, <1>4, <1>5, <1>6 DEF Next

LEMMA InitControl == Init => ControlInv
<1> SUFFICES ASSUME Init PROVE ControlInv
  OBVIOUS
<1>1. /\ \A c \in Callers : pc[c] = "idle"
      /\ \A w \in Workers : pc[w] = "new"
      /\ queueMutex = None /\ QueueLocked = FALSE /\ cancel = {} /\ Worker = None
  BY Constants DEF Init
<1> QED BY <1>1, Constants DEF ControlInv, LockInv, UnabortedInv, SoleInv, Live, AbortPcs, ReplyPcs

(* No client aborts, or there is only one client. *)
Undisturbed == MaxAborts = 0 \/ \E c \in Callers : Callers = {c}

(***************************************************************************)
(* WorkerExit finds STATIC_QueueLocked clear, whatever the worker did when  *)
(* it was cancelled, for any number of jobs, workers and aborts - as long   *)
(* as the aborts come from one client: two clients can start a worker       *)
(* while another one still exits.                                           *)
(***************************************************************************)
THEOREM ExitSafe == ASSUME Undisturbed PROVE Spec => []ExitUnlocked
<1>1. Init => TypeInv /\ ControlInv
  BY InitType, InitControl
<1>2. TypeInv /\ ControlInv /\ [Next]_vars => (TypeInv /\ ControlInv)'
  BY NextType, NextControl
<1>3. TypeInv /\ ControlInv => ExitUnlocked
  <2> SUFFICES ASSUME TypeInv, ControlInv, NEW w \in Workers, pc[w] = "exit"
               PROVE  ~QueueLocked
    BY DEF ExitUnlocked
  <2>1. aborts # 0 /\ aborts \in 0 .. MaxAborts
    <3>1. aborts # 0
      BY DEF ControlInv, UnabortedInv
    <3>2. aborts \in 0 .. MaxAborts
      BY DEF TypeInv, TypeOK
    <3> QED BY <3>1, <3>2
  <2>2. PICK c \in Callers : Callers = {c}
    <3>1. MaxAborts # 0
      BY <2>1
    <3> QED BY <3>1 DEF Undisturbed
  <2>3. pc[c] = "wait_reset" /\ \A u \in Workers : Live(u) => u = w
    BY <2>2 DEF ControlInv, SoleInv, Live
  <2>4. queueMutex = None /\ \A u \in Workers : pc[u] # "wait"
    BY <2>2, <2>3 DEF ControlInv, LockInv, Live, ReplyPcs, TypeInv, TypeOK
  <2> QED BY <2>4 DEF ControlInv, LockInv
<1> QED BY <1>1, <1>2, <1>3, PTL DEF Spec

-----------------------------------------------------------------------------
(* Which jobs a thread may use. *)

Ending(c) == pc[c] \in ReplyPcs \cup {"abort_end"}

(* Jobs are queued in the order of their numbers; a job in the queue is     *)
(* younger than those that were taken from it, and live, unless an abort    *)
(* has just freed it and will empty the queue.                              *)
QueueInv ==
  /\ \A j \in Jobs : fate[j] = "unborn" <=> j >= nextid
  /\ \A m, n \in DOMAIN queue : m < n => queue[m] < queue[n]
  /\ \A n \in DOMAIN queue :
       /\ fate[queue[n]] # "unborn"
       /\ CurrentJob # None => CurrentJob < queue[n]
       /\ \A w \in Workers : pc[w] \in Serving => job[w] < queue[n]
       /\ \/ fate[queue[n]] = "live"
          \/ \E c \in Callers : Ending(c) /\ flush[c]

(* No two workers have the same job. *)
HeldInv ==
  /\ CurrentJob # None =>
       /\ fate[CurrentJob] # "unborn"
       /\ fate[CurrentJob] = "live" \/ \E c \in Callers : Ending(c)
  /\ \A w \in Workers : pc[w] \in Serving =>
       /\ fate[job[w]] = "live"
       /\ \A u \in Workers : pc[u] \in Serving /\ job[u] = job[w] => u = w

(* What SrvAbort has still to abort. *)
AbortInv ==
  \A c \in Callers : Ending(c) =>
    /\ \A k \in DOMAIN aborting[c] :
         /\ fate[aborting[c][k]] = "live"
         /\ \/ aborting[c][k] = CurrentJob
            \/ flush[c] /\ \E n \in DOMAIN queue : aborting[c][k] = queue[n]
    /\ \A k, l \in DOMAIN aborting[c] : k < l => aborting[c][k] < aborting[c][l]

JobInv == QueueInv /\ HeldInv /\ AbortInv
Inv == TypeInv /\ ControlInv /\ JobInv

(* While a caller aborts jobs there is no other thread. *)
LEMMA Alone ==
  ASSUME Undisturbed, TypeInv, ControlInv, NEW c \in Callers, pc[c] \in AbortPcs
  PROVE  Callers = {c} /\ \A w \in Workers : ~Live(w)
<1>1. aborts # 0
  BY DEF ControlInv, UnabortedInv
<1>2. aborts \in 0 .. MaxAborts
  BY DEF TypeInv, TypeOK
<1>3. MaxAborts # 0
  BY <1>1, <1>2
<1>4. Callers = {c}
  BY <1>3 DEF Undisturbed
<1>5. ASSUME NEW w \in Workers
      PROVE  ~Live(w)
  BY <1>4 DEF ControlInv, SoleInv, Live, AbortPcs, ReplyPcs
<1> QED BY <1>4, <1>5

LEMMA NoneEnding ==
  ASSUME ControlInv, queueMutex = None
  PROVE  \A c \in Callers : ~Ending(c)
BY Constants DEF ControlInv, LockInv, Ending

LEMMA AliveNoneEnding ==
  ASSUME Undisturbed, TypeInv, ControlInv, NEW w \in Workers, Live(w)
  PROVE  \A c \in Callers : ~Ending(c)
BY Alone DEF Ending, AbortPcs

LEMMA Earlier ==
  \A i, j \in Jobs : i < j => i # j
BY Constants

LEMMA QueueDomain ==
  ASSUME TypeInv
  PROVE  /\ DOMAIN queue = 1 .. Len(queue) /\ Len(queue) \in Nat
         /\ \A n \in DOMAIN queue : queue[n] \in Jobs
<1>1. queue \in Seq(Jobs)
  BY DEF TypeInv, TypeOK
<1>2. DOMAIN queue = 1 .. Len(queue) /\ Len(queue) \in Nat
  BY <1>1, LenProperties
<1> QED BY <1>1, <1>2, ElementOfSeq

(* Steps that leave the jobs where they are. *)
LEMMA KeepsJobs ==
  ASSUME JobInv, UNCHANGED <<queue, CurrentJob, job, aborting, fate, nextid>>,
         \A c \in Callers : Ending(c)' <=> Ending(c),
         \A c \in Callers : Ending(c) => flush'[c] = flush[c],
         \A w \in Workers : pc'[w] \in Serving => pc[w] \in Serving
  PROVE  JobInv'
<1>1. QueueInv'
  BY DEF JobInv, QueueInv
<1>2. HeldInv'
  BY DEF JobInv, HeldInv
<1>3. AbortInv'
  BY DEF JobInv, AbortInv
<1> QED BY <1>1, <1>2, <1>3 DEF JobInv

LEMMA MovesKeepsJobs ==
  ASSUME JobInv, SameJobs, NEW t \in Threads, NEW P, NEW Q, Moves(t, P, Q),
         \/ t \in Callers /\ (P \cup Q) \cap (ReplyPcs \cup {"abort_end"}) = {}
         \/ t \in Callers /\ P \cup Q \subseteq ReplyPcs
         \/ t \in Workers /\ (P \subseteq Serving \/ Q \cap Serving = {})
  PROVE  JobInv'
<1>1. /\ \A c \in Callers : Ending(c)' <=> Ending(c)
      /\ \A w \in Workers : pc'[w] \in Serving => pc[w] \in Serving
  BY Constants DEF Moves, Ending
<1> QED BY <1>1, KeepsJobs DEF SameJobs

LEMMA QJobJobs ==
  ASSUME Inv, NEW c \in Callers, QJob(c)
  PROVE  JobInv'
<1>1. /\ \A d \in Callers : ~Ending(d) /\ ~Ending(d)'
      /\ \A w \in Workers : pc'[w] \in Serving => pc[w] \in Serving
      /\ UNCHANGED <<CurrentJob, job>>
  BY NoneEnding, QJobStep DEF Inv, Ending, Serving, ReplyPcs
<1>2. /\ fate[nextid] = "unborn" /\ fate'[nextid] = "live"
      /\ \A j \in Jobs \ {nextid} : fate'[j] = fate[j]
      /\ nextid \in Jobs /\ nextid' = nextid + 1
  BY QJobStep, Constants DEF Inv, JobInv, QueueInv, TypeInv, TypeOK
<1>3. \A j \in Jobs : fate[j] # "unborn" => j < nextid
  BY <1>2, Constants DEF Inv, JobInv, QueueInv
<1>4. /\ DOMAIN queue' = 1 .. Len(queue) + 1
      /\ \A n \in 1 .. Len(queue) : queue'[n] = queue[n] /\ queue[n] \in Jobs /\ queue[n] < nextid
                                    /\ fate[queue[n]] = "live"
      /\ queue'[Len(queue) + 1] = nextid
      /\ DOMAIN queue = 1 .. Len(queue) /\ Len(queue) \in Nat
  <2>1. DOMAIN queue = 1 .. Len(queue) /\ Len(queue) \in Nat /\ queue \in Seq(Jobs)
    BY QueueDomain DEF Inv, TypeInv, TypeOK
  <2>2. /\ DOMAIN queue' = 1 .. Len(queue) + 1
        /\ \A n \in 1 .. Len(queue) : queue'[n] = queue[n]
        /\ queue'[Len(queue) + 1] = nextid
    <3>1. /\ queue' \in Seq(Jobs) /\ Len(queue') = Len(queue) + 1
          /\ \A n \in 1 .. Len(queue) : queue'[n] = queue[n]
          /\ queue'[Len(queue) + 1] = nextid
      BY <1>2, <2>1, QJobStep, AppendProperties DEF Inv
    <3> QED BY <3>1, LenProperties
  <2> QED BY <1>1, <1>3, <2>1, <2>2, QueueDomain DEF Inv, JobInv, QueueInv
<1>5. CurrentJob # None => CurrentJob \in Jobs /\ CurrentJob < nextid /\ fate[CurrentJob] = "live"
  BY <1>1, <1>3 DEF Inv, JobInv, HeldInv, TypeInv, TypeOK
<1>6. \A w \in Workers : pc[w] \in Serving => job[w] \in Jobs /\ job[w] < nextid /\ fate[job[w]] = "live"
  BY <1>3 DEF Inv, JobInv, HeldInv, TypeInv, ThreadInv, WorkerInv
<1>7. QueueInv'
  <2>1. \A j \in Jobs : (fate[j] = "unborn")' <=> j >= nextid'
    BY <1>2, Constants DEF Inv, JobInv, QueueInv
  <2>2. \A m, n \in DOMAIN queue' : m < n => queue'[m] < queue'[n]
    BY <1>2, <1>4, Constants DEF Inv, JobInv, QueueInv
  <2>3. ASSUME NEW n \in DOMAIN queue'
        PROVE  /\ queue'[n] \in Jobs /\ fate'[queue'[n]] = "live"
               /\ CurrentJob' # None => CurrentJob' < queue'[n]
               /\ \A w \in Workers : pc'[w] \in Serving => job'[w] < queue'[n]
    <3>1. CASE n = Len(queue) + 1
      BY <1>1, <1>2, <1>4, <1>5, <1>6, <3>1
    <3>2. CASE n # Len(queue) + 1
      <4>1. n \in 1 .. Len(queue)
        BY <1>4, <3>2
      <4>2. queue'[n] = queue[n] /\ queue[n] \in Jobs /\ fate'[queue[n]] = "live" /\ n \in DOMAIN queue
        BY <1>2, <1>4, <4>1
      <4> QED BY <1>1, <4>2 DEF Inv, JobInv, QueueInv
    <3> QED BY <3>1, <3>2
  <2> QED BY <2>1, <2>2, <2>3 DEF QueueInv
<1>8. HeldInv'
  BY <1>1, <1>2, <1>5, <1>6, Constants DEF Inv, JobInv, HeldInv
<1>9. AbortInv'
  BY <1>1 DEF AbortInv
<1> QED BY <1>7, <1>8, <1>9 DEF JobInv

LEMMA RemoveLastJobs ==
  ASSUME Inv, NEW c \in Callers, RemoveLast(c)
  PROVE  JobInv'
<1> DEFINE last == queue[Len(queue)]
<1>1. /\ \A d \in Callers : ~Ending(d) /\ ~Ending(d)'
      /\ \A w \in Workers : pc'[w] = pc[w]
      /\ UNCHANGED <<CurrentJob, job, nextid>>
  BY NoneEnding, RemoveLastStep, Constants DEF Inv, Ending, ReplyPcs, Moves
<1>2. /\ Len(queue) \in Nat /\ DOMAIN queue = 1 .. Len(queue) /\ Len(queue) \in DOMAIN queue
      /\ DOMAIN queue' = 1 .. Len(queue) - 1
      /\ \A n \in 1 .. Len(queue) - 1 : queue'[n] = queue[n]
      /\ \A n \in DOMAIN queue : queue[n] \in Jobs
  <2>1. queue \in Seq(Jobs) /\ queue # <<>> /\ queue' = SubSeq(queue, 1, Len(queue) - 1)
    BY RemoveLastStep DEF Inv, TypeInv, TypeOK
  <2>2. /\ queue' \in Seq(Jobs) /\ Len(queue') = Len(queue) - 1 /\ Len(queue) \in 1 .. Len(queue)
        /\ \A n \in 1 .. Len(queue) - 1 : queue'[n] = queue[n]
    BY <2>1, FrontType
  <2>3. DOMAIN queue' = 1 .. Len(queue')
    BY <2>2, LenProperties
  <2> QED BY <2>2, <2>3, QueueDomain DEF Inv
<1>3. /\ last \in Jobs /\ fate[last] # "unborn" /\ fate'[last] = "removed"
      /\ \A j \in Jobs \ {last} : fate'[j] = fate[j]
  BY <1>2, RemoveLastStep DEF Inv, JobInv, QueueInv, TypeInv, TypeOK
<1>4. /\ CurrentJob # None => CurrentJob \in Jobs /\ CurrentJob < last
      /\ \A w \in Workers : pc[w] \in Serving => job[w] \in Jobs /\ job[w] < last
      /\ \A n \in 1 .. Len(queue) - 1 : queue[n] \in Jobs /\ queue[n] < last
  <2>1. CurrentJob # None => CurrentJob \in Jobs /\ CurrentJob < last
    BY <1>2 DEF Inv, JobInv, QueueInv, TypeInv, TypeOK
  <2>2. \A w \in Workers : pc[w] \in Serving => job[w] \in Jobs /\ job[w] < last
    BY <1>2 DEF Inv, JobInv, QueueInv, TypeInv, ThreadInv, WorkerInv
  <2>3. \A n \in 1 .. Len(queue) - 1 : n \in DOMAIN queue /\ n < Len(queue)
    BY <1>2
  <2>4. \A n \in 1 .. Len(queue) - 1 : queue[n] \in Jobs /\ queue[n] < last
    BY <1>2, <2>3 DEF Inv, JobInv, QueueInv
  <2> QED BY <2>1, <2>2, <2>4
<1> HIDE DEF last
<1>5. /\ CurrentJob # None => fate'[CurrentJob] = fate[CurrentJob]
      /\ \A w \in Workers : pc[w] \in Serving => fate'[job[w]] = fate[job[w]]
      /\ \A n \in 1 .. Len(queue) - 1 : fate'[queue[n]] = fate[queue[n]]
  BY <1>3, <1>4, Earlier
<1>6. QueueInv'
  <2>1. \A j \in Jobs : (fate[j] = "unborn")' <=> j >= nextid'
    BY <1>1, <1>3 DEF Inv, JobInv, QueueInv
  <2>2. \A n \in DOMAIN queue' : n \in DOMAIN queue /\ queue'[n] = queue[n] /\ n \in 1 .. Len(queue) - 1
    BY <1>2
  <2>3. \A m, n \in DOMAIN queue' : m < n => queue'[m] < queue'[n]
    BY <2>2 DEF Inv, JobInv, QueueInv
  <2> QED BY <1>1, <1>5, <2>1, <2>2, <2>3 DEF Inv, JobInv, QueueInv
<1>7. HeldInv'
  BY <1>1, <1>5 DEF Inv, JobInv, HeldInv
<1>8. AbortInv'
  BY <1>1 DEF AbortInv
<1> QED BY <1>6, <1>7, <1>8 DEF JobInv

LEMMA NextJobJobs ==
  ASSUME Undisturbed, Inv, NEW w \in Workers, NextJob(w)
  PROVE  JobInv'
<1>1. /\ \A d \in Callers : ~Ending(d) /\ ~Ending(d)'
      /\ \A u \in Workers \ {w} : pc'[u] = pc[u] /\ job'[u] = job[u]
      /\ UNCHANGED <<CurrentJob, fate, nextid>>
  BY NoneEnding, NextJobStep, Constants DEF Inv, Ending, Moves
<1>2. CASE Moves(w, {"next"}, {"wait"}) /\ UNCHANGED <<queue, job>>
  BY <1>2, NextJobStep, MovesKeepsJobs, Constants DEF Inv, SameJobs, Serving, ReplyPcs
<1>3. CASE Moves(w, {"next"}, {"begin"}) /\ queue # <<>> /\ job'[w] = Head(queue) /\ queue' = Tail(queue)
  <2>1. /\ Len(queue) \in Nat /\ DOMAIN queue = 1 .. Len(queue) /\ 1 \in DOMAIN queue
        /\ \A n \in DOMAIN queue : queue[n] \in Jobs
        /\ job'[w] = queue[1]
        /\ \A n \in DOMAIN queue' : n + 1 \in DOMAIN queue /\ queue'[n] = queue[n + 1] /\ n \in Nat \ {0}
    <3>1. queue \in Seq(Jobs) /\ queue # <<>> /\ queue' = Tail(queue)
      BY <1>3 DEF Inv, TypeInv, TypeOK
    <3>2. /\ Head(queue) = queue[1] /\ Len(queue) \in Nat \ {0}
          /\ queue' \in Seq(Jobs) /\ Len(queue') = Len(queue) - 1
          /\ \A n \in 1 .. Len(queue') : queue'[n] = queue[n + 1]
      BY <3>1, HeadTailProperties, EmptySeq
    <3>3. DOMAIN queue' = 1 .. Len(queue')
      BY <3>2, LenProperties
    <3> QED BY <1>3, <3>2, <3>3, QueueDomain DEF Inv
  <2>2. /\ fate[queue[1]] = "live"
        /\ \A n \in DOMAIN queue' : queue'[n] \in Jobs /\ queue[1] < queue'[n]
        /\ CurrentJob # None => CurrentJob < queue[1]
        /\ \A u \in Workers : pc[u] \in Serving => job[u] < queue[1]
    BY <1>1, <2>1 DEF Inv, JobInv, QueueInv
  <2>3. QueueInv'
    <3>1. \A m, n \in DOMAIN queue' : m < n => queue'[m] < queue'[n]
      BY <2>1 DEF Inv, JobInv, QueueInv
    <3>2. ASSUME NEW n \in DOMAIN queue'
          PROVE  /\ fate'[queue'[n]] = "live"
                 /\ CurrentJob' # None => CurrentJob' < queue'[n]
                 /\ \A u \in Workers : pc'[u] \in Serving => job'[u] < queue'[n]
      BY <1>1, <2>1, <2>2 DEF Inv, JobInv, QueueInv
    <3> QED BY <1>1, <3>1, <3>2 DEF Inv, JobInv, QueueInv
  <2>4. HeldInv'
    <3>1. \A u \in Workers : pc[u] \in Serving => job[u] \in Jobs
      BY DEF Inv, TypeInv, ThreadInv, WorkerInv
    <3>2. \A u \in Workers \ {w} : pc'[u] \in Serving => job'[u] # job'[w]
      BY <1>1, <2>1, <2>2, <3>1, Constants
    <3> QED BY <1>1, <2>1, <2>2, <3>2 DEF Inv, JobInv, HeldInv
  <2>5. AbortInv'
    BY <1>1 DEF AbortInv
  <2> QED BY <2>3, <2>4, <2>5 DEF JobInv
<1> QED BY <1>2, <1>3, NextJobStep DEF Inv

LEMMA SetCurrentJobJobs ==
  ASSUME Undisturbed, Inv, NEW w \in Workers, SetCurrentJob(w)
  PROVE  JobInv'
<1>1. /\ pc[w] \in Serving /\ pc'[w] \in Serving
      /\ \A d \in Callers : ~Ending(d) /\ ~Ending(d)'
      /\ \A u \in Workers \ {w} : pc'[u] = pc[u]
      /\ CurrentJob' = job[w] /\ UNCHANGED <<queue, job, fate, nextid>>
  BY NoneEnding, SetCurrentJobStep, Constants DEF Inv, Ending, Moves, Serving, ReplyPcs
<1>2. QueueInv'
  BY <1>1 DEF Inv, JobInv, QueueInv
<1>3. HeldInv'
  BY <1>1 DEF Inv, JobInv, HeldInv
<1>4. AbortInv'
  BY <1>1 DEF AbortInv
<1> QED BY <1>2, <1>3, <1>4 DEF JobInv

LEMMA worker_finishJobs ==
  ASSUME Undisturbed, Inv, NEW w \in Workers, worker_finish(w)
  PROVE  JobInv'
<1>1. /\ pc[w] \in Serving /\ pc'[w] \notin Serving
      /\ \A d \in Callers : ~Ending(d) /\ ~Ending(d)'
      /\ \A u \in Workers \ {w} : pc'[u] = pc[u] /\ job'[u] = job[u]
      /\ CurrentJob' = None /\ UNCHANGED <<queue, nextid>>
  BY NoneEnding, worker_finishStep, Constants DEF Inv, Ending, Moves, Serving, ReplyPcs
<1>2. /\ job[w] \in Jobs /\ fate[job[w]] = "live" /\ fate'[job[w]] = "freed"
      /\ \A j \in Jobs \ {job[w]} : fate'[j] = fate[j]
  <2>1. job[w] \in Jobs /\ fate' = [fate EXCEPT ![job[w]] = "freed"]
    BY worker_finishStep DEF Inv
  <2>2. fate[job[w]] = "live"
    BY <1>1 DEF Inv, JobInv, HeldInv
  <2> QED BY <2>1, <2>2 DEF Inv, TypeInv, TypeOK
<1>3. /\ \A n \in DOMAIN queue : queue[n] \in Jobs /\ queue[n] # job[w]
      /\ \A u \in Workers \ {w} : pc[u] \in Serving => job[u] \in Jobs /\ job[u] # job[w]
  <2>1. \A n \in DOMAIN queue : queue[n] \in Jobs /\ job[w] < queue[n]
    BY <1>1, QueueDomain DEF Inv, JobInv, QueueInv
  <2>2. \A u \in Workers \ {w} : pc[u] \in Serving => job[u] \in Jobs /\ job[u] # job[w]
    BY <1>1 DEF Inv, JobInv, HeldInv, TypeInv, ThreadInv, WorkerInv
  <2> QED BY <1>2, <2>1, <2>2, Earlier
<1>4. QueueInv'
  BY <1>1, <1>2, <1>3 DEF Inv, JobInv, QueueInv
<1>5. HeldInv'
  BY <1>1, <1>2, <1>3 DEF Inv, JobInv, HeldInv
<1>6. AbortInv'
  BY <1>1 DEF AbortInv
<1> QED BY <1>4, <1>5, <1>6 DEF JobInv

(* What SrvAbort is going to abort: the current job, and those of the queue. *)
LEMMA Rest ==
  ASSUME Inv, NEW c \in Callers, \A d \in Callers : ~Ending(d)
  PROVE  LET rest == (IF CurrentJob = None THEN <<>> ELSE <<CurrentJob>>)
                       \o (IF flush[c] THEN queue ELSE <<>>)
         IN  /\ rest \in Seq(Jobs)
             /\ \A k \in DOMAIN rest :
                  /\ fate[rest[k]] = "live"
                  /\ \/ rest[k] = CurrentJob
                     \/ flush[c] /\ \E n \in DOMAIN queue : rest[k] = queue[n]
             /\ \A k, l \in DOMAIN rest : k < l => rest[k] < rest[l]
<1> DEFINE s == IF CurrentJob = None THEN <<>> ELSE <<CurrentJob>>
           t == IF flush[c] THEN queue ELSE <<>>
           rest == s \o t
<1>1. /\ s \in Seq(Jobs) /\ Len(s) \in Nat
      /\ CurrentJob = None => Len(s) = 0
      /\ CurrentJob # None => Len(s) = 1 /\ s[1] = CurrentJob
  <2>1. CASE CurrentJob = None
    BY <2>1, EmptySeq
  <2>2. CASE CurrentJob # None
    BY <2>2 DEF Inv, TypeInv, TypeOK
  <2> QED BY <2>1, <2>2
<1>2. /\ t \in Seq(Jobs) /\ Len(t) \in Nat
      /\ flush[c] => t = queue
      /\ ~flush[c] => Len(t) = 0
  <2>1. queue \in Seq(Jobs) /\ Len(queue) \in Nat
    BY QueueDomain DEF Inv, TypeInv, TypeOK
  <2> QED BY <2>1, EmptySeq
<1> HIDE DEF s, t
<1>3. /\ rest \in Seq(Jobs) /\ Len(rest) = Len(s) + Len(t) /\ DOMAIN rest = 1 .. Len(rest)
      /\ \A k \in 1 .. Len(rest) : rest[k] = IF k <= Len(s) THEN s[k] ELSE t[k - Len(s)]
  <2>1. /\ rest \in Seq(Jobs) /\ Len(rest) = Len(s) + Len(t)
        /\ \A k \in 1 .. Len(s) + Len(t) : rest[k] = IF k <= Len(s) THEN s[k] ELSE t[k - Len(s)]
    BY <1>1, <1>2, ConcatProperties
  <2>2. DOMAIN rest = 1 .. Len(rest)
    BY <2>1, LenProperties
  <2> QED BY <2>1, <2>2
<1> HIDE DEF rest
<1>4. CurrentJob # None => fate[CurrentJob] = "live" /\ CurrentJob \in Jobs
  BY DEF Inv, JobInv, HeldInv, TypeInv, TypeOK
<1>5. \A n \in DOMAIN queue : /\ queue[n] \in Jobs /\ fate[queue[n]] = "live"
                              /\ CurrentJob # None => CurrentJob < queue[n]
  BY QueueDomain DEF Inv, JobInv, QueueInv
<1>6. ASSUME NEW k \in DOMAIN rest
      PROVE  \/ k = 1 /\ CurrentJob # None /\ rest[k] = CurrentJob
             \/ /\ flush[c] /\ k > Len(s)
                /\ k - Len(s) \in DOMAIN queue /\ rest[k] = queue[k - Len(s)]
  <2>1. CASE k <= Len(s)
    BY <1>1, <1>3, <2>1
  <2>2. CASE k > Len(s)
    <3>1. flush[c] /\ k - Len(s) \in 1 .. Len(queue)
      <4>1. k - Len(s) \in 1 .. Len(t) /\ Len(t) # 0
        BY <1>1, <1>2, <1>3, <2>2
      <4>2. flush[c]
        BY <1>2, <4>1
      <4> QED BY <1>2, <4>1, <4>2
    <3> QED BY <1>1, <1>2, <1>3, <2>2, <3>1, QueueDomain DEF Inv
  <2> QED BY <1>1, <1>3, <2>1, <2>2
<1>7. ASSUME NEW k \in DOMAIN rest, NEW l \in DOMAIN rest, k < l
      PROVE  rest[k] < rest[l]
  <2>1. k \in Nat \ {0} /\ l \in Nat \ {0}
    BY <1>3
  <2>2. flush[c] /\ l - Len(s) \in DOMAIN queue /\ rest[l] = queue[l - Len(s)]
    BY <1>6, <1>7, <2>1
  <2>3. CASE k = 1 /\ CurrentJob # None /\ rest[k] = CurrentJob
    BY <1>5, <2>2, <2>3
  <2>4. CASE k - Len(s) \in DOMAIN queue /\ rest[k] = queue[k - Len(s)]
    <3>1. k - Len(s) < l - Len(s)
      BY <1>1, <1>7, <2>1
    <3> QED BY <2>2, <2>4, <3>1 DEF Inv, JobInv, QueueInv
  <2> QED BY <1>6, <2>3, <2>4
<1>8. \A k \in DOMAIN rest :
        /\ fate[rest[k]] = "live"
        /\ \/ rest[k] = CurrentJob
           \/ flush[c] /\ \E n \in DOMAIN queue : rest[k] = queue[n]
  BY <1>4, <1>5, <1>6
<1> QED BY <1>3, <1>7, <1>8 DEF rest, s, t

LEMMA SrvAbort_lockedJobs ==
  ASSUME Undisturbed, Inv, NEW c \in Callers, SrvAbort_locked(c)
  PROVE  JobInv'
<1> DEFINE rest == (IF CurrentJob = None THEN <<>> ELSE <<CurrentJob>>)
                     \o (IF flush[c] THEN queue ELSE <<>>)
<1>1. /\ Callers = {c} /\ \A w \in Workers : pc[w] \notin Serving
      /\ \A w \in Workers : pc'[w] = pc[w]
      /\ \A d \in Callers : ~Ending(d)
      /\ UNCHANGED <<queue, CurrentJob, flush, fate, nextid>>
  <2>1. pc[c] \in AbortPcs /\ \A w \in Workers : pc'[w] = pc[w]
    BY SrvAbort_lockedStep, Constants DEF Inv, Moves, AbortPcs
  <2> QED BY <2>1, Alone, NoneEnding, SrvAbort_lockedStep DEF Inv, Live, Serving, ReplyPcs
<1>2. /\ rest \in Seq(Jobs)
      /\ \A k \in DOMAIN rest :
           /\ fate[rest[k]] = "live"
           /\ \/ rest[k] = CurrentJob
              \/ flush[c] /\ \E n \in DOMAIN queue : rest[k] = queue[n]
      /\ \A k, l \in DOMAIN rest : k < l => rest[k] < rest[l]
  BY <1>1, Rest
<1>3. next_abort(c, rest)
  BY SrvAbort_lockedStep DEF Inv
<1> HIDE DEF rest
<1>4. aborting'[c] = rest
  BY <1>3 DEF next_abort, Inv, TypeInv, TypeOK
<1>5. QueueInv'
  BY <1>1 DEF Inv, JobInv, QueueInv
<1>6. HeldInv'
  BY <1>1 DEF Inv, JobInv, HeldInv
<1>7. AbortInv'
  BY <1>1, <1>2, <1>4 DEF AbortInv
<1> QED BY <1>5, <1>6, <1>7 DEF JobInv

LEMMA AbortJobJobs ==
  ASSUME Undisturbed, Inv, NEW c \in Callers, Moves(c, ReplyPcs, ReplyPcs \cup {"abort_end"}), AbortJob(c),
         UNCHANGED <<queue, CurrentJob, flush, nextid>>
  PROVE  JobInv'
<1>1. /\ Callers = {c} /\ \A w \in Workers : pc[w] \notin Serving /\ pc'[w] = pc[w]
      /\ Ending(c) /\ Ending(c)'
  <2>1. pc[c] \in AbortPcs /\ \A w \in Workers : pc'[w] = pc[w]
    BY Constants DEF Moves, AbortPcs
  <2> QED BY <2>1, Alone DEF Inv, Live, Serving, ReplyPcs, Ending, Moves
<1>2. /\ aborting[c] \in Seq(Jobs) /\ aborting[c] # <<>>
      /\ job[c] = Head(aborting[c]) /\ job[c] \in Jobs
      /\ fate' = [fate EXCEPT ![job[c]] = "freed"]
      /\ aborting'[c] = Tail(aborting[c])
  BY SendingReply, Constants DEF Moves, AbortJob, next_abort, Inv, TypeInv, TypeOK, ThreadInv, CallerInv
<1> DEFINE s == aborting[c]
<1>3. /\ 1 \in DOMAIN s /\ job[c] = s[1]
      /\ \A k \in DOMAIN aborting'[c] : k \in Nat \ {0} /\ k + 1 \in DOMAIN s /\ aborting'[c][k] = s[k + 1]
      /\ \A k \in DOMAIN s : s[k] \in Jobs
  <2>1. /\ Head(s) = s[1] /\ Len(s) \in Nat \ {0} /\ DOMAIN s = 1 .. Len(s)
        /\ Tail(s) \in Seq(Jobs) /\ Len(Tail(s)) = Len(s) - 1
        /\ \A k \in 1 .. Len(Tail(s)) : Tail(s)[k] = s[k + 1]
    BY <1>2, HeadTailProperties, EmptySeq, LenProperties
  <2>2. DOMAIN Tail(s) = 1 .. Len(Tail(s))
    BY <2>1, LenProperties
  <2> QED BY <1>2, <2>1, <2>2, ElementOfSeq
<1>4. /\ \A k \in DOMAIN s :
           /\ fate[s[k]] = "live"
           /\ \/ s[k] = CurrentJob
              \/ flush[c] /\ \E n \in DOMAIN queue : s[k] = queue[n]
      /\ \A k, l \in DOMAIN s : k < l => s[k] < s[l]
  BY <1>1 DEF Inv, JobInv, AbortInv
<1>5. /\ fate[job[c]] = "live" /\ fate'[job[c]] = "freed"
      /\ \A j \in Jobs \ {job[c]} : fate'[j] = fate[j]
  BY <1>2, <1>3, <1>4 DEF Inv, TypeInv, TypeOK
<1> HIDE DEF s
<1>6. QueueInv'
  <2>1. ASSUME NEW n \in DOMAIN queue
        PROVE  /\ fate'[queue[n]] # "unborn"
               /\ fate'[queue[n]] = "live" \/ flush[c]
    <3>0. queue[n] \in Jobs
      BY QueueDomain DEF Inv
    <3>1. CASE queue[n] # job[c]
      BY <1>1, <1>5, <3>0, <3>1 DEF Inv, JobInv, QueueInv
    <3>2. CASE queue[n] = job[c]
      <4>1. CurrentJob # None => CurrentJob \in Jobs /\ CurrentJob < queue[n]
        BY DEF Inv, JobInv, QueueInv, TypeInv, TypeOK
      <4>2. queue[n] # CurrentJob
        BY <3>0, <4>1, Earlier, Constants
      <4> QED BY <1>3, <1>4, <1>5, <3>2, <4>2
    <3> QED BY <3>1, <3>2
  <2>2. \A j \in Jobs : (fate[j] = "unborn")' <=> j >= nextid'
    BY <1>5 DEF Inv, JobInv, QueueInv
  <2> QED BY <1>1, <2>1, <2>2 DEF Inv, JobInv, QueueInv
<1>7. HeldInv'
  BY <1>1, <1>5 DEF Inv, JobInv, HeldInv, TypeInv, TypeOK
<1>8. AbortInv'
  <2>1. ASSUME NEW k \in DOMAIN aborting'[c]
        PROVE  /\ fate'[aborting'[c][k]] = "live"
               /\ \/ aborting'[c][k] = CurrentJob
                  \/ flush[c] /\ \E n \in DOMAIN queue : aborting'[c][k] = queue[n]
    <3>1. k + 1 \in DOMAIN s /\ 1 < k + 1 /\ aborting'[c][k] = s[k + 1]
      BY <1>3
    <3>2. s[k + 1] \in Jobs /\ s[1] \in Jobs /\ s[1] < s[k + 1]
      BY <1>3, <1>4, <3>1
    <3>3. fate'[s[k + 1]] = fate[s[k + 1]]
      BY <1>3, <1>5, <3>2, Earlier
    <3> QED BY <1>4, <3>1, <3>3
  <2>2. \A k, l \in DOMAIN aborting'[c] : k < l => aborting'[c][k] < aborting'[c][l]
    BY <1>3, <1>4
  <2> QED BY <1>1, <2>1, <2>2 DEF AbortInv
<1> QED BY <1>6, <1>7, <1>8 DEF JobInv

LEMMA SrvAbort_unlockJobs ==
  ASSUME Undisturbed, Inv, NEW c \in Callers, SrvAbort_unlock(c)
  PROVE  JobInv'
<1>1. /\ Callers = {c} /\ \A w \in Workers : pc[w] \notin Serving /\ pc'[w] = pc[w]
      /\ ~Ending(c)'
      /\ CurrentJob' = None /\ queue' = IF flush[c] THEN <<>> ELSE queue
      /\ UNCHANGED <<job, flush, fate, nextid>>
  <2>1. pc[c] \in AbortPcs /\ \A w \in Workers : pc'[w] = pc[w]
    BY SrvAbort_unlockStep, Constants DEF Inv, Moves, AbortPcs
  <2> QED BY <2>1, Alone, SrvAbort_unlockStep DEF Inv, Live, Serving, ReplyPcs, Ending, Moves
<1>2. QueueInv'
  <2>1. CASE flush[c]
    BY <1>1, <2>1 DEF Inv, JobInv, QueueInv
  <2>2. CASE ~flush[c]
    BY <1>1, <2>2 DEF Inv, JobInv, QueueInv
  <2> QED BY <2>1, <2>2
<1>3. HeldInv'
  BY <1>1 DEF Inv, JobInv, HeldInv
<1>4. AbortInv'
  BY <1>1 DEF AbortInv
<1> QED BY <1>2, <1>3, <1>4 DEF JobInv

LEMMA SrvAbortJobs ==
  ASSUME Inv, NEW c \in Callers, NEW p1 \in BOOLEAN, SrvAbort(c, p1)
  PROVE  JobInv'
<1>1. /\ UNCHANGED <<queue, CurrentJob, job, aborting, fate, nextid>>
      /\ ~Ending(c) /\ ~Ending(c)'
      /\ \A d \in Callers \ {c} : flush'[d] = flush[d] /\ pc'[d] = pc[d]
      /\ \A w \in Workers : pc'[w] = pc[w]
  BY SrvAbortStep, Constants DEF Inv, Moves, Ending, ReplyPcs
<1>2. \A d \in Callers : (Ending(d)' <=> Ending(d)) /\ (Ending(d) => flush'[d] = flush[d])
  BY <1>1 DEF Ending
<1> QED BY <1>1, <1>2, KeepsJobs DEF Inv

LEMMA NextJobs ==
  ASSUME Undisturbed, Inv, [Next]_vars
  PROVE  JobInv'
<1>1. ASSUME NEW t \in Threads, send_reply(t)
      PROVE  JobInv'
  <2>1. CASE t \in Callers /\ Moves(t, ReplyPcs, ReplyPcs \cup {"abort_end"}) /\ AbortJob(t)
    BY <1>1, <2>1, ReplyStep, AbortJobJobs DEF Inv
  <2>2. CASE t \in Callers /\ Moves(t, ReplyPcs, ReplyPcs) /\ SameJobs
    BY <2>2, MovesKeepsJobs DEF Inv
  <2>3. CASE t \in Workers /\ Moves(t, ReplyPcs, ReplyPcs \cup {"run", "finish"}) /\ SameJobs
    BY <2>3, MovesKeepsJobs DEF Inv, Serving
  <2> QED BY <1>1, <2>1, <2>2, <2>3, ReplyStep DEF Inv
<1>2. ASSUME NEW w \in Workers, worker_run(w) \/ log_line(w) \/ log_written(w) \/ task_done(w)
      PROVE  JobInv'
  <2>1. Moves(w, Serving \ {"begin"}, Serving \ {"begin"}) /\ SameJobs
    BY <1>2, ServingStep DEF Inv
  <2> QED BY <2>1, MovesKeepsJobs, Constants DEF Inv
<1>3. ASSUME NEW w \in Workers, worker_start(w)
      PROVE  JobInv'
  <2>1. Moves(w, {"start"}, {"next"}) /\ SameJobs
    BY <1>3, worker_startStep DEF Inv
  <2> QED BY <2>1, MovesKeepsJobs, Constants DEF Inv, Serving, ReplyPcs
<1>4. ASSUME NEW w \in Workers, cancelled(w)
      PROVE  JobInv'
  <2>1. Moves(w, Serving \cup {"wait"}, {"exit"}) /\ SameJobs
    BY <1>4, cancelledStep DEF Inv
  <2> QED BY <2>1, MovesKeepsJobs, Constants DEF Inv, Serving, ReplyPcs
<1>5. ASSUME NEW w \in Workers, WorkerExit(w)
      PROVE  JobInv'
  <2>1. Moves(w, {"exit"}, {"dead"}) /\ SameJobs
    BY <1>5, WorkerExitStep DEF Inv
  <2> QED BY <2>1, MovesKeepsJobs, Constants DEF Inv, Serving, ReplyPcs
<1>6. ASSUME NEW c \in Callers, UnlockQueue(c)
      PROVE  JobInv'
  <2>1. Moves(c, {"queued", "removed"}, {"start_worker", "idle"}) /\ SameJobs
    BY <1>6, UnlockQueueStep DEF Inv
  <2> QED BY <2>1, MovesKeepsJobs, Constants DEF Inv, ReplyPcs
<1>7. ASSUME NEW c \in Callers, StartWorker(c) \/ CONDITION_WAIT(c) \/ SrvSetLogging(c)
      PROVE  JobInv'
  <2>1. /\ SameJobs
        /\ \A d \in Callers : pc'[d] = pc[d] \/ (~Ending(d) /\ ~Ending(d)')
        /\ \A w \in Workers : pc'[w] \in Serving => pc[w] \in Serving
    <3>1. CASE StartWorker(c)
      BY <3>1, StartWorkerStep, Constants DEF Inv, Moves, Ending, Serving, ReplyPcs
    <3>2. CASE CONDITION_WAIT(c)
      BY <3>2, CONDITION_WAITStep, Constants DEF Inv, Moves, Ending, Serving, ReplyPcs
    <3>3. CASE SrvSetLogging(c)
      BY <3>3, SrvSetLoggingStep
    <3> QED BY <1>7, <3>1, <3>2, <3>3
  <2>2. \A d \in Callers : Ending(d)' <=> Ending(d)
    BY <2>1 DEF Ending
  <2> QED BY <2>1, <2>2, KeepsJobs DEF Inv, SameJobs
<1>8. ASSUME NEW c \in Callers, Request(c)
      PROVE  JobInv'
  BY <1>7, <1>8, QJobJobs, SrvAbortJobs, RemoveLastJobs DEF Request
<1>9. ASSUME NEW c \in Callers, CallerStep(c)
      PROVE  JobInv'
  BY <1>1, <1>6, <1>7, <1>9, SrvAbort_lockedJobs, SrvAbort_unlockJobs DEF CallerStep, Threads
<1>10. ASSUME NEW w \in Workers, WorkerStep(w)
       PROVE  JobInv'
  BY <1>1, <1>2, <1>3, <1>4, <1>5, <1>10, NextJobJobs, SetCurrentJobJobs, worker_finishJobs
     DEF WorkerStep, Threads
<1>11. CASE UNCHANGED vars
  BY <1>11, KeepsJobs DEF vars, Inv, Ending
<1> QED BY <1>8, <1>9, <1>10, <1>11 DEF Next

LEMMA InitJobs == Init => JobInv
<1> SUFFICES ASSUME Init PROVE JobInv
  OBVIOUS
<1>1. /\ \A c \in Callers : ~Ending(c)
      /\ \A w \in Workers : pc[w] \notin Serving
      /\ queue = <<>> /\ CurrentJob = None /\ nextid = 1
      /\ \A j \in Jobs : fate[j] = "unborn"
  BY Constants DEF Init, Ending, Serving, ReplyPcs
<1>2. \A j \in Jobs : j >= 1
  BY ServerType DEF Jobs
<1>3. QueueInv
  BY <1>1, <1>2 DEF QueueInv
<1> QED BY <1>1, <1>3 DEF JobInv, HeldInv, AbortInv

LEMMA Invariance == ASSUME Undisturbed PROVE Spec => []Inv
<1>1. Init => Inv
  BY InitType, InitControl, InitJobs DEF Inv
<1>2. Inv /\ [Next]_vars => Inv'
  BY NextType, NextControl, NextJobs DEF Inv
<1> QED BY <1>1, <1>2, PTL DEF Spec

(***************************************************************************)
(* No thread uses a job after FreeJob: neither the worker that is alive,    *)
(* nor SrvAbort in its list of jobs to abort, nor whoever next takes the    *)
(* lock and finds JobQueue and CurrentJob - in every interleaving of one    *)
(* client that queues, removes and aborts jobs with its workers, or of any  *)
(* number of clients that never abort.                                      *)
(***************************************************************************)
THEOREM OnlyLiveJobs == ASSUME Undisturbed PROVE Spec => []UsesLive
<1>1. Inv => UsesLive
  <2> SUFFICES ASSUME Inv PROVE UsesLive
    OBVIOUS
  <2>1. ASSUME NEW w \in Workers, job[w] # None, pc[w] \notin {"exit", "dead"}
        PROVE  fate[job[w]] = "live"
    <3>1. pc[w] \in Serving
      BY <2>1 DEF Inv, TypeInv, ThreadInv, WorkerInv, WorkerPcs, Serving
    <3> QED BY <3>1 DEF Inv, JobInv, HeldInv
  <2>2. ASSUME NEW c \in Callers, pc[c] \in ReplyPcs
        PROVE  fate[job[c]] = "live"
    <3>1. aborting[c] \in Seq(Jobs) /\ aborting[c] # <<>> /\ job[c] = Head(aborting[c])
      BY <2>2 DEF Inv, TypeInv, TypeOK, ThreadInv, CallerInv
    <3>2. 1 \in DOMAIN aborting[c] /\ job[c] = aborting[c][1]
      BY <3>1, HeadTailProperties, EmptySeq, LenProperties
    <3> QED BY <2>2, <3>2 DEF Inv, JobInv, AbortInv, Ending
  <2>3. ASSUME queueMutex = None
        PROVE  /\ \A n \in DOMAIN queue : fate[queue[n]] = "live"
               /\ CurrentJob # None => fate[CurrentJob] = "live"
    BY <2>3, NoneEnding DEF Inv, JobInv, QueueInv, HeldInv
  <2> QED BY <2>1, <2>2, <2>3 DEF UsesLive
<1> QED BY <1>1, Invariance, PTL

-----------------------------------------------------------------------------
(* The order of the jobs. *)

OneCaller == \E c \in Callers : Callers = {c}

Ended(j) == fate[j] \in {"freed", "removed"}
Queued(j) == \E n \in DOMAIN queue : queue[n] = j

Waiting == {"start", "next", "wait", "begin"}

(* CurrentJob is the job of the worker, also of one that was cancelled,     *)
(* until SrvAbort has aborted it.                                           *)
CurrentInv ==
  /\ \A w \in Workers :
       /\ pc[w] \in Waiting => CurrentJob = None
       /\ pc[w] \in Serving \ {"begin"} => CurrentJob = job[w]
  /\ CurrentJob # None =>
       \/ \E w \in Workers : Live(w)
       \/ \E c \in Callers : pc[c] \in AbortPcs \cup {"wait_reset"}

(* A job that is live is not lost. *)
KeptInv ==
  /\ \A j \in Jobs : fate[j] = "live" =>
       \/ Queued(j) \/ CurrentJob = j
       \/ \E w \in Workers : pc[w] \in Serving /\ job[w] = j
  /\ \A c \in Callers : Ending(c) =>
       \A j \in Jobs : fate[j] = "live" =>
         \/ \E k \in DOMAIN aborting[c] : aborting[c][k] = j
         \/ ~flush[c] /\ Queued(j)

OrderInv ==
  \A w \in Workers : pc[w] \in Serving => \A k \in Jobs : k < job[w] => Ended(k)

SerialInv == Inv /\ CurrentInv /\ KeptInv /\ OrderInv /\ OneAfterOther

LEMMA OneWorker ==
  ASSUME OneCaller, TypeInv, ControlInv
  PROVE  /\ \A u, w \in Workers : Live(u) /\ Live(w) => u = w
         /\ \A w \in Workers, c \in Callers : pc[w] = "exit" => pc[c] = "wait_reset"
         /\ \A w \in Workers, c \in Callers : pc[c] = "start_worker" /\ ~running => ~Live(w)
<1>1. PICK c \in Callers : Callers = {c}
  BY DEF OneCaller
<1>2. /\ \A w \in Workers :
           /\ Live(w) => w = Worker
           /\ pc[w] = "start" => pc[c] = "wait_set"
           /\ Live(w) /\ pc[w] # "start" => running
           /\ pc[w] = "exit" => pc[c] = "wait_reset"
      /\ \A d \in Callers : d = c
  BY <1>1 DEF ControlInv, SoleInv, Live
<1> QED BY <1>2

(* What a step does to the jobs that threads work on. *)
LEMMA TakenStep ==
  ASSUME TypeInv, Next
  PROVE  \A w \in Workers :
           \/ job'[w] = job[w] /\ (pc'[w] \in Serving => pc[w] \in Serving)
           \/ job'[w] = None /\ pc'[w] = "next"
           \/ NextJob(w) /\ pc'[w] = "begin"
<1> DEFINE Kept(w) == job'[w] = job[w] /\ (pc'[w] \in Serving => pc[w] \in Serving)
<1>1. ASSUME NEW t \in Threads, NEW P, NEW Q, Moves(t, P, Q), UNCHANGED job,
             t \in Callers \/ P \subseteq Serving \/ Q \cap Serving = {}
      PROVE  \A w \in Workers : Kept(w)
  BY <1>1, Constants DEF Moves
<1>2. ASSUME NEW t \in Threads, send_reply(t)
      PROVE  \A w \in Workers : Kept(w)
  <2>1. CASE t \in Workers
    <3>1. Moves(t, ReplyPcs, ReplyPcs \cup {"run", "finish"}) /\ UNCHANGED job
      BY <1>2, <2>1, ReplyStep, Constants DEF SameJobs
    <3> QED BY <1>1, <3>1 DEF Serving
  <2>2. CASE t \in Callers
    <3>1. \A w \in Workers : pc'[w] = pc[w] /\ job'[w] = job[w]
      BY <1>2, <2>2, ReplyStep, Constants DEF SameJobs, Moves, AbortJob, next_abort, TypeInv, TypeOK
    <3> QED BY <3>1
  <2> QED BY <2>1, <2>2 DEF Threads
<1>3. ASSUME NEW c \in Callers, Request(c) \/ CallerStep(c)
      PROVE  \A w \in Workers : Kept(w)
  <2>1. CASE QJob(c)
    BY <2>1, QJobStep DEF Serving, ReplyPcs
  <2>2. CASE StartWorker(c)
    BY <2>2, StartWorkerStep, Constants DEF SameJobs, Moves, Serving, ReplyPcs
  <2>3. CASE CONDITION_WAIT(c)
    BY <2>3, CONDITION_WAITStep, Constants DEF SameJobs, Moves
  <2>4. CASE SrvAbort_locked(c)
    <3>1. PICK rest : next_abort(c, rest)
      BY <2>4, SrvAbort_lockedStep
    <3>2. \A w \in Workers : job'[w] = job[w]
      BY <3>1, Constants DEF next_abort, TypeInv, TypeOK
    <3>3. \A w \in Workers : pc'[w] = pc[w]
      BY <2>4, SrvAbort_lockedStep, Constants DEF Moves
    <3> QED BY <3>2, <3>3
  <2>5. CASE SrvSetLogging(c)
    BY <2>5, SrvSetLoggingStep DEF SameJobs
  <2>6. CASE UnlockQueue(c) \/ SrvAbort_unlock(c) \/ RemoveLast(c)
    BY <2>6, UnlockQueueStep, SrvAbort_unlockStep, RemoveLastStep, Constants DEF SameJobs, Moves
  <2>7. ASSUME NEW p1 \in BOOLEAN, SrvAbort(c, p1)
        PROVE  \A w \in Workers : Kept(w)
    BY <2>7, SrvAbortStep, Constants DEF Moves
  <2>8. c \in Threads
    BY Constants
  <2> QED BY <1>2, <1>3, <2>1, <2>2, <2>3, <2>4, <2>5, <2>6, <2>7, <2>8 DEF Request, CallerStep
<1>4. ASSUME NEW w \in Workers, WorkerStep(w), ~NextJob(w), ~worker_finish(w)
      PROVE  \A u \in Workers : Kept(u)
  <2>0. w \in Threads
    BY Constants
  <2>1. CASE worker_run(w) \/ log_line(w) \/ log_written(w) \/ task_done(w)
    BY <1>1, <2>0, <2>1, ServingStep DEF SameJobs
  <2>2. CASE SetCurrentJob(w)
    BY <2>2, SetCurrentJobStep, Constants DEF Moves, Serving
  <2>3. CASE worker_start(w)
    BY <2>3, worker_startStep, Constants DEF SameJobs, Moves, Serving, ReplyPcs
  <2>4. CASE cancelled(w)
    BY <2>4, cancelledStep, Constants DEF SameJobs, Moves, Serving, ReplyPcs
  <2>5. CASE WorkerExit(w)
    BY <2>5, WorkerExitStep, Constants DEF SameJobs, Moves, Serving, ReplyPcs
  <2> QED BY <1>2, <1>4, <2>0, <2>1, <2>2, <2>3, <2>4, <2>5 DEF WorkerStep
<1>5. ASSUME NEW w \in Workers, NextJob(w)
      PROVE  \A u \in Workers : Kept(u) \/ (NextJob(u) /\ pc'[u] = "begin")
  BY <1>5, NextJobStep, Constants DEF Moves, Serving, ReplyPcs
<1>6. ASSUME NEW w \in Workers, worker_finish(w)
      PROVE  \A u \in Workers : Kept(u) \/ (job'[u] = None /\ pc'[u] = "next")
  BY <1>6, worker_finishStep, Constants DEF Moves
<1> QED BY <1>3, <1>4, <1>5, <1>6 DEF Next

(* Replies are only sent by threads that work on the job. *)
LEMMA RepliesStep ==
  ASSUME TypeInv, Next
  PROVE  UNCHANGED replies \/ \E t \in Threads : send_all(t)
<1>1. ASSUME NEW t \in Threads, send_reply(t)
      PROVE  UNCHANGED replies \/ send_all(t)
  BY <1>1 DEF send_reply, find_client, check_socket, open_socket, reply_sent, cleanup_client, jobVars
<1>2. ASSUME NEW c \in Callers, Request(c)
      PROVE  UNCHANGED replies
  BY <1>2 DEF Request, QJob, SrvAbort, RemoveLast, SrvSetLogging, jobVars
<1>3. ASSUME NEW c \in Callers, CallerStep(c)
      PROVE  UNCHANGED replies \/ send_all(c)
  BY <1>1, <1>3, Constants DEF CallerStep, UnlockQueue, StartWorker, CONDITION_WAIT, SrvAbort_locked,
     SrvAbort_unlock, jobVars
<1>4. ASSUME NEW w \in Workers, WorkerStep(w)
      PROVE  UNCHANGED replies \/ send_all(w)
  BY <1>1, <1>4, Constants DEF WorkerStep, worker_start, NextJob, SetCurrentJob, worker_run, log_line,
     log_written, task_done, worker_finish, cancelled, WorkerExit, jobVars
<1> QED BY <1>2, <1>3, <1>4, Constants DEF Next

(* A job that ended stays so. *)
LEMMA EndedStep ==
  ASSUME TypeInv, JobInv, Next
  PROVE  \A k \in Jobs : Ended(k) => Ended(k)'
<1> DEFINE Stays == \A k \in Jobs : Ended(k) => Ended(k)'
<1>0. ASSUME UNCHANGED fate PROVE Stays
  BY <1>0 DEF Ended
<1>1. ASSUME NEW j \in Jobs, NEW f \in {"freed", "removed"}, fate' = [fate EXCEPT ![j] = f]
      PROVE  Stays
  BY <1>1 DEF Ended, TypeInv, TypeOK
<1>2. ASSUME NEW t \in Threads, send_reply(t)
      PROVE  Stays
  <2>1. CASE UNCHANGED fate
    BY <1>0, <2>1
  <2>2. CASE AbortJob(t) /\ pc[t] \in ReplyPcs
    BY <1>1, <2>2, SendingReply DEF AbortJob
  <2> QED BY <1>2, <2>1, <2>2, ReplyStep DEF SameJobs, Moves
<1>3. ASSUME NEW c \in Callers, QJob(c)
      PROVE  Stays
  <2>1. nextid \in Jobs /\ fate[nextid] = "unborn" /\ fate' = [fate EXCEPT ![nextid] = "live"]
    <3>1. nextid \in Jobs /\ fate' = [fate EXCEPT ![nextid] = "live"]
      BY <1>3, QJobStep
    <3>2. nextid >= nextid
      BY <3>1, Constants
    <3> QED BY <3>1, <3>2 DEF JobInv, QueueInv
  <2> QED BY <2>1 DEF Ended, TypeInv, TypeOK
<1>4. ASSUME NEW c \in Callers, RemoveLast(c)
      PROVE  Stays
  <2>1. queue[Len(queue)] \in Jobs
    BY <1>4, RemoveLastStep, FrontType DEF TypeInv, TypeOK
  <2> QED BY <1>1, <1>4, <2>1, RemoveLastStep
<1>5. ASSUME NEW c \in Callers, Request(c)
      PROVE  Stays
  <2>1. CASE SrvAbort(c, TRUE) \/ SrvAbort(c, FALSE) \/ SrvSetLogging(c)
    BY <1>0, <2>1, SrvAbortStep, SrvSetLoggingStep DEF SameJobs
  <2> QED BY <1>3, <1>4, <1>5, <2>1 DEF Request
<1>6. ASSUME NEW c \in Callers, CallerStep(c)
      PROVE  Stays
  <2>1. CASE \/ UnlockQueue(c) \/ StartWorker(c) \/ CONDITION_WAIT(c) \/ SrvAbort_locked(c)
             \/ SrvAbort_unlock(c)
    BY <1>0, <2>1, UnlockQueueStep, StartWorkerStep, CONDITION_WAITStep, SrvAbort_lockedStep,
       SrvAbort_unlockStep DEF SameJobs
  <2> QED BY <1>2, <1>6, <2>1, Constants DEF CallerStep
<1>7. ASSUME NEW w \in Workers, WorkerStep(w)
      PROVE  Stays
  <2>1. CASE worker_finish(w)
    BY <1>1, <2>1, worker_finishStep
  <2>2. CASE worker_run(w) \/ log_line(w) \/ log_written(w) \/ task_done(w)
    BY <1>0, <2>2, ServingStep DEF SameJobs
  <2>3. CASE worker_start(w) \/ NextJob(w) \/ SetCurrentJob(w) \/ cancelled(w) \/ WorkerExit(w)
    BY <1>0, <2>3, worker_startStep, NextJobStep, SetCurrentJobStep, cancelledStep, WorkerExitStep
       DEF SameJobs
  <2> QED BY <1>2, <1>7, <2>1, <2>2, <2>3, Constants DEF WorkerStep
<1> QED BY <1>5, <1>6, <1>7 DEF Next

(* Jobs are numbered in the order in which they are queued. *)
LEMMA BornInOrder ==
  ASSUME Inv, NEW j \in Jobs, NEW k \in Jobs, k < j, fate[j] # "unborn"
  PROVE  fate[k] # "unborn"
<1>1. j \in Nat /\ k \in Nat
  BY Constants
<1>2. nextid \in 1 .. MaxJobs + 1
  BY DEF Inv, TypeInv, TypeOK
<1>3. nextid \in Nat
  BY <1>2, ServerType
<1>4. ~(j >= nextid)
  BY DEF Inv, JobInv, QueueInv
<1>5. ~(k >= nextid)
  BY <1>1, <1>3, <1>4
<1> QED BY <1>5 DEF Inv, JobInv, QueueInv

(* Nothing older than the first job of the queue is left when a worker     *)
(* takes it.                                                                *)
LEMMA FirstOrder ==
  ASSUME OneCaller, SerialInv, NEW w \in Workers, pc[w] = "next", queueMutex = None, queue # <<>>,
         NEW k \in Jobs, k < queue[1]
  PROVE  Ended(k)
<1>1. 1 \in DOMAIN queue /\ \A n \in DOMAIN queue : queue[n] \in Jobs /\ n \in Nat /\ n >= 1
  <2>1. /\ queue \in Seq(Jobs) /\ DOMAIN queue = 1 .. Len(queue) /\ Len(queue) \in Nat
        /\ \A n \in DOMAIN queue : queue[n] \in Jobs
    BY QueueDomain DEF SerialInv, Inv, TypeInv, TypeOK
  <2>2. Len(queue) # 0
    BY <2>1, EmptySeq
  <2> QED BY <2>1, <2>2
<1>2. fate[k] # "unborn"
  <2>1. queue[1] \in Jobs /\ fate[queue[1]] # "unborn"
    BY <1>1 DEF SerialInv, Inv, JobInv, QueueInv
  <2> QED BY <2>1, BornInOrder DEF SerialInv
<1>3. fate[k] # "live"
  <2> SUFFICES ASSUME fate[k] = "live" PROVE FALSE
    OBVIOUS
  <2>1. CurrentJob = None /\ None \notin Jobs
    BY Constants DEF SerialInv, CurrentInv, Waiting
  <2>2. ASSUME NEW u \in Workers
        PROVE  pc[u] \notin Serving
    BY OneWorker DEF SerialInv, Inv, Live, Serving, ReplyPcs
  <2>3. PICK n \in DOMAIN queue : queue[n] = k
    BY <2>1, <2>2 DEF SerialInv, KeptInv, Queued
  <2>4. n # 1
    BY <1>1, <2>3, Earlier
  <2>5. queue[1] < queue[n]
    BY <1>1, <2>4 DEF SerialInv, Inv, JobInv, QueueInv
  <2>6. queue[1] \in Nat /\ queue[n] \in Nat /\ k \in Nat
    BY <1>1, Constants
  <2> QED BY <2>3, <2>5, <2>6
<1> QED BY <1>2, <1>3 DEF Ended, SerialInv, Inv, TypeInv, TypeOK

(* Nor older than the job an abort has come to. *)
LEMMA AbortOrder ==
  ASSUME OneCaller, SerialInv, NEW c \in Callers, pc[c] \in ReplyPcs, NEW k \in Jobs, k < job[c]
  PROVE  Ended(k)
<1> DEFINE s == aborting[c]
<1>1. s \in Seq(Jobs) /\ s # <<>> /\ job[c] = Head(s) /\ Ending(c) /\ job[c] \in Jobs
  BY SendingReply, Constants DEF SerialInv, Inv, TypeInv, TypeOK, ThreadInv, CallerInv, Ending
<1>2. 1 \in DOMAIN s /\ job[c] = s[1] /\ \A l \in DOMAIN s : s[l] \in Jobs /\ l \in Nat /\ l >= 1
  <2>1. Head(s) = s[1] /\ DOMAIN s = 1 .. Len(s) /\ Len(s) \in Nat \ {0}
    BY <1>1, HeadTailProperties, LenProperties, EmptySeq
  <2> QED BY <1>1, <2>1, ElementOfSeq
<1>3. /\ fate[s[1]] = "live"
      /\ \/ s[1] = CurrentJob
         \/ flush[c] /\ \E n \in DOMAIN queue : s[1] = queue[n]
      /\ \A l \in DOMAIN s : 1 < l => s[1] < s[l]
  BY <1>1, <1>2 DEF SerialInv, Inv, JobInv, AbortInv
<1> HIDE DEF s
<1>4. fate[k] # "unborn"
  <2>1. fate[job[c]] # "unborn"
    BY <1>2, <1>3
  <2> QED BY <1>1, <2>1, BornInOrder DEF SerialInv
<1>5. fate[k] # "live"
  <2> SUFFICES ASSUME fate[k] = "live" PROVE FALSE
    OBVIOUS
  <2>1. CASE \E l \in DOMAIN s : s[l] = k
    <3>1. PICK l \in DOMAIN s : s[l] = k
      BY <2>1
    <3>2. l # 1
      BY <1>2, <3>1, Earlier
    <3>3. s[1] < s[l] /\ s[1] \in Nat /\ s[l] \in Nat
      <4>1. 1 < l
        BY <1>2, <3>1, <3>2
      <4> QED BY <1>2, <1>3, <3>1, <4>1, Constants
    <3> QED BY <1>2, <3>1, <3>3
  <2>2. CASE ~flush[c] /\ Queued(k)
    <3>1. PICK n \in DOMAIN queue : queue[n] = k
      BY <2>2 DEF Queued
    <3>2. CurrentJob = s[1] /\ CurrentJob # None
      BY <1>2, <1>3, <2>2, Constants
    <3>3. s[1] < k
      BY <3>1, <3>2 DEF SerialInv, Inv, JobInv, QueueInv
    <3>4. s[1] \in Nat /\ k \in Nat
      BY <1>2, Constants
    <3> QED BY <1>2, <3>3, <3>4
  <2> QED BY <1>1, <2>1, <2>2 DEF SerialInv, KeptInv, s
<1> QED BY <1>4, <1>5 DEF Ended, SerialInv, Inv, TypeInv, TypeOK

LEMMA NextOrder ==
  ASSUME OneCaller, SerialInv, Next
  PROVE  OrderInv'
<1> SUFFICES ASSUME NEW w \in Workers, pc'[w] \in Serving, NEW k \in Jobs, k < job'[w]
             PROVE  Ended(k)'
  BY DEF OrderInv
<1>1. CASE job'[w] = job[w] /\ pc[w] \in Serving
  BY <1>1, EndedStep DEF SerialInv, Inv, OrderInv
<1>2. CASE NextJob(w) /\ pc'[w] = "begin"
  <2>1. queueMutex = None /\ pc[w] = "next" /\ queue # <<>> /\ job'[w] = Head(queue)
    BY <1>2, NextJobStep, Constants DEF SerialInv, Inv, Moves
  <2>2. Head(queue) = queue[1]
    BY <2>1, HeadTailProperties DEF SerialInv, Inv, TypeInv, TypeOK
  <2> QED BY <2>1, <2>2, FirstOrder, EndedStep DEF SerialInv, Inv
<1> QED BY <1>1, <1>2, TakenStep DEF SerialInv, Inv, Serving, ReplyPcs

LEMMA NextOneAfterOther ==
  ASSUME OneCaller, SerialInv, Next
  PROVE  OneAfterOther'
<1> SUFFICES ASSUME NEW j \in Jobs, NEW k \in Jobs, k < j, Begun(j)'
             PROVE  Ended(k)
  BY EndedStep DEF OneAfterOther, Ended, SerialInv, Inv
<1>1. CASE Begun(j)
  BY <1>1 DEF SerialInv, OneAfterOther, Ended
<1>2. ASSUME NEW t \in Threads, pc[t] \in ReplyPcs, job[t] = j
      PROVE  Ended(k)
  BY <1>2, AbortOrder DEF Threads, SerialInv, OrderInv, Serving
<1>3. CASE replies'[j] # <<>>
  <2>1. CASE UNCHANGED replies
    BY <1>1, <1>3, <2>1 DEF Begun
  <2>2. ASSUME NEW t \in Threads, send_all(t), job[t] # j
        PROVE  Begun(j)
    <3>1. replies'[j] = replies[j]
      BY <2>2 DEF send_all, SerialInv, Inv, TypeInv, TypeOK
    <3> QED BY <1>3, <3>1 DEF Begun
  <2>3. \A t \in Threads : send_all(t) => pc[t] \in ReplyPcs
    BY DEF send_all, ReplyPcs
  <2> QED BY <1>1, <1>2, <2>1, <2>2, <2>3, RepliesStep DEF SerialInv, Inv
<1>4. ASSUME NEW w \in Workers, job'[w] = j, pc'[w] # "begin"
      PROVE  Ended(k)
  <2>1. job[w] = j
    BY <1>4, TakenStep, Constants DEF SerialInv, Inv
  <2>2. CASE pc[w] = "begin"
    BY <2>1, <2>2 DEF SerialInv, OrderInv, Serving
  <2>3. CASE pc[w] # "begin"
    BY <1>1, <2>1, <2>3 DEF Begun
  <2> QED BY <2>2, <2>3
<1> QED BY <1>3, <1>4 DEF Begun

LEMMA KeepsCurrent ==
  ASSUME CurrentInv, UNCHANGED CurrentJob,
         \A w \in Workers :
           /\ Live(w) => Live(w)'
           /\ \/ pc'[w] = pc[w] /\ job'[w] = job[w]
              \/ pc[w] \in Waiting /\ pc'[w] \in Waiting
              \/ pc[w] \in Serving \ {"begin"} /\ pc'[w] \in Serving \ {"begin"} /\ job'[w] = job[w]
              \/ pc'[w] \in {"exit", "dead"},
         \A c \in Callers : pc[c] \in AbortPcs \cup {"wait_reset"} => pc'[c] \in AbortPcs \cup {"wait_reset"}
  PROVE  CurrentInv'
<1>1. ASSUME NEW w \in Workers
      PROVE  /\ pc'[w] \in Waiting => CurrentJob' = None
             /\ pc'[w] \in Serving \ {"begin"} => CurrentJob' = job'[w]
  BY <1>1 DEF CurrentInv, Waiting, Serving, ReplyPcs
<1>2. CurrentJob' # None => \/ \E w \in Workers : Live(w)'
                            \/ \E c \in Callers : pc'[c] \in AbortPcs \cup {"wait_reset"}
  BY DEF CurrentInv
<1> QED BY <1>1, <1>2 DEF CurrentInv

LEMMA NextCurrent ==
  ASSUME OneCaller, SerialInv, Next
  PROVE  CurrentInv'
<1> DEFINE Steady(w) == pc'[w] = pc[w] /\ job'[w] = job[w]
<1>1. ASSUME NEW w \in Workers, NEW P, NEW Q, Moves(w, P, Q), UNCHANGED <<CurrentJob, job>>,
             P \cup Q \subseteq Waiting \/ P \cup Q \subseteq Serving \ {"begin"}
      PROVE  CurrentInv'
  <2>1. /\ \A u \in Workers \ {w} : Steady(u)
        /\ \A c \in Callers : pc'[c] = pc[c]
    BY <1>1, Constants DEF Moves
  <2>2. Live(w)'
    BY <1>1 DEF Moves, Live, Waiting, Serving, ReplyPcs
  <2> QED BY <1>1, <2>1, <2>2, KeepsCurrent DEF SerialInv, Moves, Live
<1>2. ASSUME NEW c \in Callers, UNCHANGED CurrentJob, \A w \in Workers : Steady(w),
             \A d \in Callers \ {c} : pc'[d] = pc[d],
             pc[c] \in AbortPcs \cup {"wait_reset"} => pc'[c] \in AbortPcs \cup {"wait_reset"}
      PROVE  CurrentInv'
  BY <1>2, KeepsCurrent DEF SerialInv, Live
<1>3. ASSUME NEW t \in Threads, send_reply(t)
      PROVE  CurrentInv'
  <2>1. CASE t \in Workers
    <3>1. Moves(t, ReplyPcs, ReplyPcs \cup {"run", "finish"}) /\ UNCHANGED <<CurrentJob, job>>
      BY <1>3, <2>1, ReplyStep, Constants DEF SameJobs, SerialInv, Inv
    <3> QED BY <1>1, <2>1, <3>1 DEF Serving, ReplyPcs
  <2>2. CASE t \in Callers
    <3>1. Moves(t, ReplyPcs, ReplyPcs \cup {"abort_end"}) /\ UNCHANGED CurrentJob
      BY <1>3, <2>2, ReplyStep, Constants DEF SerialInv, Inv, Moves
    <3>2. \A w \in Workers : Steady(w)
      BY <1>3, <2>2, <3>1, ReplyStep, Constants
      DEF SameJobs, Moves, AbortJob, next_abort, SerialInv, Inv, TypeInv, TypeOK
    <3> QED BY <1>2, <2>2, <3>1, <3>2, Constants DEF Moves, AbortPcs
  <2> QED BY <2>1, <2>2 DEF Threads
<1>4. ASSUME NEW c \in Callers, QJob(c)
      PROVE  CurrentInv'
  <2>1. \A w \in Workers : Steady(w) \/ (pc[w] = "wait" /\ pc'[w] = "next")
    BY <1>4, QJobStep DEF SerialInv, Inv
  <2>2. \A w \in Workers : Live(w) => Live(w)'
    BY <2>1 DEF Live
  <2>3. UNCHANGED CurrentJob /\ pc[c] = "idle" /\ \A d \in Callers \ {c} : pc'[d] = pc[d]
    BY <1>4, QJobStep DEF SerialInv, Inv
  <2> QED BY <2>1, <2>2, <2>3, KeepsCurrent DEF SerialInv, Waiting, AbortPcs, ReplyPcs
<1>5. ASSUME NEW c \in Callers, NEW p1 \in BOOLEAN, SrvAbort(c, p1)
      PROVE  CurrentInv'
  BY <1>2, <1>5, SrvAbortStep, Constants DEF SerialInv, Inv, Moves, AbortPcs, ReplyPcs
<1>6. ASSUME NEW c \in Callers, RemoveLast(c) \/ UnlockQueue(c)
      PROVE  CurrentInv'
  BY <1>2, <1>6, RemoveLastStep, UnlockQueueStep, Constants
  DEF SerialInv, Inv, Moves, SameJobs, AbortPcs, ReplyPcs
<1>7. ASSUME NEW c \in Callers, CONDITION_WAIT(c) \/ SrvSetLogging(c)
      PROVE  CurrentInv'
  BY <1>2, <1>7, CONDITION_WAITStep, SrvSetLoggingStep, Constants
  DEF SerialInv, Inv, Moves, SameJobs, AbortPcs, ReplyPcs
<1>8. ASSUME NEW c \in Callers, SrvAbort_locked(c)
      PROVE  CurrentInv'
  <2>1. PICK rest : next_abort(c, rest)
    BY <1>8, SrvAbort_lockedStep DEF SerialInv, Inv
  <2>2. \A w \in Workers : job'[w] = job[w]
    BY <2>1, Constants DEF next_abort, SerialInv, Inv, TypeInv, TypeOK
  <2>3. Moves(c, {"abort"}, {"abort_end", "find"}) /\ UNCHANGED CurrentJob
    BY <1>8, SrvAbort_lockedStep DEF SerialInv, Inv
  <2> QED BY <1>2, <2>2, <2>3, Constants DEF Moves, AbortPcs, ReplyPcs
<1>9. ASSUME NEW c \in Callers, SrvAbort_unlock(c)
      PROVE  CurrentInv'
  <2>1. CurrentJob' = None /\ pc[c] \in AbortPcs /\ \A w \in Workers : pc'[w] = pc[w]
    BY <1>9, SrvAbort_unlockStep, Constants DEF SerialInv, Inv, Moves, AbortPcs
  <2>2. \A w \in Workers : ~Live(w)
    BY <2>1, Alone DEF OneCaller, Undisturbed, SerialInv, Inv
  <2> QED BY <2>1, <2>2 DEF CurrentInv, Live, Serving, ReplyPcs, Waiting
<1>10. ASSUME NEW c \in Callers, StartWorker(c)
       PROVE  CurrentInv'
  <2>1. CASE Moves(c, {"start_worker"}, {"idle"})
    BY <1>2, <1>10, <2>1, StartWorkerStep, Constants DEF SerialInv, Inv, Moves, SameJobs, AbortPcs, ReplyPcs
  <2>2. CASE ~Moves(c, {"start_worker"}, {"idle"})
    <3>1. ~running /\ pc[c] = "start_worker" /\ UNCHANGED <<CurrentJob, job>>
      BY <1>10, <2>2, StartWorkerStep DEF SerialInv, Inv, SameJobs
    <3>2. PICK w \in Workers : pc'[w] = "start" /\ \A t \in Threads \ {c, w} : pc'[t] = pc[t]
      BY <1>10, <2>2, StartWorkerStep DEF SerialInv, Inv
    <3>3. \A u \in Workers : ~Live(u)
      BY <3>1, OneWorker DEF SerialInv, Inv
    <3>4. \A d \in Callers : d = c
      BY DEF OneCaller
    <3>5. CurrentJob = None
      BY <3>1, <3>3, <3>4 DEF SerialInv, CurrentInv, AbortPcs, ReplyPcs
    <3>6. \A u \in Workers : pc'[u] \notin Serving \ {"begin"}
      BY <3>2, <3>3, Constants DEF Live, Serving, ReplyPcs
    <3> QED BY <3>1, <3>5, <3>6 DEF CurrentInv
  <2> QED BY <2>1, <2>2
<1>11. ASSUME NEW w \in Workers, worker_start(w)
       PROVE  CurrentInv'
  BY <1>1, <1>11, worker_startStep DEF SerialInv, Inv, SameJobs, Waiting
<1>12. ASSUME NEW w \in Workers, NextJob(w)
       PROVE  CurrentInv'
  <2>1. /\ pc[w] = "next" /\ pc'[w] \in {"begin", "wait"} /\ UNCHANGED CurrentJob
        /\ \A u \in Workers \ {w} : Steady(u)
        /\ \A c \in Callers : pc'[c] = pc[c]
    BY <1>12, NextJobStep, Constants DEF SerialInv, Inv, Moves
  <2>2. pc[w] \in Waiting /\ pc'[w] \in Waiting /\ Live(w)'
    BY <2>1 DEF Waiting, Live
  <2> QED BY <2>1, <2>2, KeepsCurrent DEF SerialInv, Live
<1>13. ASSUME NEW w \in Workers, worker_run(w) \/ log_line(w) \/ log_written(w) \/ task_done(w)
       PROVE  CurrentInv'
  BY <1>1, <1>13, ServingStep DEF SerialInv, Inv, SameJobs
<1>14. ASSUME NEW w \in Workers, Live(w), NEW Q, Moves(w, {pc[w]}, Q)
       PROVE  \A u \in Workers \ {w} : pc'[u] \in {"new", "dead"}
  BY <1>14, OneWorker, Constants DEF SerialInv, Inv, Moves, Live
<1>15. ASSUME NEW w \in Workers, SetCurrentJob(w)
       PROVE  CurrentInv'
  <2>1. Moves(w, {pc[w]}, {"find", "run"}) /\ pc[w] = "begin" /\ CurrentJob' = job[w] /\ UNCHANGED job
    BY <1>15, SetCurrentJobStep DEF SerialInv, Inv, Moves
  <2>2. \A u \in Workers \ {w} : pc'[u] \in {"new", "dead"}
    BY <1>14, <2>1 DEF Live
  <2>3. Live(w)' /\ pc'[w] \notin Waiting
    BY <2>1 DEF Live, Moves, Waiting
  <2> QED BY <2>1, <2>2, <2>3 DEF CurrentInv, Waiting, Serving, ReplyPcs
<1>16. ASSUME NEW w \in Workers, worker_finish(w)
       PROVE  CurrentInv'
  <2>1. Moves(w, {pc[w]}, {"next"}) /\ pc[w] = "finish" /\ CurrentJob' = None
    BY <1>16, worker_finishStep DEF SerialInv, Inv, Moves
  <2>2. \A u \in Workers \ {w} : pc'[u] \in {"new", "dead"}
    BY <1>14, <2>1 DEF Live
  <2> QED BY <2>1, <2>2 DEF CurrentInv, Moves, Waiting, Serving, ReplyPcs
<1>17. ASSUME NEW w \in Workers, cancelled(w)
       PROVE  CurrentInv'
  <2>1. /\ pc'[w] = "exit" /\ UNCHANGED <<CurrentJob, job>>
        /\ \A u \in Workers \ {w} : Steady(u)
        /\ \A c \in Callers : pc'[c] = pc[c]
    BY <1>17, cancelledStep, Constants DEF SerialInv, Inv, SameJobs, Moves
  <2> QED BY <2>1, KeepsCurrent DEF SerialInv, Live
<1>18. ASSUME NEW w \in Workers, WorkerExit(w)
       PROVE  CurrentInv'
  <2>1. /\ pc[w] = "exit" /\ pc'[w] = "dead" /\ UNCHANGED <<CurrentJob, job>>
        /\ \A u \in Workers \ {w} : Steady(u)
        /\ \A c \in Callers : pc'[c] = pc[c]
    BY <1>18, WorkerExitStep, Constants DEF SerialInv, Inv, SameJobs, Moves
  <2>2. \A c \in Callers : pc'[c] = "wait_reset"
    BY <2>1, OneWorker DEF SerialInv, Inv
  <2>3. \E c \in Callers : pc'[c] = "wait_reset"
    BY <2>2 DEF OneCaller
  <2> QED BY <2>1, <2>3 DEF SerialInv, CurrentInv, Waiting, Serving, ReplyPcs
<1>19. ASSUME NEW c \in Callers, Request(c) \/ CallerStep(c)
       PROVE  CurrentInv'
  BY <1>3, <1>4, <1>5, <1>6, <1>7, <1>8, <1>9, <1>10, <1>19, Constants DEF Request, CallerStep
<1>20. ASSUME NEW w \in Workers, WorkerStep(w)
       PROVE  CurrentInv'
  BY <1>3, <1>11, <1>12, <1>13, <1>15, <1>16, <1>17, <1>18, <1>20, Constants DEF WorkerStep
<1> QED BY <1>19, <1>20 DEF Next

LEMMA KeepsKept ==
  ASSUME KeptInv, UNCHANGED <<queue, CurrentJob, aborting, fate>>,
         \A w \in Workers : pc[w] \in Serving => pc'[w] \in Serving /\ job'[w] = job[w],
         \A c \in Callers : Ending(c)' => Ending(c) /\ flush'[c] = flush[c]
  PROVE  KeptInv'
<1>1. \A j \in Jobs : Queued(j)' <=> Queued(j)
  BY DEF Queued
<1> QED BY <1>1 DEF KeptInv

LEMMA MovesKeepsKept ==
  ASSUME KeptInv, SameJobs, NEW t \in Threads, NEW P, NEW Q, Moves(t, P, Q),
         \/ t \in Callers /\ Q \cap (ReplyPcs \cup {"abort_end"}) = {}
         \/ t \in Callers /\ P \cup Q \subseteq ReplyPcs
         \/ t \in Workers /\ (Q \subseteq Serving \/ P \cap Serving = {})
  PROVE  KeptInv'
<1>1. /\ \A c \in Callers : Ending(c)' => Ending(c)
      /\ \A w \in Workers : pc[w] \in Serving => pc'[w] \in Serving
  BY Constants DEF Moves, Ending
<1> QED BY <1>1, KeepsKept DEF SameJobs

LEMMA QJobKept ==
  ASSUME OneCaller, SerialInv, NEW c \in Callers, QJob(c)
  PROVE  KeptInv'
<1>1. /\ \A d \in Callers : ~Ending(d)'
      /\ \A w \in Workers : pc[w] \in Serving => pc'[w] \in Serving /\ job'[w] = job[w]
      /\ UNCHANGED CurrentJob
  BY NoneEnding, QJobStep DEF SerialInv, Inv, Ending, Serving, ReplyPcs
<1>2. nextid \in Jobs /\ \A j \in Jobs \ {nextid} : fate'[j] = fate[j]
  BY QJobStep DEF SerialInv, Inv, TypeInv, TypeOK
<1>3. \A j \in Jobs : Queued(j) \/ j = nextid => Queued(j)'
  <2>1. queue \in Seq(Jobs) /\ DOMAIN queue = 1 .. Len(queue) /\ Len(queue) \in Nat
    BY QueueDomain DEF SerialInv, Inv, TypeInv, TypeOK
  <2>2. /\ queue' \in Seq(Jobs) /\ Len(queue') = Len(queue) + 1
        /\ \A n \in 1 .. Len(queue) : queue'[n] = queue[n]
        /\ queue'[Len(queue) + 1] = nextid
    <3>1. queue' = Append(queue, nextid) /\ nextid \in Jobs
      BY <1>2, QJobStep DEF SerialInv, Inv
    <3> QED BY <2>1, <3>1, AppendProperties
  <2>3. DOMAIN queue' = 1 .. Len(queue) + 1
    BY <2>2, LenProperties
  <2>4. Len(queue) + 1 \in DOMAIN queue' /\ \A n \in DOMAIN queue : n \in DOMAIN queue'
    BY <2>1, <2>3
  <2>5. \A n \in DOMAIN queue : queue'[n] = queue[n]
    BY <2>1, <2>2
  <2>6. \E n \in DOMAIN queue' : queue'[n] = nextid
    BY <2>2, <2>4
  <2> QED BY <2>4, <2>5, <2>6 DEF Queued
<1> QED BY <1>1, <1>2, <1>3 DEF SerialInv, KeptInv

LEMMA RemoveLastKept ==
  ASSUME OneCaller, SerialInv, NEW c \in Callers, RemoveLast(c)
  PROVE  KeptInv'
<1>1. /\ \A d \in Callers : ~Ending(d)'
      /\ \A w \in Workers : pc'[w] = pc[w] /\ job'[w] = job[w]
      /\ UNCHANGED CurrentJob
  BY NoneEnding, RemoveLastStep, Constants DEF SerialInv, Inv, Ending, ReplyPcs, Moves
<1> DEFINE last == queue[Len(queue)]
<1>2. last \in Jobs /\ fate'[last] = "removed" /\ \A j \in Jobs \ {last} : fate'[j] = fate[j]
  <2>1. last \in Jobs
    BY RemoveLastStep, FrontType DEF SerialInv, Inv, TypeInv, TypeOK
  <2> QED BY <2>1, RemoveLastStep DEF SerialInv, Inv, TypeInv, TypeOK
<1>3. \A j \in Jobs \ {last} : Queued(j) => Queued(j)'
  <2>1. queue \in Seq(Jobs) /\ queue # <<>> /\ queue' = SubSeq(queue, 1, Len(queue) - 1)
    BY RemoveLastStep DEF SerialInv, Inv, TypeInv, TypeOK
  <2>2. /\ queue' \in Seq(Jobs) /\ Len(queue') = Len(queue) - 1
        /\ \A n \in 1 .. Len(queue) - 1 : queue'[n] = queue[n]
    BY <2>1, FrontType
  <2>3. /\ DOMAIN queue' = 1 .. Len(queue) - 1
        /\ DOMAIN queue = 1 .. Len(queue) /\ Len(queue) \in Nat
    BY <2>1, <2>2, LenProperties
  <2> SUFFICES ASSUME NEW n \in DOMAIN queue, queue[n] # last
               PROVE  n \in DOMAIN queue' /\ queue'[n] = queue[n]
    BY DEF Queued
  <2>4. n # Len(queue) /\ n \in 1 .. Len(queue)
    BY <2>3
  <2>5. n \in 1 .. Len(queue) - 1
    BY <2>3, <2>4
  <2> QED BY <2>2, <2>3, <2>5
<1> HIDE DEF last
<1> QED BY <1>1, <1>2, <1>3 DEF SerialInv, KeptInv

LEMMA NextJobKept ==
  ASSUME OneCaller, SerialInv, NEW w \in Workers, NextJob(w)
  PROVE  KeptInv'
<1>1. CASE Moves(w, {"next"}, {"wait"}) /\ UNCHANGED <<queue, job>>
  BY <1>1, NextJobStep, MovesKeepsKept, Constants DEF SerialInv, Inv, SameJobs, Serving, ReplyPcs
<1>2. CASE Moves(w, {"next"}, {"begin"}) /\ queue # <<>> /\ job'[w] = Head(queue) /\ queue' = Tail(queue)
  <2>1. /\ \A d \in Callers : ~Ending(d)'
        /\ \A u \in Workers : pc[u] \in Serving => pc'[u] \in Serving /\ job'[u] = job[u]
        /\ pc'[w] \in Serving
        /\ UNCHANGED <<CurrentJob, fate>>
    BY <1>2, NoneEnding, NextJobStep, Constants DEF SerialInv, Inv, Ending, Serving, ReplyPcs, Moves
  <2>2. \A j \in Jobs : Queued(j) => Queued(j)' \/ job'[w] = j
    <3>1. queue \in Seq(Jobs) /\ queue # <<>> /\ queue' = Tail(queue)
      BY <1>2 DEF SerialInv, Inv, TypeInv, TypeOK
    <3>2. /\ Head(queue) = queue[1] /\ Len(queue) \in Nat \ {0} /\ DOMAIN queue = 1 .. Len(queue)
          /\ queue' \in Seq(Jobs) /\ Len(queue') = Len(queue) - 1
          /\ \A n \in 1 .. Len(queue') : queue'[n] = queue[n + 1]
      BY <3>1, HeadTailProperties, EmptySeq, LenProperties
    <3>3. DOMAIN queue' = 1 .. Len(queue')
      BY <3>2, LenProperties
    <3> SUFFICES ASSUME NEW n \in DOMAIN queue, n # 1
                 PROVE  n - 1 \in DOMAIN queue' /\ queue'[n - 1] = queue[n]
      BY <1>2, <3>2 DEF Queued
    <3>4. n - 1 \in 1 .. Len(queue') /\ n - 1 + 1 = n
      BY <3>2
    <3> QED BY <3>2, <3>3, <3>4
  <2> QED BY <2>1, <2>2 DEF SerialInv, KeptInv
<1> QED BY <1>1, <1>2, NextJobStep DEF SerialInv, Inv

LEMMA SetCurrentJobKept ==
  ASSUME OneCaller, SerialInv, NEW w \in Workers, SetCurrentJob(w)
  PROVE  KeptInv'
<1>1. /\ \A d \in Callers : ~Ending(d)'
      /\ \A u \in Workers : pc[u] \in Serving => pc'[u] \in Serving /\ job'[u] = job[u]
      /\ CurrentJob = None
      /\ UNCHANGED <<queue, fate>>
  BY NoneEnding, SetCurrentJobStep, Constants
  DEF SerialInv, Inv, Ending, Serving, ReplyPcs, Moves, CurrentInv, Waiting
<1>2. \A j \in Jobs : Queued(j)' <=> Queued(j)
  BY <1>1 DEF Queued
<1> QED BY <1>1, <1>2, Constants DEF SerialInv, KeptInv

LEMMA worker_finishKept ==
  ASSUME OneCaller, SerialInv, NEW w \in Workers, worker_finish(w)
  PROVE  KeptInv'
<1>1. /\ \A d \in Callers : ~Ending(d)'
      /\ \A u \in Workers \ {w} : pc[u] \in Serving => pc'[u] \in Serving /\ job'[u] = job[u]
      /\ CurrentJob = job[w]
      /\ UNCHANGED queue
  BY NoneEnding, worker_finishStep, Constants DEF SerialInv, Inv, Ending, Serving, ReplyPcs, Moves, CurrentInv
<1>2. job[w] \in Jobs /\ fate'[job[w]] = "freed" /\ \A j \in Jobs \ {job[w]} : fate'[j] = fate[j]
  BY worker_finishStep DEF SerialInv, Inv, TypeInv, TypeOK
<1>3. \A j \in Jobs : Queued(j)' <=> Queued(j)
  BY <1>1 DEF Queued
<1> QED BY <1>1, <1>2, <1>3 DEF SerialInv, KeptInv

LEMMA cancelledKept ==
  ASSUME OneCaller, SerialInv, NEW w \in Workers, cancelled(w)
  PROVE  KeptInv'
<1>1. /\ \A d \in Callers : Ending(d)' <=> Ending(d)
      /\ \A u \in Workers \ {w} : pc[u] \in Serving => pc'[u] \in Serving /\ job'[u] = job[u]
      /\ pc[w] \in Serving => CurrentJob = job[w]
      /\ UNCHANGED <<queue, CurrentJob, fate, aborting, flush>>
  BY cancelledStep, Constants DEF SerialInv, Inv, Ending, Serving, ReplyPcs, Moves, SameJobs, CurrentInv
<1>2. \A j \in Jobs : Queued(j)' <=> Queued(j)
  BY <1>1 DEF Queued
<1> QED BY <1>1, <1>2 DEF SerialInv, KeptInv

LEMMA SrvAbort_lockedKept ==
  ASSUME OneCaller, SerialInv, NEW c \in Callers, SrvAbort_locked(c)
  PROVE  KeptInv'
<1> DEFINE s == IF CurrentJob = None THEN <<>> ELSE <<CurrentJob>>
           t == IF flush[c] THEN queue ELSE <<>>
           rest == s \o t
<1>1. /\ \A d \in Callers : d = c
      /\ \A w \in Workers : pc[w] \notin Serving
      /\ UNCHANGED <<queue, CurrentJob, flush, fate>>
      /\ next_abort(c, rest)
  <2>1. pc[c] \in AbortPcs
    BY SrvAbort_lockedStep DEF SerialInv, Inv, Moves, AbortPcs
  <2> QED BY <2>1, Alone, SrvAbort_lockedStep
      DEF SerialInv, Inv, Live, Serving, ReplyPcs, OneCaller, Undisturbed
<1>2. /\ s \in Seq(Jobs) /\ Len(s) \in Nat
      /\ CurrentJob # None => Len(s) = 1 /\ s[1] = CurrentJob
  <2>1. CASE CurrentJob = None
    BY <2>1, EmptySeq
  <2>2. CASE CurrentJob # None
    BY <2>2 DEF SerialInv, Inv, TypeInv, TypeOK
  <2> QED BY <2>1, <2>2
<1>3. t \in Seq(Jobs) /\ Len(t) \in Nat /\ DOMAIN t = 1 .. Len(t) /\ (flush[c] => t = queue)
  <2>1. queue \in Seq(Jobs)
    BY DEF SerialInv, Inv, TypeInv, TypeOK
  <2>2. t \in Seq(Jobs)
    BY <2>1, EmptySeq
  <2> QED BY <2>2, LenProperties
<1> HIDE DEF s, t
<1>4. /\ rest \in Seq(Jobs) /\ DOMAIN rest = 1 .. Len(s) + Len(t)
      /\ \A k \in 1 .. Len(s) + Len(t) : rest[k] = IF k <= Len(s) THEN s[k] ELSE t[k - Len(s)]
  <2>1. /\ rest \in Seq(Jobs) /\ Len(rest) = Len(s) + Len(t)
        /\ \A k \in 1 .. Len(s) + Len(t) : rest[k] = IF k <= Len(s) THEN s[k] ELSE t[k - Len(s)]
    BY <1>2, <1>3, ConcatProperties
  <2>2. DOMAIN rest = 1 .. Len(rest)
    BY <2>1, LenProperties
  <2> QED BY <2>1, <2>2
<1>5. aborting'[c] = rest
  BY <1>1 DEF next_abort, SerialInv, Inv, TypeInv, TypeOK
<1> HIDE DEF rest
<1>6. CurrentJob # None => \E k \in DOMAIN rest : rest[k] = CurrentJob
  <2> SUFFICES ASSUME CurrentJob # None PROVE 1 \in DOMAIN rest /\ rest[1] = CurrentJob
    OBVIOUS
  <2>1. 1 \in 1 .. Len(s) + Len(t) /\ 1 <= Len(s)
    <3>1. Len(s) = 1 /\ Len(t) \in Nat
      BY <1>2, <1>3
    <3> QED BY <3>1
  <2> QED BY <1>2, <1>4, <2>1
<1>7. ASSUME flush[c], NEW n \in DOMAIN queue
      PROVE  \E k \in DOMAIN rest : rest[k] = queue[n]
  <2>1. n \in 1 .. Len(t) /\ t[n] = queue[n]
    BY <1>3, <1>7
  <2>2. n + Len(s) \in 1 .. Len(s) + Len(t) /\ ~(n + Len(s) <= Len(s)) /\ n + Len(s) - Len(s) = n
    BY <1>2, <1>3, <2>1
  <2>3. n + Len(s) \in DOMAIN rest /\ rest[n + Len(s)] = queue[n]
    BY <1>4, <2>1, <2>2
  <2> QED BY <2>3
<1>8. ASSUME NEW j \in Jobs, fate[j] = "live"
      PROVE  \/ \E k \in DOMAIN rest : rest[k] = j
             \/ ~flush[c] /\ Queued(j)
  <2>1. Queued(j) \/ CurrentJob = j
    BY <1>1, <1>8 DEF SerialInv, KeptInv
  <2> QED BY <1>6, <1>7, <2>1, Constants DEF Queued
<1>9. \A j \in Jobs : Queued(j)' <=> Queued(j)
  BY <1>1 DEF Queued
<1>10. \A j \in Jobs : fate'[j] = "live" => Queued(j)' \/ CurrentJob' = j
  BY <1>1, <1>9 DEF SerialInv, KeptInv
<1> QED BY <1>1, <1>5, <1>8, <1>9, <1>10 DEF KeptInv

LEMMA AbortJobKept ==
  ASSUME OneCaller, SerialInv, NEW c \in Callers, Moves(c, ReplyPcs, ReplyPcs \cup {"abort_end"}), AbortJob(c),
         UNCHANGED <<queue, CurrentJob, flush>>
  PROVE  KeptInv'
<1>1. /\ \A d \in Callers : d = c
      /\ \A w \in Workers : pc[w] \notin Serving
      /\ Ending(c)
  <2>1. pc[c] \in AbortPcs
    BY DEF Moves, AbortPcs
  <2> QED BY <2>1, Alone DEF SerialInv, Inv, Live, Serving, ReplyPcs, OneCaller, Undisturbed, Ending, Moves
<1>2. /\ aborting[c] \in Seq(Jobs) /\ aborting[c] # <<>>
      /\ job[c] = Head(aborting[c]) /\ job[c] \in Jobs
      /\ fate' = [fate EXCEPT ![job[c]] = "freed"]
      /\ aborting'[c] = Tail(aborting[c])
  BY SendingReply, Constants
  DEF Moves, AbortJob, next_abort, SerialInv, Inv, TypeInv, TypeOK, ThreadInv, CallerInv
<1> DEFINE s == aborting[c]
<1>3. /\ job[c] = s[1]
      /\ \A k \in DOMAIN s : k # 1 => k - 1 \in DOMAIN aborting'[c] /\ aborting'[c][k - 1] = s[k]
  <2>1. /\ Head(s) = s[1] /\ Len(s) \in Nat \ {0} /\ DOMAIN s = 1 .. Len(s)
        /\ Tail(s) \in Seq(Jobs) /\ Len(Tail(s)) = Len(s) - 1
        /\ \A k \in 1 .. Len(Tail(s)) : Tail(s)[k] = s[k + 1]
    BY <1>2, HeadTailProperties, EmptySeq, LenProperties
  <2>2. DOMAIN Tail(s) = 1 .. Len(Tail(s))
    BY <2>1, LenProperties
  <2> SUFFICES ASSUME NEW k \in DOMAIN s, k # 1
               PROVE  k - 1 \in DOMAIN Tail(s) /\ Tail(s)[k - 1] = s[k]
    BY <1>2, <2>1
  <2>3. k - 1 \in 1 .. Len(Tail(s)) /\ k - 1 + 1 = k
    BY <2>1
  <2> QED BY <2>1, <2>2, <2>3
<1>4. \A j \in Jobs : fate'[j] = "live" => fate[j] = "live" /\ j # job[c]
  BY <1>2 DEF SerialInv, Inv, TypeInv, TypeOK
<1>5. \A j \in Jobs : fate[j] = "live" => \/ \E k \in DOMAIN s : s[k] = j
                                          \/ ~flush[c] /\ Queued(j)
  BY <1>1 DEF SerialInv, KeptInv
<1> HIDE DEF s
<1>6. \A j \in Jobs : Queued(j)' <=> Queued(j)
  BY DEF Queued
<1>7. \A j \in Jobs : fate'[j] = "live" => Queued(j)' \/ CurrentJob' = j
  BY <1>1, <1>4, <1>6 DEF SerialInv, KeptInv
<1> QED BY <1>1, <1>3, <1>4, <1>5, <1>6, <1>7 DEF KeptInv

LEMMA SrvAbort_unlockKept ==
  ASSUME OneCaller, SerialInv, NEW c \in Callers, SrvAbort_unlock(c)
  PROVE  KeptInv'
<1>1. /\ \A d \in Callers : d = c
      /\ Ending(c) /\ ~Ending(c)' /\ aborting[c] = <<>>
      /\ queue' = IF flush[c] THEN <<>> ELSE queue
      /\ UNCHANGED fate
  BY SrvAbort_unlockStep DEF SerialInv, Inv, Moves, OneCaller, Ending, ReplyPcs, TypeInv, ThreadInv, CallerInv
<1>2. \A j \in Jobs : fate[j] = "live" => ~flush[c] /\ Queued(j)
  BY <1>1 DEF SerialInv, KeptInv
<1>3. \A j \in Jobs : fate'[j] = "live" => Queued(j)'
  BY <1>1, <1>2 DEF Queued
<1> QED BY <1>1, <1>3 DEF KeptInv

LEMMA NextKept ==
  ASSUME OneCaller, SerialInv, Next
  PROVE  KeptInv'
<1>0. Callers \subseteq Threads /\ Workers \subseteq Threads
  BY Constants
<1>1. ASSUME NEW t \in Threads, send_reply(t)
      PROVE  KeptInv'
  <2>1. CASE t \in Callers /\ Moves(t, ReplyPcs, ReplyPcs \cup {"abort_end"}) /\ AbortJob(t)
    BY <1>1, <2>1, ReplyStep, AbortJobKept DEF SerialInv, Inv
  <2>2. CASE t \in Callers /\ Moves(t, ReplyPcs, ReplyPcs) /\ SameJobs
    BY <2>2, MovesKeepsKept DEF SerialInv
  <2>3. CASE t \in Workers /\ Moves(t, ReplyPcs, ReplyPcs \cup {"run", "finish"}) /\ SameJobs
    <3>1. ReplyPcs \cup {"run", "finish"} \subseteq Serving
      BY DEF Serving
    <3> QED BY <2>3, <3>1, MovesKeepsKept DEF SerialInv
  <2> QED BY <1>1, <2>1, <2>2, <2>3, ReplyStep DEF SerialInv, Inv
<1>2. ASSUME NEW w \in Workers, worker_run(w) \/ log_line(w) \/ log_written(w) \/ task_done(w)
      PROVE  KeptInv'
  <2>1. Moves(w, Serving \ {"begin"}, Serving \ {"begin"}) /\ SameJobs
    BY <1>2, ServingStep DEF SerialInv, Inv
  <2> QED BY <1>0, <2>1, MovesKeepsKept DEF SerialInv
<1>3. ASSUME NEW w \in Workers, worker_start(w) \/ WorkerExit(w)
      PROVE  KeptInv'
  <2>1. SameJobs /\ (Moves(w, {"start"}, {"next"}) \/ Moves(w, {"exit"}, {"dead"}))
    BY <1>3, worker_startStep, WorkerExitStep DEF SerialInv, Inv
  <2>2. "start" \notin Serving /\ "exit" \notin Serving
    BY DEF Serving, ReplyPcs
  <2> QED BY <1>0, <2>1, <2>2, MovesKeepsKept DEF SerialInv
<1>4. ASSUME NEW c \in Callers,
             UnlockQueue(c) \/ StartWorker(c) \/ CONDITION_WAIT(c) \/ SrvSetLogging(c)
      PROVE  KeptInv'
  <2>1. /\ SameJobs
        /\ \A d \in Callers : Ending(d)' => Ending(d)
        /\ \A w \in Workers : pc[w] \in Serving => pc'[w] \in Serving
    <3>1. CASE StartWorker(c)
      BY <3>1, StartWorkerStep, Constants DEF SerialInv, Inv, Moves, Ending, Serving, ReplyPcs
    <3>2. CASE CONDITION_WAIT(c)
      BY <3>2, CONDITION_WAITStep, Constants DEF SerialInv, Inv, Moves, Ending, ReplyPcs
    <3>3. CASE SrvSetLogging(c)
      BY <3>3, SrvSetLoggingStep DEF Ending
    <3>4. CASE UnlockQueue(c)
      BY <3>4, UnlockQueueStep, Constants DEF SerialInv, Inv, Moves, Ending, ReplyPcs
    <3> QED BY <1>4, <3>1, <3>2, <3>3, <3>4
  <2> QED BY <2>1, KeepsKept DEF SerialInv, SameJobs
<1>5. ASSUME NEW c \in Callers, NEW p1 \in BOOLEAN, SrvAbort(c, p1)
      PROVE  KeptInv'
  <2>1. /\ UNCHANGED <<queue, CurrentJob, job, aborting, fate>>
        /\ \A d \in Callers : Ending(d)' => Ending(d) /\ flush'[d] = flush[d]
        /\ \A w \in Workers : pc'[w] = pc[w]
    BY <1>5, SrvAbortStep, Constants DEF SerialInv, Inv, Moves, Ending, ReplyPcs
  <2> QED BY <2>1, KeepsKept DEF SerialInv
<1>6. ASSUME NEW c \in Callers, Request(c) \/ CallerStep(c)
      PROVE  KeptInv'
  BY <1>0, <1>1, <1>4, <1>5, <1>6, QJobKept, RemoveLastKept, SrvAbort_lockedKept, SrvAbort_unlockKept
     DEF Request, CallerStep
<1>7. ASSUME NEW w \in Workers, WorkerStep(w)
      PROVE  KeptInv'
  BY <1>0, <1>1, <1>2, <1>3, <1>7, NextJobKept, SetCurrentJobKept, worker_finishKept, cancelledKept
     DEF WorkerStep
<1> QED BY <1>6, <1>7 DEF Next

LEMMA SerialInvariance == ASSUME OneCaller PROVE Spec => []SerialInv
<1>0. Undisturbed
  BY DEF OneCaller, Undisturbed
<1>1. Init => SerialInv
  <2> SUFFICES ASSUME Init PROVE SerialInv
    OBVIOUS
  <2>1. /\ \A c \in Callers : ~Ending(c)
        /\ \A w \in Workers : pc[w] = "new" /\ job[w] = None
        /\ \A j \in Jobs : fate[j] = "unborn" /\ replies[j] = <<>>
        /\ CurrentJob = None
    BY Constants DEF Init, Ending, ReplyPcs
  <2>2. CurrentInv /\ KeptInv /\ OrderInv
    BY <2>1 DEF CurrentInv, KeptInv, OrderInv, Waiting, Serving, ReplyPcs
  <2>3. OneAfterOther
    BY <2>1, Constants DEF OneAfterOther, Begun
  <2> QED BY <2>2, <2>3, InitType, InitControl, InitJobs DEF SerialInv, Inv
<1>2. SerialInv /\ [Next]_vars => SerialInv'
  <2>1. ASSUME SerialInv, Next PROVE SerialInv'
    <3>1. Inv'
      BY <1>0, <2>1, NextType, NextControl, NextJobs DEF SerialInv, Inv
    <3> QED BY <2>1, <3>1, NextCurrent, NextKept, NextOrder, NextOneAfterOther DEF SerialInv
  <2>2. ASSUME SerialInv, UNCHANGED vars PROVE SerialInv'
    <3>1. Inv'
      BY <1>0, <2>2, NextType, NextControl, NextJobs DEF SerialInv, Inv
    <3>2. CurrentInv' /\ OrderInv' /\ OneAfterOther'
      BY <2>2 DEF vars, SerialInv, CurrentInv, OrderInv, OneAfterOther, Begun, Ended, Live
    <3>3. KeptInv'
      BY <2>2, KeepsKept DEF vars, SerialInv, Ending
    <3> QED BY <3>1, <3>2, <3>3 DEF SerialInv
  <2> QED BY <2>1, <2>2
<1> QED BY <1>1, <1>2, PTL DEF Spec

(***************************************************************************)
(* Jobs are executed one after the other, in the order in which one client  *)
(* queued them, whenever it aborts: the worker that is started next does    *)
(* not begin with a job before what was left of the one its predecessor     *)
(* was cancelled in is aborted.                                             *)
(***************************************************************************)
THEOREM JobsInOrder == ASSUME OneCaller PROVE Spec => []OneAfterOther
<1>1. SerialInv => OneAfterOther
  BY DEF SerialInv
<1> QED BY <1>1, SerialInvariance, PTL

-----------------------------------------------------------------------------
(* Replies. *)

Told(j) ==
  \/ owner[j] \in Broken
  \/ \E n \in DOMAIN replies[j] : replies[j][n][1] \in Final /\ replies[j][n][2] = owner[j]

Unsent == {"find", "check", "open", "send", "send_new"}

Notifying(w) == pc[w] \in ReplyPcs /\ kind[w] = "MONITOR"

(* The address of a job is only another one while SendToMonitors is at it. *)
AddrInv ==
  \A j \in Jobs : addr[j] # owner[j] =>
    op[j] = "broadcast" /\ \E w \in Workers : Notifying(w) /\ job[w] = j

MonitorInv ==
  \A w \in Workers : Notifying(w) => op[job[w]] = "broadcast"

(* Nothing was sent for a job that is still to begin. *)
SilentInv ==
  /\ \A j \in Jobs : fate[j] = "unborn" => replies[j] = <<>>
  /\ (\A c \in Callers : ~Ending(c) \/ ~flush[c]) =>
       \A n \in DOMAIN queue : replies[queue[n]] = <<>>
  /\ \A w \in Workers :
       \/ pc[w] = "begin"
       \/ pc[w] \in Unsent /\ kind[w] = "STARTING"
       => replies[job[w]] = <<>>

(* Where the final reply is out, or cannot be delivered. *)
ToldAt(t) ==
  /\ pc[t] = "sent" /\ kind[t] \in Final => Told(job[t])
  /\ pc[t] = "cleanup" => addr[job[t]] \in Broken
  /\ pc[t] = "finish" => Told(job[t])

ToldInv ==
  /\ \A j \in Jobs : fate[j] = "freed" => Told(j)
  /\ \A t \in Threads : ToldAt(t)

StartFirst ==
  \A j \in Jobs : \A n \in DOMAIN replies[j] : replies[j][n][1] = "STARTING" => n = 1

ReplyInv == AddrInv /\ MonitorInv /\ SilentInv /\ ToldInv /\ StartFirst

(* A worker that sends to monitors is not cancelled. *)
Unbroken == MaxAborts = 0 \/ \A j \in Jobs : op[j] # "broadcast"

Using(t) ==
  \/ t \in Workers /\ pc[t] \in Serving
  \/ t \in Callers /\ pc[t] \in ReplyPcs

(* Each thread has its own job. *)
LEMMA OwnJob ==
  ASSUME Undisturbed, Inv, NEW t \in Threads, NEW u \in Threads, Using(t), Using(u), job[t] = job[u]
  PROVE  t = u
<1>1. CASE t \in Workers /\ u \in Workers
  BY <1>1, Constants DEF Using, Inv, JobInv, HeldInv
<1>2. ASSUME NEW c \in Callers, pc[c] \in ReplyPcs
      PROVE  Callers = {c} /\ \A w \in Workers : pc[w] \notin Serving
  BY <1>2, Alone DEF Inv, AbortPcs, Live, Serving, ReplyPcs
<1> QED BY <1>1, <1>2, Constants DEF Using

(* Replies, but those to monitors, go to who sent the request. *)
LEMMA RightAddr ==
  ASSUME Undisturbed, Inv, ReplyInv, NEW t \in Threads, pc[t] \in ReplyPcs, kind[t] # "MONITOR"
  PROVE  addr[job[t]] = owner[job[t]]
<1> SUFFICES ASSUME addr[job[t]] # owner[job[t]] PROVE FALSE
  OBVIOUS
<1>1. job[t] \in Jobs
  BY SendingReply DEF Inv
<1>2. PICK w \in Workers : Notifying(w) /\ job[w] = job[t]
  BY <1>1 DEF ReplyInv, AddrInv
<1>3. w \in Threads /\ Using(w) /\ Using(t)
  BY <1>2, Constants DEF Using, Notifying, Serving, Threads
<1> QED BY <1>2, <1>3, OwnJob DEF Notifying

SameThread(t) == pc'[t] = pc[t] /\ job'[t] = job[t] /\ kind'[t] = kind[t]

(* Steps that send nothing. *)
LEMMA QuietStep ==
  ASSUME ReplyInv, UNCHANGED <<addr, replies>>,
         \A w \in Workers : (Notifying(w) \/ Notifying(w)') =>
           Notifying(w) /\ Notifying(w)' /\ job'[w] = job[w],
         \A j \in Jobs : fate'[j] = "unborn" => fate[j] = "unborn",
         \A j \in Jobs : fate'[j] = "freed" => fate[j] = "freed" \/ Told(j),
         (\A c \in Callers : ~Ending(c)' \/ ~flush'[c]) =>
           \A n \in DOMAIN queue' : replies[queue'[n]] = <<>>,
         \A w \in Workers :
           \/ pc'[w] = "begin"
           \/ pc'[w] \in Unsent /\ kind'[w] = "STARTING"
           => replies[job'[w]] = <<>>,
         \A t \in Threads :
           \/ SameThread(t)
           \/ /\ pc'[t] = "sent" /\ kind'[t] \in Final => Told(job'[t])
              /\ pc'[t] = "cleanup" => addr[job'[t]] \in Broken
              /\ pc'[t] = "finish" => Told(job'[t])
  PROVE  ReplyInv'
<1>1. AddrInv'
  BY DEF ReplyInv, AddrInv
<1>2. MonitorInv'
  BY DEF ReplyInv, MonitorInv
<1>3. SilentInv'
  BY DEF ReplyInv, SilentInv
<1>4. \A j : Told(j)' <=> Told(j)
  BY DEF Told
<1>5. ToldInv'
  <2>1. \A j \in Jobs : fate'[j] = "freed" => Told(j)'
    BY <1>4 DEF ReplyInv, ToldInv
  <2>2. ASSUME NEW t \in Threads
        PROVE  /\ pc'[t] = "sent" /\ kind'[t] \in Final => Told(job'[t])
               /\ pc'[t] = "cleanup" => addr[job'[t]] \in Broken
               /\ pc'[t] = "finish" => Told(job'[t])
    BY DEF ReplyInv, ToldInv, ToldAt, SameThread
  <2>3. ASSUME NEW t \in Threads
        PROVE  ToldAt(t)'
    BY <2>2 DEF ToldAt, Told
  <2> QED BY <2>1, <2>3 DEF ToldInv
<1>6. StartFirst'
  BY DEF ReplyInv, StartFirst
<1> QED BY <1>1, <1>2, <1>3, <1>5, <1>6 DEF ReplyInv

(* Those of one thread that is not notifying monitors. *)
LEMMA QuietMove ==
  ASSUME ReplyInv, NEW t \in Threads, UNCHANGED <<addr, replies, queue, flush>>,
         \A u \in Threads \ {t} : SameThread(u),
         t \in Callers \/ (~Notifying(t) /\ ~Notifying(t)'),
         \A c \in Callers : Ending(c) => Ending(c)',
         \A j \in Jobs : fate'[j] = "unborn" => fate[j] = "unborn",
         \A j \in Jobs : fate'[j] = "freed" => fate[j] = "freed" \/ Told(j),
         t \in Callers \/ ( \/ pc'[t] = "begin"
                            \/ pc'[t] \in Unsent /\ kind'[t] = "STARTING"
                            => replies[job'[t]] = <<>> ),
         pc'[t] = "sent" /\ kind'[t] \in Final => Told(job'[t]),
         pc'[t] = "cleanup" => addr[job'[t]] \in Broken,
         pc'[t] = "finish" => Told(job'[t])
  PROVE  ReplyInv'
<1>1. \A w \in Workers : (Notifying(w) \/ Notifying(w)') =>
        Notifying(w) /\ Notifying(w)' /\ job'[w] = job[w]
  BY Constants DEF Notifying, SameThread, Threads
<1>2. (\A c \in Callers : ~Ending(c)' \/ ~flush'[c]) => \A n \in DOMAIN queue' : replies[queue'[n]] = <<>>
  BY DEF ReplyInv, SilentInv
<1>3. \A w \in Workers :
           \/ pc'[w] = "begin"
           \/ pc'[w] \in Unsent /\ kind'[w] = "STARTING"
           => replies[job'[w]] = <<>>
  BY Constants DEF ReplyInv, SilentInv, SameThread
<1> QED BY <1>1, <1>2, <1>3, QuietStep

(* Those of a worker that goes on notifying one monitor. *)
LEMMA NotifyingMove ==
  ASSUME ReplyInv, NEW w \in Workers, UNCHANGED <<addr, replies, queue, flush, fate>>,
         \A u \in Threads \ {w} : SameThread(u),
         Notifying(w), Notifying(w)', job'[w] = job[w],
         pc'[w] = "cleanup" => addr[job[w]] \in Broken
  PROVE  ReplyInv'
<1>1. \A u \in Workers : (Notifying(u) \/ Notifying(u)') =>
        Notifying(u) /\ Notifying(u)' /\ job'[u] = job[u]
  BY Constants DEF Notifying, SameThread
<1>2. (\A c \in Callers : ~Ending(c)' \/ ~flush'[c]) => \A n \in DOMAIN queue' : replies[queue'[n]] = <<>>
  BY Constants DEF ReplyInv, SilentInv, Ending, SameThread
<1>3. \A u \in Workers :
           \/ pc'[u] = "begin"
           \/ pc'[u] \in Unsent /\ kind'[u] = "STARTING"
           => replies[job'[u]] = <<>>
  BY Constants DEF ReplyInv, SilentInv, SameThread, Notifying, ReplyPcs
<1>4. \A u \in Threads :
           \/ SameThread(u)
           \/ /\ pc'[u] = "sent" /\ kind'[u] \in Final => Told(job'[u])
              /\ pc'[u] = "cleanup" => addr[job'[u]] \in Broken
              /\ pc'[u] = "finish" => Told(job'[u])
  BY DEF Notifying, Final, ReplyPcs
<1> QED BY <1>1, <1>2, <1>3, <1>4, QuietStep

LEMMA SendingReplies ==
  ASSUME TypeInv, ReplyInv, NEW t \in Threads, pc[t] \in ReplyPcs,
         pc[t] \in Unsent \/ pc'[t] = "cleanup",
         pc'[t] \in Unsent \cup {"cleanup"},
         pc'[t] = "cleanup" => addr[job[t]] \in Broken,
         \A u \in Threads \ {t} : pc'[u] = pc[u],
         UNCHANGED <<addr, replies, queue, flush, fate, job, kind>>
  PROVE  ReplyInv'
<1>1. \A u \in Threads \ {t} : SameThread(u)
  BY DEF SameThread
<1>2. CASE t \in Workers /\ Notifying(t)
  <2>1. Notifying(t)'
    BY <1>2 DEF Notifying, Unsent, ReplyPcs
  <2> QED BY <1>1, <1>2, <2>1, NotifyingMove
<1>3. CASE t \in Workers /\ ~Notifying(t)
  <2>1. ~Notifying(t)'
    BY <1>3 DEF Notifying
  <2>2. pc'[t] # "begin" /\ pc'[t] # "sent" /\ pc'[t] # "finish"
    BY DEF Unsent
  <2>3. pc'[t] \in Unsent /\ kind'[t] = "STARTING" => replies[job'[t]] = <<>>
    BY <1>3 DEF ReplyInv, SilentInv, Unsent
  <2>4. \A c \in Callers : Ending(c) => Ending(c)'
    BY <1>3, Constants DEF Ending
  <2> QED BY <1>1, <1>3, <2>1, <2>2, <2>3, <2>4, QuietMove
<1>4. CASE t \in Callers
  <2>1. \A c \in Callers : Ending(c) => Ending(c)'
    BY Constants DEF Ending, Unsent, ReplyPcs
  <2>2. pc'[t] # "begin" /\ pc'[t] # "sent" /\ pc'[t] # "finish"
    BY DEF Unsent
  <2> QED BY <1>1, <1>4, <2>1, <2>2, QuietMove
<1> QED BY <1>2, <1>3, <1>4 DEF Threads

(* The reply is out. *)
LEMMA ReplyOut ==
  ASSUME Undisturbed, Inv, ReplyInv, NEW t \in Threads, pc[t] \in {"send", "send_new"},
         replies' = [replies EXCEPT ![job[t]] = Append(@, <<kind[t], addr[job[t]]>>)],
         Goto(t, "sent"),
         UNCHANGED <<addr, queue, flush, fate, job, kind>>
  PROVE  ReplyInv'
<1> DEFINE j == job[t]
<1>1. /\ j \in Jobs /\ fate[j] = "live" /\ pc[t] \in ReplyPcs /\ Using(t)
      /\ kind[t] = "MONITOR" => t \in Workers
  <2>1. pc[t] \in ReplyPcs /\ j \in Jobs
    BY SendingReply DEF Inv, ReplyPcs
  <2>2. CASE t \in Workers
    BY <2>1, <2>2 DEF Inv, JobInv, HeldInv, Serving, Using
  <2>3. CASE t \in Callers
    <3>1. aborting[t] \in Seq(Jobs) /\ aborting[t] # <<>> /\ job[t] = Head(aborting[t]) /\ kind[t] = "ABORT"
      BY <2>1, <2>3 DEF Inv, TypeInv, TypeOK, ThreadInv, CallerInv
    <3>2. 1 \in DOMAIN aborting[t] /\ job[t] = aborting[t][1]
      BY <3>1, HeadTailProperties, EmptySeq, LenProperties
    <3> QED BY <2>1, <2>3, <3>1, <3>2 DEF Inv, JobInv, AbortInv, Ending, Using
  <2> QED BY <2>1, <2>2, <2>3 DEF Threads
<1>2. /\ \A u \in Threads \ {t} : pc'[u] = pc[u]
      /\ pc'[t] = "sent"
  BY DEF Goto, Inv, TypeInv, TypeOK
<1>3. /\ \A i \in Jobs \ {j} : replies'[i] = replies[i]
      /\ DOMAIN replies[j] = 1 .. Len(replies[j]) /\ Len(replies[j]) \in Nat
      /\ DOMAIN replies'[j] = 1 .. Len(replies[j]) + 1
      /\ \A n \in DOMAIN replies[j] : replies'[j][n] = replies[j][n]
      /\ replies'[j][Len(replies[j]) + 1] = <<kind[t], addr[j]>>
  <2>1. replies[j] \in Seq(Kinds \X Clients) /\ <<kind[t], addr[j]>> \in Kinds \X Clients
    BY <1>1, SendingReply DEF Inv, TypeInv, TypeOK
  <2>2. replies'[j] = Append(replies[j], <<kind[t], addr[j]>>) /\ \A i \in Jobs \ {j} : replies'[i] = replies[i]
    BY <1>1 DEF Inv, TypeInv, TypeOK
  <2>3. /\ replies'[j] \in Seq(Kinds \X Clients)
        /\ Len(replies'[j]) = Len(replies[j]) + 1
        /\ \A n \in 1 .. Len(replies[j]) : replies'[j][n] = replies[j][n]
        /\ replies'[j][Len(replies[j]) + 1] = <<kind[t], addr[j]>>
    BY <2>1, <2>2, AppendProperties
  <2> QED BY <2>1, <2>2, <2>3, LenProperties
<1>4. Len(replies[j]) + 1 \in DOMAIN replies'[j] /\ \A n \in DOMAIN replies[j] : n \in DOMAIN replies'[j]
  BY <1>3
<1>5. \A u \in Threads \ {t} : Using(u) => job[u] # j
  BY <1>1, OwnJob
<1> HIDE DEF j
<1>6. \A i \in Jobs : Told(i) => Told(i)'
  BY <1>3, <1>4 DEF Told
<1>7. kind[t] \in Final => Told(job[t])'
  <2>1. SUFFICES ASSUME kind[t] \in Final PROVE Told(job[t])'
    OBVIOUS
  <2>2. addr[j] = owner[j]
    BY <1>1, <2>1, RightAddr DEF Final, j
  <2>3. \E n \in DOMAIN replies'[j] : replies'[j][n][1] \in Final /\ replies'[j][n][2] = owner[j]
    BY <1>3, <1>4, <2>1, <2>2
  <2> QED BY <2>3 DEF Told, j
<1>8. AddrInv' /\ MonitorInv'
  <2>1. \A w \in Workers : Notifying(w)' <=> Notifying(w)
    BY <1>1, <1>2, Constants DEF Notifying, ReplyPcs
  <2> QED BY <2>1 DEF ReplyInv, AddrInv, MonitorInv
<1>9. SilentInv'
  <2>1. \A i \in Jobs : fate[i] = "unborn" => replies'[i] = <<>>
    BY <1>1, <1>3 DEF ReplyInv, SilentInv
  <2>2. ASSUME \A c \in Callers : ~Ending(c)' \/ ~flush[c], NEW n \in DOMAIN queue
        PROVE  replies'[queue[n]] = <<>>
    <3>1. \A c \in Callers : Ending(c)' <=> Ending(c)
      BY <1>1, <1>2, Constants DEF Ending, ReplyPcs
    <3>2. replies[queue[n]] = <<>> /\ queue[n] \in Jobs
      BY <2>2, <3>1, QueueDomain DEF Inv, ReplyInv, SilentInv
    <3>3. queue[n] # j
      <4>1. CASE t \in Workers
        <5>1. j < queue[n]
          BY <1>1, <4>1 DEF Inv, JobInv, QueueInv, Serving, j
        <5> QED BY <1>1, <3>2, <5>1, Earlier
      <4>2. CASE t \in Callers
        <5>1. Ending(t) /\ ~flush[t]
          BY <1>1, <2>2, <3>1, <4>2 DEF Ending
        <5>2. j = CurrentJob
          <6>1. aborting[t] \in Seq(Jobs) /\ aborting[t] # <<>> /\ job[t] = Head(aborting[t])
            BY <1>1, <4>2 DEF Inv, TypeInv, TypeOK, ThreadInv, CallerInv
          <6>2. 1 \in DOMAIN aborting[t] /\ job[t] = aborting[t][1]
            BY <6>1, HeadTailProperties, EmptySeq, LenProperties
          <6> QED BY <4>2, <5>1, <6>2 DEF Inv, JobInv, AbortInv, j
        <5>3. j < queue[n]
          BY <1>1, <5>2, Constants DEF Inv, JobInv, QueueInv
        <5> QED BY <1>1, <3>2, <5>3, Earlier
      <4> QED BY <4>1, <4>2 DEF Threads
    <3> QED BY <1>3, <3>2, <3>3
  <2>3. ASSUME NEW w \in Workers, pc'[w] = "begin" \/ (pc'[w] \in Unsent /\ kind[w] = "STARTING")
        PROVE  replies'[job[w]] = <<>>
    <3>1. w # t
      BY <1>2, <2>3 DEF Unsent
    <3>2. w \in Threads \ {t} /\ pc[w] = pc'[w]
      BY <1>2, <3>1, Constants
    <3>3. Using(w)
      BY <2>3, <3>2 DEF Using, Serving, ReplyPcs, Unsent
    <3>4. job[w] # j /\ job[w] \in Jobs
      BY <1>5, <3>2, <3>3, Constants DEF Using, Inv, TypeInv, ThreadInv, WorkerInv
    <3>5. replies[job[w]] = <<>>
      BY <2>3, <3>2 DEF ReplyInv, SilentInv
    <3> QED BY <1>3, <3>4, <3>5
  <2> QED BY <2>1, <2>2, <2>3 DEF SilentInv
<1>10. ToldInv'
  <2>1. \A i \in Jobs : (fate[i] = "freed")' => Told(i)'
    BY <1>6 DEF ReplyInv, ToldInv
  <2>2. ASSUME NEW u \in Threads
        PROVE  ToldAt(u)'
    <3>1. CASE u = t
      BY <1>2, <1>7, <3>1 DEF ToldAt
    <3>2. CASE u # t
      <4>1. pc'[u] = pc[u] /\ ToldAt(u)
        BY <1>2, <3>2 DEF ReplyInv, ToldInv
      <4>2. pc[u] = "sent" \/ pc[u] = "finish" => job[u] \in Jobs
        <5>1. CASE pc[u] = "sent"
          BY <5>1, SendingReply DEF Inv, ReplyPcs
        <5>2. CASE pc[u] = "finish"
          BY <5>2 DEF Inv, TypeInv, ThreadInv, WorkerInv, CallerInv, Serving, CallerPcs, ReplyPcs, Threads
        <5> QED BY <5>1, <5>2
      <4>3. job[u] \in Jobs => (Told(job[u]) => Told(job[u])')
        <5>1. \A i \in Jobs : job'[u] = i => (Told(i)' => Told(job[u])')
          BY DEF Told
        <5> QED BY <1>6, <5>1
      <4> QED BY <4>1, <4>2, <4>3 DEF ToldAt
    <3> QED BY <3>1, <3>2
  <2> QED BY <2>1, <2>2 DEF ToldInv
<1>11. StartFirst'
  <2> SUFFICES ASSUME NEW i \in Jobs, NEW n \in DOMAIN replies'[i], replies'[i][n][1] = "STARTING"
               PROVE  n = 1
    BY DEF StartFirst
  <2>1. CASE i # j \/ n \in DOMAIN replies[i]
    BY <1>3, <2>1 DEF ReplyInv, StartFirst
  <2>2. CASE i = j /\ n \notin DOMAIN replies[i]
    <3>1. n = Len(replies[j]) + 1
      BY <1>3, <2>2
    <3>2. kind[t] = "STARTING"
      BY <1>3, <2>2, <3>1
    <3>3. t \in Workers
      BY <1>1, <3>2 DEF Inv, TypeInv, ThreadInv, CallerInv, Threads
    <3>4. replies[j] = <<>>
      BY <3>2, <3>3 DEF ReplyInv, SilentInv, Unsent, j
    <3> QED BY <3>1, <3>4
  <2> QED BY <2>1, <2>2
<1> QED BY <1>8, <1>9, <1>10, <1>11 DEF ReplyInv

(* The next monitor, or at last who sent the request. *)
LEMMA MonitorMove ==
  ASSUME Undisturbed, Inv, ReplyInv, NEW w \in Workers, pc[w] \in Serving, op[job[w]] = "broadcast",
         NEW rest, next_monitor(w, rest),
         UNCHANGED <<replies, queue, flush, fate, job>>
  PROVE  ReplyInv'
<1>1. /\ job[w] \in Jobs /\ w \in Threads /\ Using(w)
      /\ pc'[w] = "find" /\ kind'[w] # "STARTING"
      /\ \A u \in Threads \ {w} : SameThread(u)
      /\ \A j \in Jobs \ {job[w]} : addr'[j] = addr[j]
      /\ addr'[job[w]] = owner[job[w]] \/ Notifying(w)'
  BY Constants DEF next_monitor, Goto, SameThread, Notifying, Using, Inv, TypeInv, TypeOK, ThreadInv,
    WorkerInv, ReplyPcs
<1>2. AddrInv'
  <2> SUFFICES ASSUME NEW j \in Jobs, addr'[j] # owner[j]
               PROVE  op[j] = "broadcast" /\ \E u \in Workers : Notifying(u)' /\ job'[u] = j
    BY DEF AddrInv
  <2>1. CASE j = job[w]
    BY <1>1, <2>1
  <2>2. CASE j # job[w]
    <3>1. op[j] = "broadcast" /\ \E u \in Workers : Notifying(u) /\ job[u] = j
      BY <1>1, <2>2 DEF ReplyInv, AddrInv
    <3>2. PICK u \in Workers : Notifying(u) /\ job[u] = j
      BY <3>1
    <3>3. Notifying(u)'
      BY <1>1, <2>2, <3>2, Constants DEF Notifying, SameThread
    <3> QED BY <3>1, <3>2, <3>3
  <2> QED BY <2>1, <2>2
<1>3. MonitorInv'
  BY <1>1, Constants DEF ReplyInv, MonitorInv, Notifying, SameThread
<1>4. SilentInv'
  <2>1. \A c \in Callers : Ending(c)' <=> Ending(c)
    BY <1>1, Constants DEF Ending, SameThread
  <2>2. \A u \in Workers \ {w} : SameThread(u)
    BY <1>1, Constants
  <2> QED BY <1>1, <2>1, <2>2 DEF ReplyInv, SilentInv, SameThread
<1>5. ToldInv'
  <2>1. \A j : Told(j)' <=> Told(j)
    BY DEF Told
  <2>2. ASSUME NEW u \in Threads
        PROVE  ToldAt(u)'
    <3>1. CASE u = w
      BY <1>1, <3>1 DEF ToldAt
    <3>2. CASE u # w
      <4>1. SameThread(u) /\ ToldAt(u)
        BY <1>1, <3>2 DEF ReplyInv, ToldInv
      <4>2. pc[u] = "cleanup" => addr'[job[u]] = addr[job[u]]
        <5> SUFFICES ASSUME pc[u] = "cleanup" PROVE addr'[job[u]] = addr[job[u]]
          OBVIOUS
        <5>1. pc[u] \in ReplyPcs
          BY DEF ReplyPcs
        <5>2. Using(u) /\ job[u] \in Jobs
          BY <5>1, SendingReply DEF Inv, Using, Serving, Threads
        <5>3. job[u] # job[w]
          BY <1>1, <3>2, <5>2, OwnJob
        <5> QED BY <1>1, <5>2, <5>3
      <4>3. Told(job[u])' <=> Told(job[u])
        BY DEF Told
      <4> QED BY <4>1, <4>2, <4>3 DEF ToldAt, SameThread
    <3> QED BY <3>1, <3>2
  <2> QED BY <2>1, <2>2 DEF ReplyInv, ToldInv
<1>6. StartFirst'
  BY DEF ReplyInv, StartFirst
<1> QED BY <1>2, <1>3, <1>4, <1>5, <1>6 DEF ReplyInv

(* When a final reply returns, it was sent or could not be. *)
LEMMA ReturnTold ==
  ASSUME Undisturbed, Inv, ReplyInv, NEW t \in Threads, pc[t] \in {"sent", "cleanup"}, kind[t] \in Final
  PROVE  Told(job[t])
<1>1. ToldAt(t)
  BY DEF ReplyInv, ToldInv
<1>2. CASE pc[t] = "sent"
  BY <1>1, <1>2 DEF ToldAt
<1>3. CASE pc[t] = "cleanup"
  <2>1. addr[job[t]] = owner[job[t]]
    BY <1>3, RightAddr DEF ReplyPcs, Final
  <2> QED BY <1>1, <1>3, <2>1 DEF ToldAt, Told
<1> QED BY <1>2, <1>3

LEMMA AbortJobReply ==
  ASSUME Undisturbed, Inv, ReplyInv, NEW c \in Threads, pc[c] \in {"sent", "cleanup"}, AbortJob(c),
         UNCHANGED <<queue, flush, replies>>
  PROVE  ReplyInv'
<1>1. c \in Callers /\ pc[c] \in ReplyPcs
  BY DEF AbortJob, Inv, TypeInv, ThreadInv, WorkerInv, Threads, ReplyPcs
<1>2. /\ \A u \in Threads \ {c} : SameThread(u)
      /\ pc'[c] \in {"find", "abort_end"}
  BY DEF AbortJob, next_abort, StartReply, Goto, SameThread, Inv, TypeInv, TypeOK
<1>3. Told(job[c])
  BY ReturnTold DEF AbortJob, Final
<1>4. /\ \A j \in Jobs : fate'[j] = "unborn" => fate[j] = "unborn"
      /\ \A j \in Jobs : fate'[j] = "freed" => fate[j] = "freed" \/ Told(j)
  BY <1>3 DEF AbortJob, Inv, TypeInv, TypeOK
<1>5. \A d \in Callers : Ending(d) => Ending(d)'
  BY <1>2, Constants DEF Ending, SameThread, ReplyPcs
<1> QED BY <1>1, <1>2, <1>4, <1>5, QuietMove DEF AbortJob

LEMMA ReturnReply ==
  ASSUME Undisturbed, Inv, ReplyInv, NEW t \in Threads, pc[t] \in {"sent", "cleanup"},
         NEW ok, reply_returns(t, ok),
         UNCHANGED <<queue, flush, replies>>
  PROVE  ReplyInv'
<1>0. pc[t] \in ReplyPcs
  BY DEF ReplyPcs
<1>1. CASE SendToMonitor(t, ok)
  <2>1. t \in Workers
    BY <1>0, <1>1 DEF SendToMonitor, Inv, TypeInv, ThreadInv, CallerInv, Threads
  <2>2. op[job[t]] = "broadcast" /\ pc[t] \in Serving
    BY <1>0, <1>1, <2>1 DEF SendToMonitor, ReplyInv, MonitorInv, Notifying, Serving
  <2> QED BY <1>1, <2>1, <2>2, MonitorMove DEF SendToMonitor
<1>2. CASE AbortJob(t)
  BY <1>2, AbortJobReply
<1>3. ASSUME kind[t] \in {"STARTING", "FINISHED", "CHECKEDIN"},
             Goto(t, IF kind[t] = "STARTING" THEN "run" ELSE "finish"),
             UNCHANGED <<Monitors, job, kind, aborting, sending, addr, fate>>
      PROVE  ReplyInv'
  <2>1. t \in Workers
    BY <1>0, <1>3 DEF Inv, TypeInv, ThreadInv, CallerInv, Threads
  <2>2. /\ \A u \in Threads \ {t} : SameThread(u)
        /\ pc'[t] = IF kind[t] = "STARTING" THEN "run" ELSE "finish"
    BY <1>3 DEF Goto, SameThread, Inv, TypeInv, TypeOK
  <2>3. pc'[t] = "finish" => Told(job'[t])
    BY <1>3, <2>2, ReturnTold DEF Final
  <2>4. /\ pc'[t] \in {"run", "finish"}
        /\ ~Notifying(t) /\ ~Notifying(t)'
    BY <1>3, <2>2 DEF Notifying, ReplyPcs
  <2>5. \A d \in Callers : Ending(d) => Ending(d)'
    BY <2>1, <2>2, Constants DEF Ending, SameThread
  <2> QED BY <1>3, <2>2, <2>3, <2>4, <2>5, QuietMove DEF Unsent
<1> QED BY <1>1, <1>2, <1>3 DEF reply_returns

LEMMA send_replyReply ==
  ASSUME Undisturbed, Inv, ReplyInv, NEW t \in Threads, send_reply(t)
  PROVE  ReplyInv'
<1>0. pc \in [Threads -> CallerPcs \cup WorkerPcs \cup ReplyPcs] /\ TypeInv
  BY DEF Inv, TypeInv, TypeOK
<1>1. CASE find_client(t)
  BY <1>0, <1>1, SendingReplies DEF find_client, Goto, ReplyPcs, Unsent, jobVars
<1>2. CASE check_socket(t)
  BY <1>0, <1>2, SendingReplies DEF check_socket, Goto, ReplyPcs, Unsent, jobVars
<1>3. CASE open_socket(t)
  BY <1>0, <1>3, SendingReplies DEF open_socket, Goto, ReplyPcs, Unsent, jobVars
<1>4. CASE send_all(t)
  <2>1. CASE replies' = [replies EXCEPT ![job[t]] = Append(@, <<kind[t], addr[job[t]]>>)] /\ Goto(t, "sent")
    BY <1>4, <2>1, ReplyOut DEF send_all
  <2>2. CASE /\ UNCHANGED replies
             /\ addr[job[t]] \in Broken
             /\ Goto(t, "cleanup") \/ Goto(t, "open")
    BY <1>0, <1>4, <2>2, SendingReplies DEF send_all, Goto, ReplyPcs, Unsent
  <2> QED BY <1>4, <2>1, <2>2 DEF send_all
<1>5. CASE reply_sent(t)
  <2>1. CASE reply_returns(t, TRUE)
    BY <1>5, <2>1, ReturnReply DEF reply_sent
  <2>2. CASE /\ addr[job[t]] \in Broken
             /\ Goto(t, "cleanup")
             /\ UNCHANGED <<Monitors, job, kind, aborting, sending, addr, fate>>
    BY <1>0, <1>5, <2>2, SendingReplies DEF reply_sent, Goto, ReplyPcs, Unsent
  <2> QED BY <1>5, <2>1, <2>2 DEF reply_sent
<1>6. CASE cleanup_client(t)
  BY <1>6, ReturnReply DEF cleanup_client
<1> QED BY <1>1, <1>2, <1>3, <1>4, <1>5, <1>6 DEF send_reply

LEMMA QJobReply ==
  ASSUME Undisturbed, Inv, ReplyInv, NEW c \in Callers, QJob(c)
  PROVE  ReplyInv'
<1>1. /\ pc[c] = "idle" /\ pc'[c] = "queued"
      /\ \A d \in Callers \ {c} : pc'[d] = pc[d]
      /\ \A w \in Workers : pc'[w] = pc[w] \/ (pc[w] = "wait" /\ pc'[w] = "next")
      /\ queueMutex = None /\ nextid \in Jobs
      /\ queue' = Append(queue, nextid)
      /\ fate' = [fate EXCEPT ![nextid] = "live"]
      /\ UNCHANGED <<job, flush>>
  BY QJobStep DEF Inv
<1>2. UNCHANGED <<addr, replies, kind>>
  BY DEF QJob
<1>3. /\ \A j \in Jobs : fate'[j] = "unborn" => fate[j] = "unborn"
      /\ \A j \in Jobs : fate'[j] = "freed" => fate[j] = "freed"
  BY <1>1 DEF Inv, TypeInv, TypeOK
<1>4. \A n \in DOMAIN queue' : replies[queue'[n]] = <<>>
  <2>1. /\ queue' \in Seq(Jobs) /\ Len(queue') = Len(queue) + 1
        /\ \A n \in 1 .. Len(queue) : queue'[n] = queue[n]
        /\ queue'[Len(queue) + 1] = nextid
    BY <1>1, AppendProperties DEF Inv, TypeInv, TypeOK
  <2>2. /\ DOMAIN queue' = 1 .. Len(queue) + 1
        /\ DOMAIN queue = 1 .. Len(queue) /\ Len(queue) \in Nat
    BY <2>1, LenProperties, QueueDomain DEF Inv
  <2>3. \A n \in DOMAIN queue : replies[queue[n]] = <<>>
    BY <1>1, NoneEnding DEF Inv, ReplyInv, SilentInv
  <2>4. nextid \in Nat
    BY <1>1, Constants
  <2>5. fate[nextid] = "unborn"
    BY <1>1, <2>4 DEF Inv, JobInv, QueueInv
  <2>6. replies[nextid] = <<>>
    BY <1>1, <2>5 DEF ReplyInv, SilentInv
  <2> QED BY <2>1, <2>2, <2>3, <2>6
<1>5. \A w \in Workers : (Notifying(w) \/ Notifying(w)') =>
        Notifying(w) /\ Notifying(w)' /\ job'[w] = job[w]
  BY <1>1, <1>2 DEF Notifying, ReplyPcs
<1>6. \A w \in Workers : \/ pc'[w] = "begin"
                         \/ pc'[w] \in Unsent /\ kind'[w] = "STARTING"
                         => replies[job'[w]] = <<>>
  BY <1>1, <1>2 DEF ReplyInv, SilentInv, Unsent
<1>7. \A t \in Threads : SameThread(t) \/ pc'[t] \in {"queued", "next"}
  BY <1>1, <1>2 DEF SameThread, Threads
<1> QED BY <1>2, <1>3, <1>4, <1>5, <1>6, <1>7, QuietStep

(* Steps of a caller before and after it sends replies. *)
LEMMA RequestReply ==
  ASSUME Undisturbed, Inv, ReplyInv, NEW c \in Callers, UNCHANGED <<addr, replies, job, kind>>,
         \A t \in Threads : pc'[t] = pc[t] \/ pc'[t] \notin ReplyPcs \cup {"begin", "finish"},
         \A w \in Workers : Notifying(w) => pc'[w] = pc[w],
         \A j \in Jobs : fate'[j] = "unborn" => fate[j] = "unborn",
         \A j \in Jobs : fate'[j] = "freed" => fate[j] = "freed",
         (\A d \in Callers : ~Ending(d)' \/ ~flush'[d]) =>
           \A n \in DOMAIN queue' : replies[queue'[n]] = <<>>
  PROVE  ReplyInv'
<1>1. \A w \in Workers : (Notifying(w) \/ Notifying(w)') =>
        Notifying(w) /\ Notifying(w)' /\ job'[w] = job[w]
  BY Constants DEF Notifying
<1>2. \A w \in Workers : \/ pc'[w] = "begin"
                         \/ pc'[w] \in Unsent /\ kind'[w] = "STARTING"
                         => replies[job'[w]] = <<>>
  BY Constants DEF ReplyInv, SilentInv, Unsent, ReplyPcs
<1>3. \A t \in Threads :
        \/ SameThread(t)
        \/ /\ pc'[t] = "sent" /\ kind'[t] \in Final => Told(job'[t])
           /\ pc'[t] = "cleanup" => addr[job'[t]] \in Broken
           /\ pc'[t] = "finish" => Told(job'[t])
  BY DEF SameThread, ReplyPcs
<1> QED BY <1>1, <1>2, <1>3, QuietStep

LEMMA CallerReply ==
  ASSUME Undisturbed, Inv, ReplyInv, NEW c \in Callers, Request(c) \/ CallerStep(c)
  PROVE  ReplyInv'
<1>0. TypeInv
  BY DEF Inv
<1>1. CASE QJob(c)
  BY <1>1, QJobReply
<1>2. ASSUME NEW p1 \in BOOLEAN, SrvAbort(c, p1)
      PROVE  ReplyInv'
  <2>1. /\ UNCHANGED <<addr, replies, job, kind, queue, fate>>
        /\ Moves(c, {"idle"}, {"wait_reset", "abort"})
        /\ \A d \in Callers \ {c} : flush'[d] = flush[d]
    BY <1>0, <1>2, SrvAbortStep DEF SrvAbort, jobVars, Moves
  <2>2. \A d \in Callers : (~Ending(d)' \/ ~flush'[d]) => (~Ending(d) \/ ~flush[d])
    BY <2>1, Constants DEF Moves, Ending, ReplyPcs
  <2> QED BY <2>1, <2>2, Constants, RequestReply DEF Moves, ReplyPcs, ReplyInv, SilentInv
<1>3. CASE RemoveLast(c)
  <2>1. /\ UNCHANGED <<addr, replies, job, kind>>
        /\ Moves(c, {"idle"}, {"removed"}) /\ queueMutex = None
        /\ queue # <<>> /\ queue' = SubSeq(queue, 1, Len(queue) - 1)
        /\ fate' = [fate EXCEPT ![queue[Len(queue)]] = "removed"]
    BY <1>0, <1>3, RemoveLastStep DEF RemoveLast
  <2>2. /\ \A j \in Jobs : fate'[j] = "unborn" => fate[j] = "unborn"
        /\ \A j \in Jobs : fate'[j] = "freed" => fate[j] = "freed"
    BY <1>0, <2>1 DEF TypeInv, TypeOK
  <2>3. \A n \in DOMAIN queue' : n \in DOMAIN queue /\ queue'[n] = queue[n]
    <3>1. queue \in Seq(Jobs)
      BY <1>0 DEF TypeInv, TypeOK
    <3>2. /\ queue' \in Seq(Jobs) /\ Len(queue') = Len(queue) - 1
          /\ \A n \in 1 .. Len(queue) - 1 : queue'[n] = queue[n]
      BY <2>1, <3>1, FrontType
    <3>3. DOMAIN queue' = 1 .. Len(queue') /\ DOMAIN queue = 1 .. Len(queue) /\ Len(queue) \in Nat
      BY <3>1, <3>2, LenProperties
    <3> QED BY <3>2, <3>3
  <2>4. \A n \in DOMAIN queue : replies[queue[n]] = <<>>
    BY <2>1, NoneEnding DEF Inv, ReplyInv, SilentInv
  <2>5. \A n \in DOMAIN queue' : replies[queue'[n]] = <<>>
    BY <2>3, <2>4
  <2> QED BY <2>1, <2>2, <2>5, Constants, RequestReply DEF Moves, ReplyPcs
<1>4. CASE SrvSetLogging(c)
  <2>1. UNCHANGED <<addr, replies, job, kind, pc, queue, flush, fate>>
    BY <1>4 DEF SrvSetLogging, threadVars, jobVars
  <2> QED BY <2>1, RequestReply DEF ReplyInv, SilentInv, Ending
<1>5. CASE UnlockQueue(c) \/ CONDITION_WAIT(c)
  <2>1. /\ UNCHANGED <<addr, replies, job, kind, queue, flush, fate>>
        /\ Moves(c, {"queued", "removed"}, {"start_worker", "idle"}) \/ UNCHANGED pc
           \/ Moves(c, {"wait_set", "wait_reset"}, {"idle", "abort"})
    BY <1>0, <1>5, UnlockQueueStep, CONDITION_WAITStep DEF UnlockQueue, CONDITION_WAIT, jobVars, Moves
  <2>2. \A d \in Callers : Ending(d)' <=> Ending(d)
    BY <2>1, Constants DEF Moves, Ending, ReplyPcs
  <2> QED BY <2>1, <2>2, Constants, RequestReply DEF Moves, ReplyPcs, ReplyInv, SilentInv
<1>6. CASE StartWorker(c)
  <2>1. UNCHANGED <<addr, replies, job, kind, queue, flush, fate>>
    BY <1>6 DEF StartWorker, jobVars
  <2>2. /\ \A d \in Callers : pc'[d] = pc[d] \/ (pc[d] = "start_worker" /\ pc'[d] \in {"idle", "wait_set"})
        /\ \A w \in Workers : pc'[w] = pc[w] \/ (pc[w] = "new" /\ pc'[w] = "start")
    BY <1>0, <1>6, StartWorkerStep, Constants DEF Moves
  <2>3. \A d \in Callers : Ending(d)' <=> Ending(d)
    BY <2>2 DEF Ending, ReplyPcs
  <2>4. \A t \in Threads : pc'[t] = pc[t] \/ pc'[t] \notin ReplyPcs \cup {"begin", "finish"}
    BY <2>2 DEF Threads, ReplyPcs
  <2>5. \A w \in Workers : Notifying(w) => pc'[w] = pc[w]
    BY <2>2 DEF Notifying, ReplyPcs
  <2> QED BY <2>1, <2>3, <2>4, <2>5, RequestReply DEF ReplyInv, SilentInv
<1>7. CASE SrvAbort_locked(c)
  <2>1. /\ UNCHANGED <<addr, replies, queue, flush, fate>>
        /\ Moves(c, {"abort"}, {"abort_end", "find"})
    BY <1>0, <1>7, SrvAbort_lockedStep DEF SrvAbort_locked, jobVars
  <2>2. \A u \in Threads \ {c} : SameThread(u)
    BY <1>0, <1>7 DEF SrvAbort_locked, next_abort, StartReply, Goto, SameThread, TypeInv, TypeOK
  <2>3. \A d \in Callers : Ending(d) => Ending(d)'
    BY <2>1, Constants DEF Moves, Ending, ReplyPcs
  <2> QED BY <2>1, <2>2, <2>3, Constants, QuietMove DEF Moves
<1>8. CASE SrvAbort_unlock(c)
  <2>1. /\ UNCHANGED <<addr, replies, job, kind, flush, fate>>
        /\ Moves(c, {"abort_end"}, {"idle"})
        /\ queue' = IF flush[c] THEN <<>> ELSE queue
    BY <1>0, <1>8, SrvAbort_unlockStep DEF SrvAbort_unlock, jobVars
  <2>2. Callers = {c}
    BY <2>1, Alone DEF Inv, Moves, AbortPcs
  <2>3. \A n \in DOMAIN queue' : replies[queue'[n]] = <<>>
    <3>1. CASE flush[c]
      BY <2>1, <3>1
    <3>2. CASE ~flush[c]
      BY <2>1, <2>2, <3>2 DEF ReplyInv, SilentInv
    <3> QED BY <3>1, <3>2
  <2> QED BY <2>1, <2>3, Constants, RequestReply DEF Moves, ReplyPcs
<1>9. CASE send_reply(c)
  BY <1>9, Constants, send_replyReply
<1> QED BY <1>1, <1>2, <1>3, <1>4, <1>5, <1>6, <1>7, <1>8, <1>9 DEF Request, CallerStep

(* Steps of a worker that is not sending. *)
LEMMA WorkingReply ==
  ASSUME Undisturbed, Inv, ReplyInv, NEW w \in Workers, UNCHANGED <<addr, replies, queue, flush>>,
         \A u \in Threads \ {w} : SameThread(u),
         \A j \in Jobs : fate'[j] = "unborn" => fate[j] = "unborn",
         \A j \in Jobs : fate'[j] = "freed" => fate[j] = "freed" \/ Told(j),
         ~Notifying(w), ~Notifying(w)',
         pc'[w] \notin {"begin", "sent", "cleanup", "finish"},
         pc'[w] \in Unsent /\ kind'[w] = "STARTING" => replies[job'[w]] = <<>>
  PROVE  ReplyInv'
<1>1. \A c \in Callers : Ending(c) => Ending(c)'
  BY Constants DEF Ending, SameThread
<1> QED BY <1>1, Constants, QuietMove

LEMMA WorkerReply ==
  ASSUME Undisturbed, Unbroken, Inv, ReplyInv, NEW w \in Workers, WorkerStep(w)
  PROVE  ReplyInv'
<1>0. TypeInv /\ w \in Threads
  BY Constants DEF Inv
<1>1. CASE worker_start(w)
  BY <1>0, <1>1, WorkingReply DEF worker_start, Goto, SameThread, TypeInv, TypeOK, Notifying, ReplyPcs,
    Unsent, jobVars
<1>2. CASE NextJob(w)
  <2>1. CASE queue = <<>>
    BY <1>0, <1>2, <2>1, WorkingReply DEF NextJob, Goto, SameThread, TypeInv, TypeOK, Notifying, ReplyPcs,
      Unsent, jobVars
  <2>2. CASE queue # <<>>
    <3>1. /\ UNCHANGED <<addr, replies, fate, flush, kind>> /\ queueMutex = None
          /\ pc[w] = "next" /\ pc'[w] = "begin"
          /\ \A u \in Threads \ {w} : SameThread(u)
          /\ job'[w] = Head(queue) /\ queue' = Tail(queue)
      BY <1>0, <1>2, <2>2 DEF NextJob, QUEUE_LOCK, Goto, SameThread, TypeInv, TypeOK, jobVars
    <3>2. \A n \in DOMAIN queue : replies[queue[n]] = <<>>
      BY <3>1, NoneEnding DEF Inv, ReplyInv, SilentInv
    <3>3. /\ replies[job'[w]] = <<>>
          /\ \A n \in DOMAIN queue' : replies[queue'[n]] = <<>>
      <4>1. queue \in Seq(Jobs)
        BY <1>0 DEF TypeInv, TypeOK
      <4>2. /\ Head(queue) = queue[1] /\ Len(queue) \in Nat \ {0} /\ DOMAIN queue = 1 .. Len(queue)
            /\ queue' \in Seq(Jobs) /\ Len(queue') = Len(queue) - 1
            /\ \A n \in 1 .. Len(queue') : queue'[n] = queue[n + 1]
        BY <2>2, <3>1, <4>1, HeadTailProperties, EmptySeq, LenProperties
      <4>3. DOMAIN queue' = 1 .. Len(queue')
        BY <4>2, LenProperties
      <4>4. 1 \in DOMAIN queue /\ \A n \in DOMAIN queue' : n + 1 \in DOMAIN queue
        BY <4>2, <4>3
      <4> QED BY <3>1, <3>2, <4>2, <4>3, <4>4
    <3>4. \A u \in Workers : (Notifying(u) \/ Notifying(u)') =>
            Notifying(u) /\ Notifying(u)' /\ job'[u] = job[u]
      BY <3>1, Constants DEF Notifying, SameThread, ReplyPcs
    <3>5. \A u \in Workers : \/ pc'[u] = "begin"
                             \/ pc'[u] \in Unsent /\ kind'[u] = "STARTING"
                             => replies[job'[u]] = <<>>
      BY <3>1, <3>3, Constants DEF ReplyInv, SilentInv, SameThread
    <3> QED BY <3>1, <3>3, <3>4, <3>5, QuietStep
  <2> QED BY <2>1, <2>2
<1>3. CASE SetCurrentJob(w)
  <2>1. /\ UNCHANGED <<addr, replies, queue, flush, fate, job>>
        /\ \A u \in Threads \ {w} : SameThread(u)
        /\ pc[w] = "begin"
        /\ pc'[w] = "run" \/ (pc'[w] = "find" /\ kind'[w] = "STARTING")
    BY <1>0, <1>3 DEF SetCurrentJob, StartReply, Goto, SameThread, TypeInv, TypeOK, jobVars
  <2>2. replies[job'[w]] = <<>>
    BY <2>1 DEF ReplyInv, SilentInv
  <2> QED BY <2>1, <2>2, WorkingReply DEF Notifying, ReplyPcs
<1>4. CASE worker_run(w)
  <2>1. CASE SendToMonitors(w)
    <3>1. pc[w] \in Serving
      BY <1>4 DEF worker_run, Serving
    <3> QED BY <1>4, <2>1, <3>1, MonitorMove DEF worker_run, SendToMonitors
  <2>2. CASE DoSrvAction(w) \/ DoSrvCommand(w) \/ AddMonitorClient(w)
    <3>1. /\ UNCHANGED <<addr, replies, queue, flush, fate, job>> /\ pc[w] = "run"
          /\ \A u \in Threads \ {w} : SameThread(u)
          /\ \/ pc'[w] \in {"log", "task"}
             \/ pc'[w] = "find" /\ kind'[w] \in {"FINISHED", "CHECKEDIN"}
      BY <1>0, <1>4, <2>2 DEF worker_run, DoSrvAction, DoSrvCommand, AddMonitorClient, StartReply, Goto,
        SameThread, TypeInv, TypeOK
    <3> QED BY <3>1, WorkingReply DEF Notifying, ReplyPcs, Unsent
  <2> QED BY <1>4, <2>1, <2>2 DEF worker_run
<1>5. CASE log_line(w) \/ log_written(w) \/ task_done(w)
  <2>1. /\ UNCHANGED <<addr, replies, queue, flush, fate, job>>
        /\ pc[w] \in {"log", "log_done", "logging", "logging_done", "task"}
        /\ \A u \in Threads \ {w} : SameThread(u)
        /\ \/ pc'[w] \in {"logging", "logging_done", "task", "log_done"}
           \/ pc'[w] = "find" /\ kind'[w] = "FINISHED"
    BY <1>0, <1>5 DEF log_line, log_written, task_done, StartReply, Goto, SameThread, TypeInv, TypeOK, jobVars
  <2> QED BY <2>1, WorkingReply DEF Notifying, ReplyPcs, Unsent
<1>6. CASE worker_finish(w)
  <2>1. /\ UNCHANGED <<addr, replies, queue, flush>>
        /\ \A u \in Threads \ {w} : SameThread(u)
        /\ pc[w] = "finish" /\ pc'[w] = "next"
        /\ job[w] \in Jobs /\ fate' = [fate EXCEPT ![job[w]] = "freed"]
    BY <1>0, <1>6, worker_finishStep DEF worker_finish, Goto, SameThread, TypeInv, TypeOK
  <2>2. Told(job[w])
    BY <1>0, <2>1 DEF ReplyInv, ToldInv, ToldAt
  <2>3. /\ \A j \in Jobs : fate'[j] = "unborn" => fate[j] = "unborn"
        /\ \A j \in Jobs : fate'[j] = "freed" => fate[j] = "freed" \/ Told(j)
    BY <1>0, <2>1, <2>2 DEF TypeInv, TypeOK
  <2> QED BY <2>1, <2>3, WorkingReply DEF Notifying, ReplyPcs, Unsent
<1>7. CASE cancelled(w)
  <2>1. /\ UNCHANGED <<addr, replies, queue, flush, fate, job>>
        /\ \A u \in Threads \ {w} : SameThread(u)
        /\ pc'[w] = "exit" /\ w \in cancel
    BY <1>0, <1>7 DEF cancelled, Goto, SameThread, TypeInv, TypeOK, jobVars
  <2>2. ~Notifying(w)
    <3>1. aborts # 0
      BY <2>1 DEF Inv, ControlInv, UnabortedInv
    <3>2. MaxAborts # 0
      BY <1>0, <3>1 DEF TypeInv, TypeOK
    <3>3. \A j \in Jobs : op[j] # "broadcast"
      BY <3>2 DEF Unbroken
    <3>4. pc[w] \in ReplyPcs => job[w] \in Jobs
      BY <1>0, SendingReply
    <3> QED BY <3>3, <3>4 DEF ReplyInv, MonitorInv, Notifying
  <2> QED BY <2>1, <2>2, WorkingReply DEF Notifying, ReplyPcs, Unsent
<1>8. CASE WorkerExit(w)
  BY <1>0, <1>8, WorkingReply DEF WorkerExit, Goto, SameThread, TypeInv, TypeOK, Notifying, ReplyPcs,
    Unsent, jobVars
<1>9. CASE send_reply(w)
  BY <1>0, <1>9, send_replyReply
<1> QED BY <1>1, <1>2, <1>3, <1>4, <1>5, <1>6, <1>7, <1>8, <1>9 DEF WorkerStep

LEMMA InitReply == Init => ReplyInv
<1> SUFFICES ASSUME Init PROVE ReplyInv
  OBVIOUS
<1>1. /\ addr = owner /\ \A j \in Jobs : fate[j] = "unborn" /\ replies[j] = <<>>
      /\ \A t \in Threads : pc[t] \in {"idle", "new"}
      /\ queue = <<>>
  BY DEF Init
<1>2. AddrInv /\ MonitorInv /\ SilentInv
  <2>1. AddrInv /\ MonitorInv
    BY <1>1, Constants DEF AddrInv, MonitorInv, Notifying, ReplyPcs
  <2>2. SilentInv
    BY <1>1, Constants DEF SilentInv, Unsent
  <2> QED BY <2>1, <2>2
<1>3. ToldInv /\ StartFirst
  BY <1>1 DEF ToldInv, ToldAt, StartFirst
<1> QED BY <1>2, <1>3 DEF ReplyInv

(***************************************************************************)
(* A job is not forgotten before its final reply was sent to the socket     *)
(* named in the request, or that socket failed; STARTING comes first.  It   *)
(* holds whenever the worker is cancelled, since the abort that follows     *)
(* answers for what was left - but for a broadcast, which borrows the       *)
(* address of its job (Unbroken).                                           *)
(***************************************************************************)
THEOREM JobsAnswered == ASSUME Undisturbed, Unbroken PROVE Spec => []Answered
<1>1. Init => Inv /\ ReplyInv
  BY InitType, InitControl, InitJobs, InitReply DEF Inv
<1>2. Inv /\ ReplyInv /\ [Next]_vars => (Inv /\ ReplyInv)'
  <2> SUFFICES ASSUME Inv, ReplyInv, [Next]_vars PROVE (Inv /\ ReplyInv)'
    OBVIOUS
  <2>1. Inv'
    BY NextType, NextControl, NextJobs DEF Inv
  <2>2. CASE UNCHANGED vars
    BY <2>1, <2>2 DEF vars, ReplyInv, AddrInv, MonitorInv, SilentInv, ToldInv, ToldAt, StartFirst, Told,
      Notifying, Ending
  <2>3. CASE Next
    BY <2>1, <2>3, CallerReply, WorkerReply DEF Next
  <2> QED BY <2>1, <2>2, <2>3
<1>3. ReplyInv => Answered
  BY DEF ReplyInv, ToldInv, StartFirst, Told, Answered
<1> QED BY <1>1, <1>2, <1>3, PTL DEF Spec
================================================================================
