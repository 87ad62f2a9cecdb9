-------------------------------- MODULE JobTable --------------------------------
(***************************************************************************)
(* Job.h, Client.h, ServerSendMessage.c: messages to action servers and     *)
(* the jobs that wait for their replies.                                    *)
(*                                                                          *)
(* Threads of the program send messages and wait; one receiver thread reads *)
(* the reply sockets.  Each message is a job in the list Jobs until its     *)
(* reply came or the connection it was sent on is given up.  A completion   *)
(* callback may itself send a message, from whatever thread it runs in, so  *)
(* a thread is a call stack.  Sections under jobs_mutex are single steps;   *)
(* clients_mutex is also held across callbacks and is a variable.           *)
(*                                                                          *)
(* Freed memory keeps its last value.                                       *)
(***************************************************************************)
EXTENDS Integers, Sequences, FiniteSets

CONSTANTS
  Senders,       \* threads of the program
  Servers,
  Messages,      \* the calls of ServerSendMessage, also their job ids
  to,            \* to[m]: the server
  kind,          \* kind[m], see Kinds
  next,          \* next[m]: the message the callback of m sends, or None
  host,          \* host[s]: the address of a server
  Fragile,       \* servers that may go away
  Glitches,      \* BOOLEAN: connecting or the handshake may fail
  Events,        \* the job ids in the events a server sends to its monitors
  MaxEvents,     \* bound on their number
  Disconnects,   \* servers ServerDisconnect is called for
  MaxDisconnects,\* bound on its calls
  Cancels,       \* BOOLEAN: a thread in ServerWait may be cancelled
  None

(***************************************************************************)
(* "action": with a callback and a lock; "wait": synchronous, no callback;  *)
(* "checkin": of a monitor; "stop": SrvStop.                                *)
(***************************************************************************)
Kinds == {"action", "wait", "checkin", "stop"}
receiver == "receiver"
Threads == Senders \cup {receiver}

ASSUME MessageType ==
  /\ receiver \notin Senders
  /\ IsFiniteSet(Servers)
  /\ to \in [Messages -> Servers]
  /\ kind \in [Messages -> Kinds]
  /\ next \in [Messages -> Messages \cup {None}]
  /\ None \notin Messages /\ None \notin Threads /\ None \notin Servers
  /\ Fragile \subseteq Servers /\ Disconnects \subseteq Servers
  /\ Events \subseteq Messages \cup {None}   \* None: not one of this process
  /\ {Glitches, Cancels} \subseteq BOOLEAN
  /\ MaxEvents \in Nat /\ MaxDisconnects \in Nat

Followups == {m \in Messages : \E p \in Messages : next[p] = m}
HasCallback(m) == kind[m] \in {"action", "checkin"}

VARIABLES
  \* the program
  todo,        \* the messages no thread has sent yet
  stack,       \* the calls in progress of each thread
  \* Job.h
  Jobs,        \* the list; its order is left open
  MonJob,
  armed,       \* the jobs with callback_done # NULL
  cond,        \* per job: no condition, or cond_var
  retstatus,   \* per message: what its *retstatus holds
  freed,       \* jobs that were freed
  known,       \* jobs that were registered
  calls,       \* per message: how often its callback was called
  \* Client.h and the connection lists of the threads
  Clients,     \* per server: the conid of its entry in the list, None if it has none
  sock,        \* per server: whose reply socket its entry holds
  stale,       \* the servers whose entry was freed and is still in the list
  clientsMutex,
  openIn,      \* per connection: the thread that has it in its list
  conid,       \* per message: its connection, named after the first message on it
  badfd, rep,  \* a closed socket is in fdactive; the loop index of receiver_thread
  \* the servers
  dead, work,
  begun, finished, \* the messages a server has begun, finished and answered
  link,        \* per server: its reply socket
  wire,        \* per server: what it sent on it
  events, disconnects

programVars == <<todo, disconnects>>
jobVars == <<Jobs, MonJob, armed, cond, retstatus, freed, known, calls>>
clientVars == <<Clients, sock, stale, clientsMutex, openIn, conid, badfd, rep>>
serverVars == <<dead, work, begun, finished, link, wire, events>>
vars == <<todo, stack, Jobs, MonJob, armed, cond, retstatus, freed, known, calls, Clients,
          sock, stale, clientsMutex, openIn, conid, badfd, rep, dead, work, begun, finished, link, wire,
          events, disconnects>>

(***************************************************************************)
(* Frames: "connect", "register", "send", "answer" in ServerSendMessage(m); *)
(* "cleanup" Job_cleanup(m); "callback" Job_callback_done(m, st), and       *)
(* "finish" its end when remove is set; "free" free(m); "pop" the loop of   *)
(* Job_pop_by_conid(m); "unlock" UNLOCK_CLIENTS; "before"                   *)
(* Job_callback_before(m); "wait", "asleep" ServerWait(m); "message"        *)
(* Client_do_message of the client with connection m and server s.          *)
(***************************************************************************)
Fns == {"connect", "register", "send", "answer", "cleanup", "callback", "finish", "free",
        "pop", "unlock", "before", "wait", "asleep", "message"}
States == {"unset", "ok", "down"}
Frames == [fn : Fns \ {"unlock"}, m : Messages, st : States, rm : BOOLEAN, s : Servers \cup {None}]
          \cup [fn : {"unlock"}, m : {None}, st : {"unset"}, rm : {FALSE}, s : {None}]
Msgs == [type : {"STARTING", "FINISHED", "CHECKEDIN"}, m : Messages \cup {None}]

Call(fn, m, st) == [fn |-> fn, m |-> m, st |-> st, rm |-> FALSE, s |-> None]

ProgramType == todo \subseteq Messages /\ disconnects \in 0 .. MaxDisconnects

StackType == stack \in [Threads -> Seq(Frames)]

JobType ==
  /\ Jobs \subseteq Messages
  /\ MonJob \in Messages \cup {None}
  /\ armed \subseteq Messages
  /\ cond \in [Messages -> {"NULL", "0", "1"}]
  /\ retstatus \in [Messages -> States]
  /\ freed \subseteq Messages /\ known \subseteq Messages
  /\ calls \in [Messages -> Nat]

ClientType ==
  /\ Clients \in [Servers -> Messages \cup {None}]
  /\ sock \in [Servers -> Servers \cup {None}]
  /\ stale \subseteq Servers
  /\ clientsMutex \in Threads \cup {None}
  /\ openIn \in [Messages -> Threads \cup {None}]
  /\ conid \in [Messages -> Messages \cup {None}]
  /\ badfd \in BOOLEAN /\ rep \in {0, 1}

ServerType ==
  /\ dead \subseteq Servers
  /\ work \in [Servers -> SUBSET Messages]
  /\ begun \subseteq Messages /\ finished \subseteq Messages
  /\ link \in [Servers -> {"none", "backlog", "open", "closed"}]
  /\ wire \in [Servers -> Seq(Msgs)]
  /\ events \in 0 .. MaxEvents

TypeOK == ProgramType /\ StackType /\ JobType /\ ClientType /\ ServerType

Init ==
  /\ todo = Messages
  /\ stack = [t \in Threads |-> <<>>]
  /\ Jobs = {} /\ MonJob = None /\ armed = {}
  /\ cond = [m \in Messages |-> "NULL"]
  /\ retstatus = [m \in Messages |-> "unset"]
  /\ freed = {} /\ known = {}
  /\ calls = [m \in Messages |-> 0]
  /\ Clients = [s \in Servers |-> None]
  /\ sock = [s \in Servers |-> None]
  /\ stale = {} /\ clientsMutex = None
  /\ openIn = [m \in Messages |-> None]
  /\ conid = [m \in Messages |-> None]
  /\ badfd = FALSE /\ rep = 0
  /\ dead = {}
  /\ work = [s \in Servers |-> {}]
  /\ begun = {} /\ finished = {}
  /\ link = [s \in Servers |-> "none"]
  /\ wire = [s \in Servers |-> <<>>]
  /\ events = 0 /\ disconnects = 0

-----------------------------------------------------------------------------
(* The call stack of a thread: the top is the head. *)

At(t, fn) == stack[t] # <<>> /\ Head(stack[t]).fn = fn
Top(t) == Head(stack[t])
Become(t, frames) == stack' = [stack EXCEPT ![t] = frames \o Tail(@)]

(* Job_callback_done(m, st, remove) as a frame. *)
Done(m, st, remove) == [Call("callback", m, st) EXCEPT !.rm = remove]

(* callback_done(callback_param): the callback may send the next message. *)
CallbackSends(m) == IF next[m] \in todo THEN <<Call("connect", next[m], "unset")>> ELSE <<>>
CallbackTakes(m) == todo' = todo \ {next[m]}

(* get_socket_by_conid: a thread only sees the connections in its own list. *)
HasSocket(t, c) == c # None /\ openIn[c] = t

(* DisconnectFromMds(c) closes a connection in the caller's own list. *)
DisconnectFromMds(t, c) ==
  openIn' = [openIn EXCEPT ![c] = IF @ = t THEN None ELSE @]

-----------------------------------------------------------------------------
(* ServerSendMessage. *)

(* TclDispatch waits for a synchronous message, sent or not. *)
AfterSend(m) == IF kind[m] = "wait" THEN <<Call("wait", m, "unset")>> ELSE <<>>

(***************************************************************************)
(* server_connect, under clients_mutex.  The connection of the client is    *)
(* reused if this thread opened it, otherwise a new one takes its place.    *)
(* When that fails, the callback is called and nothing is registered.  (The *)
(* same is done on a socket without a local address, which a connection     *)
(* that was just found or made does not have.)                              *)
(***************************************************************************)
server_connect(t) ==
  /\ At(t, "connect")
  /\ clientsMutex = None
  /\ LET m == Top(t).m
         s == to[m]
     IN
     \/ /\ HasSocket(t, Clients[s])
        /\ conid' = [conid EXCEPT ![m] = Clients[s]]
        /\ Become(t, <<Call("register", m, "unset")>>)
        /\ UNCHANGED <<Clients, openIn, todo, calls>>
     \/ /\ ~HasSocket(t, Clients[s]) /\ s \notin dead
        /\ conid' = [conid EXCEPT ![m] = m]
        /\ openIn' = [openIn EXCEPT ![m] = t]
        /\ Clients' = [Clients EXCEPT ![s] = m]
        /\ Become(t, <<Call("register", m, "unset")>>)
        /\ UNCHANGED <<todo, calls>>
     \/ /\ ~HasSocket(t, Clients[s])
        /\ s \in dead \/ Glitches
        /\ IF HasCallback(m)
             THEN /\ calls' = [calls EXCEPT ![m] = @ + 1]
                  /\ CallbackTakes(m)
                  /\ Become(t, CallbackSends(m))
             ELSE Become(t, AfterSend(m)) /\ UNCHANGED <<todo, calls>>
        /\ UNCHANGED <<Clients, openIn, conid>>
  /\ UNCHANGED <<Jobs, MonJob, armed, cond, retstatus, freed, known, sock, stale, clientsMutex,
                 badfd, rep, serverVars, disconnects>>

Job_register(t) ==
  /\ At(t, "register")
  /\ LET m == Top(t).m IN
     /\ Jobs' = Jobs \cup {m}
     /\ known' = known \cup {m}
     /\ armed' = IF HasCallback(m) THEN armed \cup {m} ELSE armed
     /\ cond' = [cond EXCEPT ![m] = IF kind[m] = "wait" THEN "0" ELSE "NULL"]
     /\ MonJob' = IF kind[m] = "checkin" THEN m ELSE MonJob
     /\ Become(t, <<Call("send", m, "unset")>>)
  /\ UNCHANGED <<retstatus, freed, calls, programVars, clientVars, serverVars>>

(***************************************************************************)
(* SendArg: the server gets the message, unless it is gone.  A server that  *)
(* gets SrvStop exits.                                                      *)
(***************************************************************************)
SendArg(t) ==
  /\ At(t, "send")
  /\ LET m == Top(t).m
         s == to[m]
     IN
     \/ /\ s \notin dead /\ HasSocket(t, conid[m])
        /\ Become(t, <<Call("answer", m, "unset")>>)
        /\ IF kind[m] = "stop"
             THEN dead' = dead \cup {s} /\ work' = [work EXCEPT ![s] = {}]
             ELSE work' = [work EXCEPT ![s] = @ \cup {m}] /\ UNCHANGED dead
     \/ /\ s \in dead \/ ~HasSocket(t, conid[m])
        /\ Become(t, <<Call("cleanup", m, "down")>> \o AfterSend(m))
        /\ UNCHANGED <<dead, work>>
  /\ UNCHANGED <<programVars, jobVars, clientVars, begun, finished, link, wire, events>>

(* Mutant of GetAnswerInfoTS: the jobs are told success when it failed. *)
GetAnswerInfoTS_ok(t) ==
  /\ At(t, "answer")
  /\ LET m == Top(t).m IN
     \/ Become(t, AfterSend(m))
     \/ /\ to[m] \in dead \/ Glitches
        /\ Become(t, <<Call("cleanup", m, "ok")>> \o AfterSend(m))
  /\ UNCHANGED <<programVars, jobVars, clientVars, serverVars>>

(***************************************************************************)
(* GetAnswerInfoTS: the handshake, or an error when the connection failed.  *)
(* SrvStop is never answered, because the server exits in ServerQAction:    *)
(* the error counts as success, and is reported as such to every job on the *)
(* connection.                                                              *)
(***************************************************************************)
GetAnswerInfoTS(t) ==
  /\ At(t, "answer")
  /\ LET m == Top(t).m IN
     \/ /\ kind[m] # "stop"
        /\ Become(t, AfterSend(m))
     \/ /\ kind[m] # "stop"
        /\ to[m] \in dead \/ Glitches
        /\ Become(t, <<Call("cleanup", m, "down")>> \o AfterSend(m))
     \/ /\ kind[m] = "stop"
        /\ Become(t, <<Call("cleanup", m, "ok")>>)
  /\ UNCHANGED <<programVars, jobVars, clientVars, serverVars>>

(***************************************************************************)
(* Job_cleanup: nothing is left to do if another thread popped the job.     *)
(***************************************************************************)
Job_cleanup(t) ==
  /\ At(t, "cleanup")
  /\ LET m == Top(t).m
         st == Top(t).st
     IN
     \/ /\ m \notin Jobs
        /\ Become(t, <<>>)
        /\ UNCHANGED <<Jobs, openIn>>
     \/ /\ m \in Jobs
        /\ Jobs' = Jobs \ {m}
        /\ DisconnectFromMds(t, conid[m])
        /\ Become(t, <<Done(m, st, FALSE), Call("free", m, st), Call("pop", conid[m], st)>>)
  /\ UNCHANGED <<MonJob, armed, cond, retstatus, freed, known, calls, programVars, Clients,
                 sock, stale, clientsMutex, conid, badfd, rep, serverVars>>

-----------------------------------------------------------------------------
(* What happens to a job. *)

(* Mutant of Job_callback_done: the callback is left in the job. *)
Job_callback_done_keeps(t) ==
  /\ At(t, "callback")
  /\ LET m == Top(t).m IN
     /\ retstatus' = [retstatus EXCEPT ![m] = Top(t).st]
     /\ UNCHANGED armed
     /\ calls' = [calls EXCEPT ![m] = IF m \in armed THEN @ + 1 ELSE @]
     /\ Become(t, (IF m \in armed THEN CallbackSends(m) ELSE <<>>)
                  \o (IF Top(t).rm THEN <<Call("finish", m, "unset")>> ELSE <<>>))
     /\ IF m \in armed THEN CallbackTakes(m) ELSE UNCHANGED todo
  /\ UNCHANGED <<Jobs, MonJob, cond, freed, known, clientVars, serverVars, disconnects>>

(***************************************************************************)
(* Job_callback_done: under the caller's lock the status is stored and the  *)
(* callback is taken out of the job, except for the monitor's job; then it  *)
(* is called.                                                               *)
(***************************************************************************)
Job_callback_done(t) ==
  /\ At(t, "callback")
  /\ LET m == Top(t).m
         isMon == m = MonJob
     IN
     /\ retstatus' = [retstatus EXCEPT ![m] = Top(t).st]
     /\ armed' = IF isMon THEN armed ELSE armed \ {m}
     /\ calls' = [calls EXCEPT ![m] = IF m \in armed THEN @ + 1 ELSE @]
     /\ Become(t, (IF m \in armed THEN CallbackSends(m) ELSE <<>>)
                  \o (IF Top(t).rm /\ ~isMon THEN <<Call("finish", m, "unset")>> ELSE <<>>))
     /\ IF m \in armed THEN CallbackTakes(m) ELSE UNCHANGED todo
  /\ UNCHANGED <<Jobs, MonJob, cond, freed, known, clientVars, serverVars, disconnects>>

(* Mutant of Job_finish: the waiting thread is not told. *)
Job_finish_silent(t) ==
  /\ At(t, "finish")
  /\ LET m == Top(t).m IN
     /\ cond[m] = "NULL" /\ m \in Jobs
     /\ Jobs' = Jobs \ {m}
     /\ freed' = freed \cup {m}
     /\ Become(t, <<>>)
  /\ UNCHANGED <<MonJob, armed, cond, retstatus, known, calls, programVars, clientVars, serverVars>>

(* Mutant of Job_finish: the job is freed although a thread waits for it. *)
Job_finish_frees(t) ==
  /\ At(t, "finish")
  /\ LET m == Top(t).m IN
     /\ cond' = [cond EXCEPT ![m] = IF @ = "NULL" THEN @ ELSE "1"]
     /\ Jobs' = Jobs \ {m}
     /\ freed' = freed \cup {m}
  /\ Become(t, <<>>)
  /\ UNCHANGED <<MonJob, armed, retstatus, known, calls, programVars, clientVars, serverVars>>

(***************************************************************************)
(* The end of Job_callback_done with remove set: a thread that waits is     *)
(* told and pops the job itself, any other job is popped here.              *)
(***************************************************************************)
Job_finish(t) ==
  /\ At(t, "finish")
  /\ LET m == Top(t).m IN
     \/ /\ cond[m] # "NULL"
        /\ cond' = [cond EXCEPT ![m] = "1"]
        /\ UNCHANGED <<Jobs, freed>>
     \/ /\ cond[m] = "NULL"
        /\ Jobs' = Jobs \ {m}
        /\ freed' = IF m \in Jobs THEN freed \cup {m} ELSE freed
        /\ UNCHANGED cond
  /\ Become(t, <<>>)
  /\ UNCHANGED <<MonJob, armed, retstatus, known, calls, programVars, clientVars, serverVars>>

free(t) ==
  /\ At(t, "free")
  /\ freed' = freed \cup {Top(t).m}
  /\ Become(t, <<>>)
  /\ UNCHANGED <<Jobs, MonJob, armed, cond, retstatus, known, calls,
                 programVars, clientVars, serverVars>>

(* Mutant of Job_pop_by_conid: the loop ends after one job. *)
Job_pop_by_conid_once(t) ==
  /\ At(t, "pop")
  /\ LET st == Top(t).st
         on == {j \in Jobs : conid[j] = Top(t).m}
     IN
     \/ on = {} /\ Become(t, <<>>) /\ UNCHANGED Jobs
     \/ \E j \in on :
          /\ Jobs' = Jobs \ {j}
          /\ Become(t, <<Done(j, st, FALSE), Call("free", j, st)>>)
  /\ UNCHANGED <<MonJob, armed, cond, retstatus, freed, known, calls,
                 programVars, clientVars, serverVars>>

(* Mutant of Job_pop_by_conid: the jobs are freed and not called back. *)
Job_pop_by_conid_silent(t) ==
  /\ At(t, "pop")
  /\ LET on == {j \in Jobs : conid[j] = Top(t).m} IN
     /\ Jobs' = Jobs \ on
     /\ freed' = freed \cup on
     /\ Become(t, <<>>)
  /\ UNCHANGED <<MonJob, armed, cond, retstatus, known, calls,
                 programVars, clientVars, serverVars>>

(***************************************************************************)
(* The loops of Job_cleanup and Client_cleanup_jobs: a job on the           *)
(* connection is popped, called back and freed, until there is none.        *)
(***************************************************************************)
Job_pop_by_conid(t) ==
  /\ At(t, "pop")
  /\ LET st == Top(t).st
         on == {j \in Jobs : conid[j] = Top(t).m}
     IN
     \/ on = {} /\ Become(t, <<>>) /\ UNCHANGED Jobs
     \/ \E j \in on :
          /\ Jobs' = Jobs \ {j}
          /\ Become(t, <<Done(j, st, FALSE), Call("free", j, st), Top(t)>>)
  /\ UNCHANGED <<MonJob, armed, cond, retstatus, freed, known, calls,
                 programVars, clientVars, serverVars>>

(***************************************************************************)
(* ServerWait: a job that is gone is not waited for; one that is answered   *)
(* is popped; otherwise the thread sleeps.                                  *)
(***************************************************************************)
ServerWait(t) ==
  /\ At(t, "wait")
  /\ LET m == Top(t).m IN
     \/ /\ m \in Jobs /\ cond[m] = "0"
        /\ Become(t, <<Call("asleep", m, "unset")>>)
        /\ UNCHANGED <<Jobs, cond, freed>>
     \/ /\ m \in Jobs /\ cond[m] = "1"
        /\ Jobs' = Jobs \ {m}
        /\ cond' = [cond EXCEPT ![m] = "NULL"]
        /\ freed' = freed \cup {m}
        /\ Become(t, <<>>)
     \/ /\ m \notin Jobs \/ cond[m] = "NULL"
        /\ Become(t, <<>>)
        /\ UNCHANGED <<Jobs, cond, freed>>
  /\ UNCHANGED <<MonJob, armed, retstatus, known, calls, programVars, clientVars, serverVars>>

(* The wait ends: by Job_finish, or because the thread is cancelled. *)
Job_wait_and_pop_locked(t) ==
  /\ At(t, "asleep")
  /\ LET m == Top(t).m IN
     /\ cond[m] = "1"
     /\ cond' = [cond EXCEPT ![m] = "NULL"]
     /\ Jobs' = Jobs \ {m}
     /\ freed' = freed \cup {m}
  /\ Become(t, <<>>)
  /\ UNCHANGED <<MonJob, armed, retstatus, known, calls, programVars, clientVars, serverVars>>

Job_abandon_locked(t) ==
  /\ Cancels
  /\ At(t, "asleep")
  /\ cond' = [cond EXCEPT ![Top(t).m] = "NULL"]
  /\ Become(t, <<>>)
  /\ UNCHANGED <<Jobs, MonJob, armed, retstatus, freed, known, calls,
                 programVars, clientVars, serverVars>>

-----------------------------------------------------------------------------
(* The list of clients. *)

(***************************************************************************)
(* Client_free: the reply socket is closed (what was not read is lost), and *)
(* DisconnectFromMds.  ServerDisconnect cannot take the socket out of       *)
(* fdactive.                                                                *)
(***************************************************************************)
Client_free(t, s) ==
  /\ DisconnectFromMds(t, Clients[s])
  /\ IF sock[s] = None
       THEN UNCHANGED <<link, wire, badfd>>
       ELSE /\ link' = [link EXCEPT ![sock[s]] = "closed"]
            /\ wire' = [wire EXCEPT ![sock[s]] = <<>>]
            /\ badfd' = (badfd \/ t # receiver)

Client_pop_locked(s) ==
  /\ Clients' = [Clients EXCEPT ![s] = None]
  /\ sock' = [sock EXCEPT ![s] = None]
  /\ stale' = stale \ {s}

(* ServerDisconnect keeps clients_mutex while the jobs are called back. *)
ServerDisconnect(t, s) ==
  /\ stack[t] = <<>>
  /\ s \in Disconnects /\ disconnects < MaxDisconnects
  /\ clientsMutex = None
  /\ Clients[s] # None
  /\ disconnects' = disconnects + 1
  /\ clientsMutex' = t
  /\ Client_free(t, s)
  /\ Client_pop_locked(s)
  /\ stack' = [stack EXCEPT ![t] = <<Call("pop", Clients[s], "down"), Call("unlock", None, "unset")>>]
  /\ UNCHANGED <<jobVars, todo, conid, rep, dead, work, begun, finished, events>>

unlock_clients(t) ==
  /\ At(t, "unlock")
  /\ clientsMutex' = None
  /\ Become(t, <<>>)
  /\ UNCHANGED <<programVars, jobVars, Clients, sock, stale, openIn, conid, badfd, rep, serverVars>>

-----------------------------------------------------------------------------
(* The receiver thread. *)

(***************************************************************************)
(* accept_client: the socket goes to a client at the same address that has  *)
(* none, or is dropped.                                                     *)
(***************************************************************************)
accept_client(s) ==
  /\ stack[receiver] = <<>>
  /\ link[s] = "backlog"
  /\ clientsMutex = None
  /\ LET fits == {c \in Servers : host[c] = host[s] /\ Clients[c] # None /\ sock[c] = None} IN
     \/ \E c \in fits :
          /\ sock' = [sock EXCEPT ![c] = s]
          /\ link' = [link EXCEPT ![s] = "open"]
          /\ UNCHANGED wire
     \/ /\ fits = {}
        /\ link' = [link EXCEPT ![s] = "closed"]
        /\ wire' = [wire EXCEPT ![s] = <<>>]
        /\ UNCHANGED sock
  /\ rep' = IF badfd THEN rep ELSE 0
  /\ UNCHANGED <<programVars, jobVars, stack, Clients, stale, clientsMutex, openIn, conid, badfd,
                 dead, work, begun, finished, events>>

(***************************************************************************)
(* receiver_thread finds the client with something to read under            *)
(* clients_mutex and reads after it was released.                           *)
(***************************************************************************)
Readable(s) == wire[s] # <<>> \/ s \in dead

receiver_thread(c) ==
  /\ stack[receiver] = <<>>
  /\ clientsMutex = None
  /\ Clients[c] # None /\ sock[c] # None /\ link[sock[c]] = "open"
  /\ Readable(sock[c])
  /\ stack' = [stack EXCEPT ![receiver] =
                 <<[Call("message", Clients[c], "unset") EXCEPT !.s = c]>>]
  /\ rep' = IF badfd THEN rep ELSE 0
  /\ UNCHANGED <<programVars, jobVars, Clients, sock, stale, clientsMutex, openIn, conid, badfd, serverVars>>

(* Mutant of Recipient: the head of the list when there is no such job. *)
Recipient_head(m) ==
  IF m \in Jobs THEN m ELSE IF Jobs = {} THEN None ELSE CHOOSE j \in Jobs : TRUE

(* Job_get_by_jobid: the job of the reply, or the monitor's. *)
Recipient(m) == IF m \in Jobs THEN m ELSE IF MonJob \in Jobs THEN MonJob ELSE None

(* Mutant of Deliver: a reply nobody waits for is not dropped. *)
Deliver_unchecked(msg) ==
  IF msg.type = "CHECKEDIN" THEN <<>>
  ELSE IF msg.type = "STARTING" THEN <<Call("before", Recipient(msg.m), "unset")>>
  ELSE <<Done(Recipient(msg.m), "ok", TRUE)>>

Deliver(msg) ==
  LET m == Recipient(msg.m) IN
  IF m = None \/ msg.type = "CHECKEDIN" THEN <<>>
  ELSE IF msg.type = "STARTING" THEN <<Call("before", m, "unset")>>
  ELSE <<Done(m, "ok", TRUE)>>

(***************************************************************************)
(* Client_do_message: the reply goes to its job; on the end of the stream   *)
(* the client is removed and its jobs are called back.  If another thread   *)
(* removed the client meanwhile, it is not in the list any more.            *)
(***************************************************************************)
Client_do_message ==
  /\ At(receiver, "message")
  /\ LET c == Top(receiver).s
         s == sock[c]
     IN
     \/ /\ Clients[c] = None \/ s = None
        /\ Become(receiver, <<>>)
        /\ UNCHANGED <<wire, link, clientVars>>
     \/ /\ Clients[c] # None /\ s # None /\ wire[s] # <<>>
        /\ wire' = [wire EXCEPT ![s] = Tail(@)]
        /\ Become(receiver, Deliver(Head(wire[s])))
        /\ UNCHANGED <<link, clientVars>>
     \/ /\ Clients[c] # None /\ s # None /\ wire[s] = <<>>
        /\ clientsMutex = None
        /\ Client_free(receiver, c)
        /\ Client_pop_locked(c)
        /\ Become(receiver, <<Call("pop", Clients[c], "down")>>)
        /\ UNCHANGED <<clientsMutex, conid, rep>>
  /\ UNCHANGED <<programVars, jobVars, dead, work, begun, finished, events>>

(* callback_before(callback_param) stays in the program. *)
Job_callback_before ==
  /\ At(receiver, "before")
  /\ Become(receiver, <<>>)
  /\ UNCHANGED <<programVars, jobVars, clientVars, serverVars>>

(* The clients that are freed, in the order of the list. *)
Orders(S) == {f \in [1 .. Cardinality(S) -> S] : \A i, j \in DOMAIN f : f[i] = f[j] => i = j}

Frees(order) ==
  Append([i \in DOMAIN order |-> Call("pop", Clients[order[i]], "down")],
         Call("unlock", None, "unset"))

(* Client_free of those clients: the receiver closes those connections among *)
(* theirs that are in its own list.                                         *)
DisconnectAll(S) ==
  openIn' = [c \in Messages |-> IF openIn[c] = receiver /\ \E s \in S : Clients[s] = c
                               THEN None ELSE openIn[c]]

(* Mutant of reset_fdactive: the clients are examined after the first error. *)
reset_fdactive_at_once ==
  /\ stack[receiver] = <<>>
  /\ badfd
  /\ clientsMutex = None
  /\ badfd' = FALSE
  /\ rep' = 1
  /\ LET broken == {s \in Servers : Clients[s] # None /\ sock[s] = None} IN
     /\ clientsMutex' = receiver
     /\ stale' = stale \cup broken
     /\ DisconnectAll(broken)
     /\ \E order \in Orders(broken) : stack' = [stack EXCEPT ![receiver] = Frees(order)]
  /\ UNCHANGED <<programVars, jobVars, Clients, sock, conid, serverVars>>

(***************************************************************************)
(* select fails because a socket in fdactive was closed.  The set is built  *)
(* anew; when that happens twice in a row, the clients whose reply socket   *)
(* is broken, or not there yet, are freed, but stay in the list.  (That a   *)
(* signal interrupts select twice in a row is left out.)                    *)
(***************************************************************************)
reset_fdactive ==
  /\ stack[receiver] = <<>>
  /\ badfd
  /\ clientsMutex = None
  /\ badfd' = FALSE
  /\ rep' = 1
  /\ IF rep = 0
       THEN UNCHANGED <<clientsMutex, stale, openIn, stack>>
       ELSE LET broken == {s \in Servers : Clients[s] # None /\ sock[s] = None} IN
            /\ clientsMutex' = receiver
            /\ stale' = stale \cup broken
            /\ DisconnectAll(broken)
            /\ \E order \in Orders(broken) : stack' = [stack EXCEPT ![receiver] = Frees(order)]
  /\ UNCHANGED <<programVars, jobVars, Clients, sock, conid, serverVars>>

(* select returns without an error. *)
select_timeout ==
  /\ stack[receiver] = <<>>
  /\ ~badfd /\ rep = 1
  /\ rep' = 0
  /\ UNCHANGED <<programVars, jobVars, stack, Clients, sock, stale, clientsMutex, openIn, conid,
                 badfd, serverVars>>

-----------------------------------------------------------------------------
(* The servers. *)

(* The server's send_reply: without a reply socket, or with a closed one, a *)
(* new one is opened.                                                       *)
send_reply(s, type, m) ==
  LET msg == [type |-> type, m |-> m] IN
  /\ link' = [link EXCEPT ![s] = IF @ = "open" THEN @ ELSE "backlog"]
  /\ wire' = [wire EXCEPT ![s] = IF link[s] \in {"none", "closed"} THEN <<msg>> ELSE Append(@, msg)]

(* A monitor is told that it is checked in; it stays at work on its server. *)
DoSrvMonitor(s, m) == kind[m] = "checkin" /\ send_reply(s, "CHECKEDIN", m)

begin(s, m) ==
  /\ m \in work[s] \ begun
  /\ begun' = begun \cup {m}
  /\ \/ kind[m] = "action" /\ send_reply(s, "STARTING", m)
     \/ DoSrvMonitor(s, m)
     \/ kind[m] \notin {"action", "checkin"} /\ UNCHANGED <<link, wire>>
  /\ UNCHANGED <<programVars, stack, jobVars, clientVars, dead, work, finished, events>>

finish(s, m) ==
  /\ m \in work[s] \cap begun
  /\ kind[m] # "checkin"
  /\ work' = [work EXCEPT ![s] = @ \ {m}]
  /\ finished' = finished \cup {m}
  /\ send_reply(s, "FINISHED", m)
  /\ UNCHANGED <<programVars, stack, jobVars, clientVars, dead, begun, events>>

(* SendToMonitor: the job id is the one of the process that broadcast it. *)
event(s, m) ==
  /\ events < MaxEvents
  /\ \E c \in work[s] \cap begun : kind[c] = "checkin"
  /\ events' = events + 1
  /\ send_reply(s, "FINISHED", m)
  /\ UNCHANGED <<programVars, stack, jobVars, clientVars, dead, work, begun, finished>>

lost(s) ==
  /\ s \in Fragile \ dead
  /\ dead' = dead \cup {s}
  /\ work' = [work EXCEPT ![s] = {}]
  /\ UNCHANGED <<programVars, stack, jobVars, clientVars, begun, finished, link, wire, events>>

-----------------------------------------------------------------------------

ServerSendMessage(t, m) ==
  /\ stack[t] = <<>>
  /\ m \in todo \ Followups
  /\ todo' = todo \ {m}
  /\ stack' = [stack EXCEPT ![t] = <<Call("connect", m, "unset")>>]
  /\ UNCHANGED <<jobVars, clientVars, serverVars, disconnects>>

ThreadStep(t) ==
  \/ server_connect(t) \/ Job_register(t) \/ SendArg(t) \/ GetAnswerInfoTS(t)
  \/ Job_cleanup(t) \/ Job_callback_done(t) \/ Job_finish(t) \/ free(t)
  \/ Job_pop_by_conid(t) \/ ServerWait(t) \/ Job_wait_and_pop_locked(t) \/ unlock_clients(t)

ReceiverStep ==
  \/ \E s \in Servers : accept_client(s) \/ receiver_thread(s)
  \/ Client_do_message \/ Job_callback_before
  \/ reset_fdactive \/ select_timeout

ServerStep(s) == \E m \in Messages : begin(s, m) \/ finish(s, m)

Next ==
  \/ \E t \in Senders :
       \/ \E m \in Messages : ServerSendMessage(t, m)
       \/ \E s \in Servers : ServerDisconnect(t, s)
       \/ Job_abandon_locked(t)
  \/ \E t \in Threads : ThreadStep(t)
  \/ ReceiverStep
  \/ \E s \in Servers :
       \/ ServerStep(s)
       \/ lost(s)
       \/ \E m \in Events : event(s, m)

Spec == Init /\ [][Next]_vars

(***************************************************************************)
(* The threads run, the receiver reads what there is to read, and a server  *)
(* works on the messages it got.                                            *)
(***************************************************************************)
Fairness ==
  /\ \A t \in Threads : WF_vars(ThreadStep(t))
  /\ WF_vars(ReceiverStep)
  /\ \A s \in Servers : WF_vars(ServerStep(s))

FairSpec == Spec /\ Fairness

-----------------------------------------------------------------------------
(* Properties. *)

CalledOnce == {m \in Messages : kind[m] = "action"}

CB == INSTANCE Callbacks WITH
  Messages <- CalledOnce,
  known <- known \cap CalledOnce,
  calls <- [m \in CalledOnce |-> calls[m]]

(***************************************************************************)
(* The completion callback of a message is called at most once, whichever   *)
(* of reply, failed handshake, lost server and ServerDisconnect come        *)
(* together (Job_callback_done takes it out of the job under the lock).     *)
(***************************************************************************)
CallbackSpec == CB!Spec

(***************************************************************************)
(* When the servers stay there, every message is called back, although      *)
(* handshakes fail, clients are disconnected and reply sockets reopened.    *)
(***************************************************************************)
CallbackFair == CB!FairSpec

(***************************************************************************)
(* The status a job reports as success is one its server sent: neither a    *)
(* monitor's event nor the clean-up of a connection is taken for it.        *)
(* Stopping the server is the exception: it counts as success for all.      *)
(***************************************************************************)
Stopped(s) == \E m \in Messages \ todo : kind[m] = "stop" /\ to[m] = s

TrueStatus ==
  \A m \in Messages :
    retstatus[m] = "ok" => m \in finished \/ kind[m] = "checkin" \/ Stopped(to[m])

(***************************************************************************)
(* When no thread and no socket has anything to do, every job left in the   *)
(* list is at work on its server, or its server went away before it opened  *)
(* a reply socket to the present client, which nobody notices.              *)
(***************************************************************************)
Idle(t) == stack[t] = <<>> \/ (At(t, "asleep") /\ cond[Top(t).m] # "1")
Unnoticed(s) == s \in dead /\ link[s] \in {"none", "closed"} /\ Clients[s] # None

Settled ==
  (/\ \A t \in Threads : Idle(t)
   /\ \A s \in Servers : link[s] \notin {"backlog", "open"} \/ ~Readable(s)) =>
     \A m \in Jobs : m \in work[to[m]] \/ Unnoticed(to[m])

(***************************************************************************)
(* What a user of these calls has to avoid: that the connection of a client *)
(* is closed between server_connect and Job_register of a message to it,    *)
(* while its server stays, or replaced while there are jobs on it, as a     *)
(* thread does that does not see the connection of another one.  Nothing in *)
(* the code prevents either when two threads send to one server; what       *)
(* holds if they do not is the theorem NoJobForgotten.                      *)
(***************************************************************************)
OnStack == UNION {{stack[t][k] : k \in DOMAIN stack[t]} : t \in Threads}

KeepsClients ==
  \A s \in Servers : Clients[s] # None /\ Clients'[s] # Clients[s] =>
    /\ s \notin dead => \A f \in OnStack : f.fn = "register" => conid[f.m] # Clients[s]
    /\ Clients'[s] # None => \A j \in Jobs : conid[j] # Clients[s]

ClientsKept == [][KeepsClients]_vars

(***************************************************************************)
(* The lists Jobs and Clients hold nothing that was freed, whatever is      *)
(* cleaned up by whom (Job_pop, Job_cleanup).  Only when two clients are    *)
(* disconnected one after the other does reset_fdactive leave a freed       *)
(* client in its list.                                                      *)
(***************************************************************************)
ListsLive == Jobs \cap freed = {} /\ (disconnects < 2 => stale = {})

(***************************************************************************)
(* Until a client is disconnected or a server goes, no thread works on      *)
(* freed memory:                                                            *)
(* between Job_get_by_jobid and the end of Job_callback_done the job        *)
(* belongs to the receiver, and between server_connect and the handshake    *)
(* its reply does not take it from the sender.                              *)
(***************************************************************************)
UsesLive ==
  disconnects = 0 /\ dead = {} =>
  \A t \in Threads, k \in 1 .. 8 : k \in DOMAIN stack[t] =>
    LET f == stack[t][k] IN
    /\ f.fn \in {"callback", "finish", "before", "asleep"} => f.m \notin freed
    /\ f.fn = "message" => Clients[f.s] # None

(***************************************************************************)
(* Every call of ServerSendMessage, ServerWait and ServerDisconnect returns *)
(* and the receiver always gets back to select: nobody waits for a mutex    *)
(* that is not released or for a reply that was already handed out.         *)
(***************************************************************************)
CallsReturn == \A t \in Threads : stack[t] # <<>> ~> stack[t] = <<>>

================================================================================
