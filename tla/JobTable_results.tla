---------------------------- MODULE JobTable_results ----------------------------
(***************************************************************************)
(* More theorems about JobTable, from the invariant of JobTable_proofs:     *)
(* what success means (TrueStatus), whose memory a thread works on as long  *)
(* as nothing is cleaned up (UsesLive), and that no job is forgotten        *)
(* (Settled).                                                               *)
(***************************************************************************)
EXTENDS JobTable_proofs

-----------------------------------------------------------------------------
(* What a status of success stands for.                                     *)

(* The message of a job that reports success. *)
Success(m) == m \in finished \/ kind[m] = "checkin" \/ Stopped(to[m])

(***************************************************************************)
(* The frames that carry a success carry a true one: Job_cleanup and the    *)
(* loops after it only when the server was stopped.                         *)
(***************************************************************************)
TrueFrames ==
  {f \in Frames :
     /\ f.fn \in {"send", "answer"} => f.m \notin todo
     /\ f.fn = "callback" /\ f.st = "ok" => Success(f.m)
     /\ f.fn \in {"cleanup", "pop"} /\ f.st = "ok" => Stopped(to[f.m])}

(* The replies that are on their way. *)
TrueMsgs ==
  {w \in Msgs : w.type = "FINISHED" /\ w.m \in Messages => w.m \in finished}

(* A connection leads to the server of the messages that are sent on it. *)
RouteInv ==
  /\ \A m \in Messages : conid[m] # None => to[conid[m]] = to[m]
  /\ \A s \in Servers : Clients[s] # None => to[Clients[s]] = s

StatusInv ==
  /\ stack \in [Threads -> Seq(TrueFrames)]
  /\ wire \in [Servers -> Seq(TrueMsgs)]
  /\ RouteInv
  /\ TrueStatus

(* What made a success true stays so. *)
LEMMA SuccessKept ==
  ASSUME todo' \subseteq todo, finished \subseteq finished'
  PROVE  /\ \A s \in Servers : Stopped(s) => Stopped(s)'
         /\ \A m \in Messages : Success(m) => Success(m)'
         /\ TrueFrames \subseteq TrueFrames'
         /\ TrueMsgs \subseteq TrueMsgs'
<1>1. \A s \in Servers : Stopped(s) => Stopped(s)'
  BY DEF Stopped
<1>2. \A m \in Messages : Success(m) => Success(m)'
  BY <1>1, MessageType DEF Success
<1>3. ASSUME NEW f \in TrueFrames
      PROVE  f \in TrueFrames'
  <2>1. f \in Frames /\ (f.fn # "unlock" => f.m \in Messages /\ to[f.m] \in Servers)
    BY <1>3, FrameFields, MessageType DEF TrueFrames
  <2> QED BY <1>1, <1>2, <1>3, <2>1 DEF TrueFrames
<1>4. TrueMsgs \subseteq TrueMsgs'
  BY DEF TrueMsgs
<1> QED BY <1>1, <1>2, <1>3, <1>4

LEMMA OneFrame ==
  ASSUME NEW S, NEW x \in S
  PROVE  <<x>> \in Seq(S)
OBVIOUS

LEMMA ThreeFrames ==
  ASSUME NEW S, NEW x \in S, NEW y \in S, NEW z \in S
  PROVE  <<x, y, z>> \in Seq(S)
OBVIOUS

(* Frames that carry no success. *)
LEMMA NoSuccess ==
  ASSUME NEW fn \in Fns \ {"unlock", "send", "answer"}, NEW m \in Messages, NEW st \in States,
         fn \in {"callback", "cleanup", "pop"} => st # "ok"
  PROVE  Call(fn, m, st) \in TrueFrames'
<1>1. Call(fn, m, st) \in Frames /\ Call(fn, m, st).fn = fn /\ Call(fn, m, st).st = st
  BY CallType DEF Call
<1> QED BY <1>1 DEF TrueFrames

LEMMA NoSuccessAfterSend ==
  ASSUME NEW m \in Messages
  PROVE  AfterSend(m) \in Seq(TrueFrames')
<1>1. Call("wait", m, "unset") \in TrueFrames'
  BY NoSuccess DEF Fns, States
<1>2. <<Call("wait", m, "unset")>> \in Seq(TrueFrames') /\ <<>> \in Seq(TrueFrames')
  BY <1>1, EmptySeq
<1> QED BY <1>2 DEF AfterSend

LEMMA NoSuccessCallback ==
  ASSUME TypeOK, NEW m \in Messages
  PROVE  CallbackSends(m) \in Seq(TrueFrames')
<1>1. CASE next[m] \in todo
  <2>1. next[m] \in Messages
    BY <1>1 DEF TypeOK, ProgramType
  <2>2. Call("connect", next[m], "unset") \in TrueFrames'
    BY <2>1, NoSuccess DEF Fns, States
  <2>3. <<Call("connect", next[m], "unset")>> \in Seq(TrueFrames')
    BY <2>2
  <2> QED BY <1>1, <2>3 DEF CallbackSends
<1>2. CASE next[m] \notin todo
  BY <1>2, EmptySeq DEF CallbackSends
<1> QED BY <1>1, <1>2

(* A thread replaces its top frame. *)
LEMMA TrueStack ==
  ASSUME TypeOK, stack \in [Threads -> Seq(TrueFrames)], TrueFrames \subseteq TrueFrames',
         NEW t \in Threads, NEW fn, At(t, fn),
         NEW fs \in Seq(TrueFrames'), Become(t, fs)
  PROVE  stack' \in [Threads -> Seq(TrueFrames')]
<1>1. stack \in [Threads -> Seq(TrueFrames')]
  BY SeqMonotonic
<1>2. stack[t] \in Seq(TrueFrames') /\ stack[t] # <<>>
  BY <1>1 DEF At
<1>3. Tail(stack[t]) \in Seq(TrueFrames')
  BY <1>2, HeadTailProperties
<1>4. fs \o Tail(stack[t]) \in Seq(TrueFrames')
  BY <1>3, ConcatProperties
<1> QED BY <1>1, <1>4 DEF Become

(* The top frame. *)
LEMMA TrueTop ==
  ASSUME TypeOK, stack \in [Threads -> Seq(TrueFrames)], NEW t \in Threads, NEW fn, At(t, fn)
  PROVE  Top(t) \in TrueFrames /\ Top(t).fn = fn /\ Top(t).st \in States
         /\ (fn # "unlock" => Top(t).m \in Messages)
<1>1. Top(t) \in Frames /\ Top(t).fn = fn
  BY TopType
<1>2. stack[t] \in Seq(TrueFrames) /\ stack[t] # <<>>
  BY DEF At
<1>3. Top(t) \in TrueFrames
  BY <1>2, HeadTailProperties DEF Top
<1> QED BY <1>1, <1>3, FrameFields

(* What a step leaves alone. *)
LEMMA StatusKept ==
  ASSUME StatusInv, todo' \subseteq todo, finished \subseteq finished'
  PROVE  /\ TrueFrames \subseteq TrueFrames'
         /\ UNCHANGED stack => stack' \in [Threads -> Seq(TrueFrames')]
         /\ UNCHANGED wire => wire' \in [Servers -> Seq(TrueMsgs')]
         /\ UNCHANGED <<conid, Clients>> => RouteInv'
         /\ UNCHANGED retstatus => TrueStatus'
<1>1. TrueFrames \subseteq TrueFrames' /\ TrueMsgs \subseteq TrueMsgs'
  BY SuccessKept
<1>2. \A m \in Messages : Success(m) => Success(m)'
  BY SuccessKept
<1>3. UNCHANGED stack => stack' \in [Threads -> Seq(TrueFrames')]
  BY <1>1, SeqMonotonic DEF StatusInv
<1>4. UNCHANGED wire => wire' \in [Servers -> Seq(TrueMsgs')]
  BY <1>1, SeqMonotonic DEF StatusInv
<1>5. UNCHANGED <<conid, Clients>> => RouteInv'
  BY DEF StatusInv, RouteInv
<1>6. UNCHANGED retstatus => TrueStatus'
  BY <1>2 DEF StatusInv, TrueStatus, Success
<1> QED BY <1>1, <1>3, <1>4, <1>5, <1>6

(* A step of a thread that carries no success and touches no reply. *)
LEMMA PlainStep ==
  ASSUME Inv, StatusInv, todo' \subseteq todo, UNCHANGED <<finished, wire, conid, Clients, retstatus>>,
         NEW t \in Threads, NEW fn, At(t, fn), NEW fs \in Seq(TrueFrames'), Become(t, fs)
  PROVE  StatusInv'
<1>1. /\ TrueFrames \subseteq TrueFrames'
      /\ wire' \in [Servers -> Seq(TrueMsgs')] /\ RouteInv' /\ TrueStatus'
  BY StatusKept
<1>2. stack' \in [Threads -> Seq(TrueFrames')]
  BY <1>1, TrueStack DEF Inv, StatusInv
<1> QED BY <1>1, <1>2 DEF StatusInv

-----------------------------------------------------------------------------
(* Step by step. *)

LEMMA server_connectStatus ==
  ASSUME Inv, StatusInv, NEW t \in Threads, server_connect(t)
  PROVE  StatusInv'
<1> DEFINE m == Top(t).m
           s == to[m]
<1>1. /\ TypeOK /\ m \in Messages /\ s \in Servers /\ s # None
      /\ Clients \in [Servers -> Messages \cup {None}] /\ conid \in [Messages -> Messages \cup {None}]
  BY TrueTop, MessageType DEF server_connect, Inv, StatusInv, TypeOK, ClientType
<1>2. UNCHANGED <<finished, wire, retstatus>> /\ todo' \subseteq todo
  BY DEF server_connect, serverVars, CallbackTakes
<1>3. /\ TrueFrames \subseteq TrueFrames'
      /\ wire' \in [Servers -> Seq(TrueMsgs')] /\ TrueStatus'
      /\ UNCHANGED <<conid, Clients>> => RouteInv'
  BY <1>2, StatusKept
<1>4. PICK fs \in Seq(TrueFrames') : Become(t, fs)
  <2>1. Call("register", m, "unset") \in TrueFrames'
    BY <1>1, NoSuccess DEF Fns, States
  <2>2. <<Call("register", m, "unset")>> \in Seq(TrueFrames')
    BY <2>1
  <2> QED BY <1>1, <2>2, NoSuccessAfterSend, NoSuccessCallback DEF server_connect
<1>5. stack' \in [Threads -> Seq(TrueFrames')]
  BY <1>1, <1>3, <1>4, TrueStack DEF StatusInv, server_connect
<1>6. RouteInv'
  <2>1. CASE Clients' = Clients /\ conid' = [conid EXCEPT ![m] = Clients[s]] /\ Clients[s] # None
    BY <1>1, <2>1 DEF StatusInv, RouteInv
  <2>2. CASE Clients' = [Clients EXCEPT ![s] = m] /\ conid' = [conid EXCEPT ![m] = m]
    BY <1>1, <2>2 DEF StatusInv, RouteInv
  <2>3. CASE UNCHANGED <<conid, Clients>>
    BY <1>3, <2>3
  <2> QED BY <1>1, <2>1, <2>2, <2>3 DEF server_connect, HasSocket
<1> QED BY <1>3, <1>5, <1>6 DEF StatusInv

LEMMA Job_registerStatus ==
  ASSUME Inv, StatusInv, NEW t \in Threads, Job_register(t)
  PROVE  StatusInv'
<1> DEFINE m == Top(t).m
<1>1. TypeOK /\ m \in Messages
  BY TrueTop DEF Job_register, Inv, StatusInv
<1>2. m \notin todo
  BY <1>1, TopType DEF Inv, StackInv, FrameInv, Token, Job_register
<1>3. /\ UNCHANGED <<todo, finished, wire, conid, Clients, retstatus>>
      /\ Become(t, <<Call("send", m, "unset")>>)
  BY DEF Job_register, programVars, clientVars, serverVars
<1>4. Call("send", m, "unset") \in Frames
      /\ Call("send", m, "unset").fn = "send" /\ Call("send", m, "unset").m = m
  BY <1>1, CallType DEF Fns, States
<1>5. Call("send", m, "unset") \in TrueFrames'
  BY <1>2, <1>3, <1>4 DEF TrueFrames
<1>6. <<Call("send", m, "unset")>> \in Seq(TrueFrames')
  BY <1>5
<1> QED BY <1>3, <1>6, PlainStep DEF Job_register

LEMMA SendArgStatus ==
  ASSUME Inv, StatusInv, NEW t \in Threads, SendArg(t)
  PROVE  StatusInv'
<1> DEFINE m == Top(t).m
<1>1. TypeOK /\ m \in Messages /\ m \notin todo
  BY TrueTop DEF SendArg, Inv, StatusInv, TrueFrames
<1>2. UNCHANGED <<todo, finished, wire, conid, Clients, retstatus>>
  BY DEF SendArg, programVars, clientVars, jobVars
<1>3. <<Call("answer", m, "unset")>> \in Seq(TrueFrames')
  <2>1. Call("answer", m, "unset") \in Frames
        /\ Call("answer", m, "unset").fn = "answer" /\ Call("answer", m, "unset").m = m
    BY <1>1, CallType DEF Fns, States
  <2>2. Call("answer", m, "unset") \in TrueFrames'
    BY <1>1, <1>2, <2>1 DEF TrueFrames
  <2> QED BY <2>2
<1>4. <<Call("cleanup", m, "down")>> \o AfterSend(m) \in Seq(TrueFrames')
  <2>1. Call("cleanup", m, "down") \in TrueFrames'
    BY <1>1, NoSuccess DEF Fns, States
  <2>2. <<Call("cleanup", m, "down")>> \in Seq(TrueFrames')
    BY <2>1
  <2> QED BY <1>1, <2>2, NoSuccessAfterSend, ConcatProperties
<1>5. PICK fs \in Seq(TrueFrames') : Become(t, fs)
  BY <1>3, <1>4 DEF SendArg
<1> QED BY <1>2, <1>5, PlainStep DEF SendArg

(* SrvStop is the one handshake that makes a clean-up a success. *)
LEMMA GetAnswerInfoTSStatus ==
  ASSUME Inv, StatusInv, NEW t \in Threads, GetAnswerInfoTS(t)
  PROVE  StatusInv'
<1>0. PICK m : m = Top(t).m
  OBVIOUS
<1>1. TypeOK /\ m \in Messages /\ m \notin todo
  BY <1>0, TrueTop DEF GetAnswerInfoTS, Inv, StatusInv, TrueFrames
<1>2. UNCHANGED <<todo, finished, wire, conid, Clients, retstatus>>
  BY DEF GetAnswerInfoTS, programVars, clientVars, jobVars, serverVars
<1>3. <<Call("cleanup", m, "down")>> \o AfterSend(m) \in Seq(TrueFrames')
  <2>1. Call("cleanup", m, "down") \in TrueFrames'
    BY <1>1, NoSuccess DEF Fns, States
  <2>2. <<Call("cleanup", m, "down")>> \in Seq(TrueFrames')
    BY <2>1
  <2> QED BY <1>1, <2>2, NoSuccessAfterSend, ConcatProperties
<1>4. kind[m] = "stop" => <<Call("cleanup", m, "ok")>> \in Seq(TrueFrames')
  <2> SUFFICES ASSUME kind[m] = "stop"
               PROVE  <<Call("cleanup", m, "ok")>> \in Seq(TrueFrames')
    OBVIOUS
  <2>1. Call("cleanup", m, "ok") \in Frames
        /\ Call("cleanup", m, "ok").fn = "cleanup" /\ Call("cleanup", m, "ok").m = m
    BY <1>1, CallType DEF Fns, States
  <2>2. Stopped(to[m])'
    BY <1>1, <1>2 DEF Stopped
  <2>3. Call("cleanup", m, "ok") \in TrueFrames'
    BY <2>1, <2>2 DEF TrueFrames
  <2> QED BY <2>3
<1>5. PICK fs \in Seq(TrueFrames') : Become(t, fs)
  BY <1>0, <1>1, <1>3, <1>4, NoSuccessAfterSend DEF GetAnswerInfoTS
<1> QED BY <1>2, <1>5, PlainStep DEF GetAnswerInfoTS

(* A clean-up passes its status on to the jobs on the same connection. *)
LEMMA Job_cleanupStatus ==
  ASSUME Inv, StatusInv, NEW t \in Threads, Job_cleanup(t)
  PROVE  StatusInv'
<1>0. PICK m, st : m = Top(t).m /\ st = Top(t).st
  OBVIOUS
<1>1. TypeOK /\ m \in Messages /\ st \in States /\ (st = "ok" => Stopped(to[m]))
  BY <1>0, TrueTop DEF Job_cleanup, Inv, StatusInv, TrueFrames
<1>2. UNCHANGED <<todo, finished, wire, conid, Clients, retstatus>>
  BY DEF Job_cleanup, programVars, serverVars
<1>3. st = "ok" => Stopped(to[m])'
  BY <1>1, <1>2 DEF Stopped
<1>4. ASSUME m \in Jobs
      PROVE  <<Done(m, st, FALSE), Call("free", m, st), Call("pop", conid[m], st)>> \in Seq(TrueFrames')
  <2>1. PICK c \in Messages : c = conid[m] /\ to[c] = to[m]
    BY <1>1, <1>4 DEF Inv, JobInv, StatusInv, RouteInv, TypeOK, ClientType
  <2>2. Done(m, st, FALSE) \in TrueFrames'
    <3>1. /\ Done(m, st, FALSE) \in Frames
          /\ Done(m, st, FALSE).fn = "callback" /\ Done(m, st, FALSE).m = m /\ Done(m, st, FALSE).st = st
      BY <1>1, DoneType DEF Done, Call
    <3> QED BY <1>3, <3>1 DEF TrueFrames, Success
  <2>3. Call("free", m, st) \in TrueFrames'
    BY <1>1, NoSuccess DEF Fns
  <2>4. Call("pop", c, st) \in TrueFrames'
    <3>1. /\ Call("pop", c, st) \in Frames
          /\ Call("pop", c, st).fn = "pop" /\ Call("pop", c, st).m = c /\ Call("pop", c, st).st = st
      BY <1>1, <2>1, CallType DEF Fns, Call
    <3>2. st = "ok" => Stopped(to[c])'
      BY <1>3, <2>1
    <3> QED BY <3>1, <3>2 DEF TrueFrames
  <2> QED BY <2>1, <2>2, <2>3, <2>4, ThreeFrames
<1>5. PICK fs \in Seq(TrueFrames') : Become(t, fs)
  BY <1>0, <1>4, EmptySeq DEF Job_cleanup
<1> QED BY <1>2, <1>5, PlainStep DEF Job_cleanup

LEMMA Job_pop_by_conidStatus ==
  ASSUME Inv, StatusInv, NEW t \in Threads, Job_pop_by_conid(t)
  PROVE  StatusInv'
<1>0. PICK top : top = Top(t)
  OBVIOUS
<1> DEFINE c == top.m
           st == top.st
<1>1. /\ TypeOK /\ c \in Messages /\ st \in States /\ (st = "ok" => Stopped(to[c]))
      /\ top \in TrueFrames
  BY <1>0, TrueTop DEF Job_pop_by_conid, Inv, StatusInv, TrueFrames
<1>2. UNCHANGED <<todo, finished, wire, conid, Clients, retstatus>>
  BY DEF Job_pop_by_conid, programVars, clientVars, serverVars
<1>3. TrueFrames \subseteq TrueFrames'
  BY <1>2, StatusKept
<1>4. ASSUME NEW j \in Jobs, conid[j] = c
      PROVE  <<Done(j, st, FALSE), Call("free", j, st), top>> \in Seq(TrueFrames')
  <2>1. j \in Messages /\ to[c] = to[j]
    BY <1>4 DEF Inv, JobInv, StatusInv, RouteInv, TypeOK, JobType
  <2>2. Done(j, st, FALSE) \in TrueFrames'
    <3>1. /\ Done(j, st, FALSE) \in Frames
          /\ Done(j, st, FALSE).fn = "callback" /\ Done(j, st, FALSE).m = j /\ Done(j, st, FALSE).st = st
      BY <1>1, <2>1, DoneType DEF Done, Call
    <3>2. st = "ok" => Stopped(to[j])'
      BY <1>1, <1>2, <2>1 DEF Stopped
    <3> QED BY <3>1, <3>2 DEF TrueFrames, Success
  <2>3. Call("free", j, st) \in TrueFrames'
    BY <1>1, <2>1, NoSuccess DEF Fns
  <2>4. top \in TrueFrames'
    BY <1>1, <1>3
  <2> QED BY <2>2, <2>3, <2>4, ThreeFrames
<1>5. PICK fs \in Seq(TrueFrames') : Become(t, fs)
  BY <1>0, <1>4, EmptySeq DEF Job_pop_by_conid
<1> QED BY <1>2, <1>5, PlainStep DEF Job_pop_by_conid

(* The status is stored with the callback. *)
LEMMA Job_callback_doneStatus ==
  ASSUME Inv, StatusInv, NEW t \in Threads, Job_callback_done(t)
  PROVE  StatusInv'
<1>0. PICK m, st, rm : m = Top(t).m /\ st = Top(t).st /\ rm = Top(t).rm
  OBVIOUS
<1>1. TypeOK /\ m \in Messages /\ st \in States /\ (st = "ok" => Success(m))
  BY <1>0, TrueTop DEF Job_callback_done, Inv, StatusInv, TrueFrames
<1>2. /\ UNCHANGED <<finished, wire, conid, Clients>> /\ todo' \subseteq todo
      /\ retstatus' = [retstatus EXCEPT ![m] = st]
  BY <1>0 DEF Job_callback_done, CallbackTakes, clientVars, serverVars
<1>3. /\ TrueFrames \subseteq TrueFrames'
      /\ wire' \in [Servers -> Seq(TrueMsgs')] /\ RouteInv'
  BY <1>2, StatusKept
<1>4. PICK fs \in Seq(TrueFrames') : Become(t, fs)
  <2> DEFINE rest == IF rm /\ m # MonJob THEN <<Call("finish", m, "unset")>> ELSE <<>>
             sends == IF m \in armed THEN CallbackSends(m) ELSE <<>>
  <2>1. Call("finish", m, "unset") \in TrueFrames'
    BY <1>1, NoSuccess DEF Fns, States
  <2>2. rest \in Seq(TrueFrames')
    <3>1. <<Call("finish", m, "unset")>> \in Seq(TrueFrames') /\ <<>> \in Seq(TrueFrames')
      BY <2>1, EmptySeq
    <3> QED BY <3>1
  <2>3. sends \in Seq(TrueFrames')
    BY <1>1, EmptySeq, NoSuccessCallback
  <2>4. sends \o rest \in Seq(TrueFrames')
    BY <2>2, <2>3, ConcatProperties
  <2>5. Become(t, sends \o rest)
    BY <1>0 DEF Job_callback_done
  <2> QED BY <2>4, <2>5
<1>5. stack' \in [Threads -> Seq(TrueFrames')]
  BY <1>1, <1>3, <1>4, TrueStack DEF StatusInv, Job_callback_done
<1>6. TrueStatus'
  <2>1. \A j \in Messages : Success(j) => Success(j)'
    BY <1>2, SuccessKept
  <2>2. retstatus \in [Messages -> States]
    BY <1>1 DEF TypeOK, JobType
  <2>3. ASSUME NEW j \in Messages, retstatus'[j] = "ok"
        PROVE  Success(j)'
    <3>1. CASE j = m
      BY <1>1, <1>2, <2>1, <2>2, <2>3, <3>1
    <3>2. CASE j # m
      BY <1>2, <2>1, <2>2, <2>3, <3>2 DEF StatusInv, TrueStatus, Success
    <3> QED BY <3>1, <3>2
  <2> QED BY <2>3 DEF TrueStatus, Success
<1> QED BY <1>3, <1>5, <1>6 DEF StatusInv

(* What ends a call without a status. *)
LEMMA ReturnStatus ==
  ASSUME Inv, StatusInv, NEW t \in Threads,
         \/ Job_finish(t) \/ free(t) \/ Job_wait_and_pop_locked(t)
         \/ Job_abandon_locked(t) \/ unlock_clients(t)
  PROVE  StatusInv'
<1>1. UNCHANGED <<todo, finished, wire, conid, Clients, retstatus>>
  BY DEF Job_finish, free, Job_wait_and_pop_locked, Job_abandon_locked, unlock_clients,
         programVars, clientVars, serverVars, jobVars
<1>2. <<>> \in Seq(TrueFrames')
  BY EmptySeq
<1>3. PICK fn : At(t, fn)
  BY DEF Job_finish, free, Job_wait_and_pop_locked, Job_abandon_locked, unlock_clients
<1>4. Become(t, <<>>)
  BY DEF Job_finish, free, Job_wait_and_pop_locked, Job_abandon_locked, unlock_clients
<1> QED BY <1>1, <1>2, <1>3, <1>4, PlainStep

LEMMA ServerWaitStatus ==
  ASSUME Inv, StatusInv, NEW t \in Threads, ServerWait(t)
  PROVE  StatusInv'
<1>1. UNCHANGED <<todo, finished, wire, conid, Clients, retstatus>>
  BY DEF ServerWait, programVars, clientVars, serverVars
<1>2. <<Call("asleep", Top(t).m, "unset")>> \in Seq(TrueFrames') /\ <<>> \in Seq(TrueFrames')
  <2>1. PICK m : m = Top(t).m
    OBVIOUS
  <2>2. m \in Messages
    BY <2>1, TrueTop DEF ServerWait, Inv, StatusInv
  <2>3. Call("asleep", m, "unset") \in TrueFrames'
    BY <2>2, NoSuccess DEF Fns, States
  <2> QED BY <2>1, <2>3, EmptySeq
<1>3. PICK fs \in Seq(TrueFrames') : Become(t, fs)
  BY <1>2 DEF ServerWait
<1> QED BY <1>1, <1>3, PlainStep DEF ServerWait

LEMMA ServerSendMessageStatus ==
  ASSUME Inv, StatusInv, NEW t \in Threads, NEW m \in Messages, ServerSendMessage(t, m)
  PROVE  StatusInv'
<1>1. /\ UNCHANGED <<finished, wire, conid, Clients, retstatus>> /\ todo' \subseteq todo
      /\ stack' = [stack EXCEPT ![t] = <<Call("connect", m, "unset")>>]
  BY DEF ServerSendMessage, jobVars, clientVars, serverVars
<1>2. /\ TrueFrames \subseteq TrueFrames'
      /\ wire' \in [Servers -> Seq(TrueMsgs')] /\ RouteInv' /\ TrueStatus'
  BY <1>1, StatusKept
<1>3. Call("connect", m, "unset") \in TrueFrames'
  BY NoSuccess DEF Fns, States
<1>4. <<Call("connect", m, "unset")>> \in Seq(TrueFrames')
  BY <1>3
<1>5. stack \in [Threads -> Seq(TrueFrames')]
  BY <1>2, SeqMonotonic DEF StatusInv
<1>6. stack' \in [Threads -> Seq(TrueFrames')]
  BY <1>1, <1>4, <1>5
<1> QED BY <1>2, <1>6 DEF StatusInv

(* A client that is freed takes its replies along. *)
LEMMA ClientFreedStatus ==
  ASSUME Inv, StatusInv, NEW t \in Threads, NEW s \in Servers,
         Client_free(t, s), Client_pop_locked(s), UNCHANGED <<todo, finished, conid>>
  PROVE  wire' \in [Servers -> Seq(TrueMsgs')] /\ RouteInv'
<1>1. wire \in [Servers -> Seq(TrueMsgs')]
  <2>1. TrueMsgs \subseteq TrueMsgs'
    BY SuccessKept
  <2> QED BY <2>1, SeqMonotonic DEF StatusInv
<1>2. <<>> \in Seq(TrueMsgs')
  BY EmptySeq
<1>3. wire' \in [Servers -> Seq(TrueMsgs')]
  BY <1>1, <1>2 DEF Client_free
<1>4. RouteInv'
  BY DEF StatusInv, RouteInv, Client_pop_locked, Inv, TypeOK, ClientType
<1> QED BY <1>3, <1>4

LEMMA ServerDisconnectStatus ==
  ASSUME Inv, StatusInv, NEW t \in Threads, NEW s \in Servers, ServerDisconnect(t, s)
  PROVE  StatusInv'
<1>1. UNCHANGED <<todo, finished, conid, retstatus>>
  BY DEF ServerDisconnect, jobVars
<1>2. TrueFrames \subseteq TrueFrames' /\ TrueStatus'
  BY <1>1, StatusKept
<1>3. PICK c : c = Clients[s]
  OBVIOUS
<1>4. c \in Messages
  BY <1>3 DEF ServerDisconnect, Inv, TypeOK, ClientType
<1>5. Call("pop", c, "down") \in TrueFrames'
  BY <1>4, NoSuccess DEF Fns, States
<1>6. Call("unlock", None, "unset") \in TrueFrames'
  BY UnlockType DEF TrueFrames
<1>7. <<Call("pop", c, "down"), Call("unlock", None, "unset")>> \in Seq(TrueFrames')
  BY <1>5, <1>6
<1>8. stack \in [Threads -> Seq(TrueFrames')]
  BY <1>2, SeqMonotonic DEF StatusInv
<1>9. stack' \in [Threads -> Seq(TrueFrames')]
  BY <1>3, <1>7, <1>8 DEF ServerDisconnect
<1> QED BY <1>1, <1>2, <1>9, ClientFreedStatus DEF StatusInv, ServerDisconnect

LEMMA accept_clientStatus ==
  ASSUME Inv, StatusInv, NEW s \in Servers, accept_client(s)
  PROVE  StatusInv'
<1>1. UNCHANGED <<todo, finished, conid, Clients, stack, retstatus>>
  BY DEF accept_client, programVars, jobVars
<1>2. /\ stack' \in [Threads -> Seq(TrueFrames')] /\ RouteInv' /\ TrueStatus'
      /\ UNCHANGED wire => wire' \in [Servers -> Seq(TrueMsgs')]
  BY <1>1, StatusKept
<1>3. ASSUME wire' = [wire EXCEPT ![s] = <<>>]
      PROVE  wire' \in [Servers -> Seq(TrueMsgs')]
  <2>1. TrueMsgs \subseteq TrueMsgs'
    BY <1>1, SuccessKept
  <2>2. wire \in [Servers -> Seq(TrueMsgs')] /\ <<>> \in Seq(TrueMsgs')
    BY <2>1, SeqMonotonic, EmptySeq DEF StatusInv
  <2> QED BY <1>3, <2>2
<1> QED BY <1>2, <1>3 DEF StatusInv, accept_client

LEMMA receiver_threadStatus ==
  ASSUME Inv, StatusInv, NEW c \in Servers, receiver_thread(c)
  PROVE  StatusInv'
<1>1. UNCHANGED <<todo, finished, wire, conid, Clients, retstatus>>
  BY DEF receiver_thread, programVars, jobVars, serverVars
<1>2. /\ TrueFrames \subseteq TrueFrames'
      /\ wire' \in [Servers -> Seq(TrueMsgs')] /\ RouteInv' /\ TrueStatus'
  BY <1>1, StatusKept
<1>3. PICK f : f = [Call("message", Clients[c], "unset") EXCEPT !.s = c]
  OBVIOUS
<1>4. f \in Frames /\ f.fn = "message"
  <2>1. Clients[c] \in Messages
    BY DEF receiver_thread, Inv, TypeOK, ClientType
  <2> QED BY <1>3, <2>1 DEF Frames, Call, Fns, States
<1>5. f \in TrueFrames'
  BY <1>4 DEF TrueFrames
<1>6. <<f>> \in Seq(TrueFrames')
  BY <1>5
<1>7. stack \in [Threads -> Seq(TrueFrames')]
  BY <1>2, SeqMonotonic DEF StatusInv
<1>8. stack' \in [Threads -> Seq(TrueFrames')]
  BY <1>3, <1>6, <1>7 DEF receiver_thread
<1> QED BY <1>2, <1>8 DEF StatusInv

(***************************************************************************)
(* A reply is taken for a success of the job it names, or of the monitor's. *)
(***************************************************************************)
LEMMA DeliverStatus ==
  ASSUME Inv, NEW w \in TrueMsgs, UNCHANGED <<todo, finished>>
  PROVE  Deliver(w) \in Seq(TrueFrames')
<1>1. PICK m : m = Recipient(w.m)
  OBVIOUS
<1>2. m \in Messages \cup {None}
  BY <1>1 DEF Recipient, Inv, TypeOK, JobType
<1>3. CASE m = None \/ w.type = "CHECKEDIN"
  BY <1>1, <1>3, EmptySeq DEF Deliver
<1>4. CASE m # None /\ w.type # "CHECKEDIN"
  <2>1. m \in Messages
    BY <1>2, <1>4
  <2>2. Call("before", m, "unset") \in TrueFrames'
    BY <2>1, NoSuccess DEF Fns, States
  <2>3. ASSUME w.type # "STARTING"
        PROVE  Done(m, "ok", TRUE) \in TrueFrames'
    <3>1. w.type = "FINISHED"
      BY <1>4, <2>3 DEF TrueMsgs, Msgs
    <3>2. m = w.m \/ kind[m] = "checkin"
      BY <1>1, <1>4 DEF Recipient, Inv, JobInv
    <3>3. Success(m)'
      BY <2>1, <3>1, <3>2 DEF TrueMsgs, Success
    <3>4. Done(m, "ok", TRUE) \in Frames /\ Done(m, "ok", TRUE).fn = "callback"
          /\ Done(m, "ok", TRUE).m = m
      BY <2>1, DoneType DEF States, Done, Call
    <3> QED BY <3>3, <3>4 DEF TrueFrames
  <2>4. CASE w.type = "STARTING"
    <3>1. <<Call("before", m, "unset")>> \in Seq(TrueFrames')
      BY <2>2
    <3>2. Deliver(w) = <<Call("before", m, "unset")>>
      BY <1>1, <1>4, <2>4 DEF Deliver
    <3> QED BY <3>1, <3>2
  <2>5. CASE w.type # "STARTING"
    <3>1. Done(m, "ok", TRUE) \in TrueFrames'
      BY <2>3, <2>5
    <3>2. <<Done(m, "ok", TRUE)>> \in Seq(TrueFrames')
      BY <3>1, OneFrame
    <3>3. Deliver(w) = <<Done(m, "ok", TRUE)>>
      BY <1>1, <1>4, <2>5 DEF Deliver
    <3> QED BY <3>2, <3>3
  <2> QED BY <2>4, <2>5
<1> QED BY <1>3, <1>4

LEMMA Client_do_messageStatus ==
  ASSUME Inv, StatusInv, Client_do_message
  PROVE  StatusInv'
<1>0. PICK c, s : c = Top(receiver).s /\ s = sock[c]
  OBVIOUS
<1>1. TypeOK /\ receiver \in Threads /\ At(receiver, "message")
  BY DEF Client_do_message, Inv, Threads
<1>2. c \in Servers
  BY <1>0, <1>1, TopType DEF Inv, StackInv, FrameInv
<1>3. s \in Servers \cup {None} /\ Clients[c] \in Messages \cup {None}
  BY <1>0, <1>1, <1>2 DEF TypeOK, ClientType
<1>4. UNCHANGED <<todo, finished, conid, retstatus>>
  BY DEF Client_do_message, programVars, jobVars, clientVars
<1>5. /\ TrueFrames \subseteq TrueFrames' /\ TrueStatus'
      /\ UNCHANGED wire => wire' \in [Servers -> Seq(TrueMsgs')]
      /\ UNCHANGED <<conid, Clients>> => RouteInv'
  BY <1>4, StatusKept
<1>6. /\ wire' \in [Servers -> Seq(TrueMsgs')] /\ RouteInv'
      /\ \E fs \in Seq(TrueFrames') : Become(receiver, fs)
  <2>1. CASE Become(receiver, <<>>) /\ UNCHANGED <<wire, link, clientVars>>
    BY <1>5, <2>1, EmptySeq DEF clientVars
  <2>2. CASE /\ s # None /\ wire[s] # <<>>
             /\ wire' = [wire EXCEPT ![s] = Tail(@)]
             /\ Become(receiver, Deliver(Head(wire[s]))) /\ UNCHANGED clientVars
    <3>1. TrueMsgs \subseteq TrueMsgs'
      BY <1>4, SuccessKept
    <3>2. s \in Servers /\ wire[s] \in Seq(TrueMsgs)
      BY <1>3, <2>2 DEF StatusInv
    <3>3. Head(wire[s]) \in TrueMsgs /\ Tail(wire[s]) \in Seq(TrueMsgs)
      BY <2>2, <3>2, HeadTailProperties
    <3>4. Tail(wire[s]) \in Seq(TrueMsgs') /\ wire \in [Servers -> Seq(TrueMsgs')]
      BY <3>1, <3>3, SeqMonotonic DEF StatusInv
    <3>5. wire' \in [Servers -> Seq(TrueMsgs')]
      BY <2>2, <3>4
    <3>6. Deliver(Head(wire[s])) \in Seq(TrueFrames')
      BY <1>4, <3>3, DeliverStatus
    <3> QED BY <1>5, <2>2, <3>5, <3>6 DEF clientVars
  <2>3. CASE /\ Clients[c] # None /\ Client_free(receiver, c) /\ Client_pop_locked(c)
             /\ Become(receiver, <<Call("pop", Clients[c], "down")>>)
    <3>1. PICK d \in Messages : d = Clients[c]
      BY <1>3, <2>3
    <3>2. Call("pop", d, "down") \in TrueFrames'
      BY NoSuccess DEF Fns, States
    <3>3. <<Call("pop", d, "down")>> \in Seq(TrueFrames')
      BY <3>2
    <3> QED BY <1>1, <1>2, <1>4, <2>3, <3>1, <3>3, ClientFreedStatus
  <2> QED BY <1>0, <2>1, <2>2, <2>3 DEF Client_do_message
<1>7. stack' \in [Threads -> Seq(TrueFrames')]
  BY <1>1, <1>5, <1>6, TrueStack DEF StatusInv
<1> QED BY <1>5, <1>6, <1>7 DEF StatusInv

LEMMA Job_callback_beforeStatus ==
  ASSUME Inv, StatusInv, Job_callback_before
  PROVE  StatusInv'
<1>1. UNCHANGED <<todo, finished, wire, conid, Clients, retstatus>>
  BY DEF Job_callback_before, programVars, jobVars, clientVars, serverVars
<1>2. <<>> \in Seq(TrueFrames') /\ receiver \in Threads
  BY EmptySeq DEF Threads
<1> QED BY <1>1, <1>2, PlainStep DEF Job_callback_before

LEMMA reset_fdactiveStatus ==
  ASSUME Inv, StatusInv, reset_fdactive
  PROVE  StatusInv'
<1> DEFINE broken == {s \in Servers : Clients[s] # None /\ sock[s] = None}
<1>1. UNCHANGED <<todo, finished, wire, conid, Clients, retstatus>>
  BY DEF reset_fdactive, programVars, jobVars, serverVars
<1>2. /\ TrueFrames \subseteq TrueFrames'
      /\ wire' \in [Servers -> Seq(TrueMsgs')] /\ RouteInv' /\ TrueStatus'
      /\ UNCHANGED stack => stack' \in [Threads -> Seq(TrueFrames')]
  BY <1>1, StatusKept
<1>3. ASSUME NEW order \in Orders(broken),
             stack' = [stack EXCEPT ![receiver] = Frees(order)]
      PROVE  stack' \in [Threads -> Seq(TrueFrames')]
  <2> DEFINE n == Cardinality(broken)
             pops == [i \in DOMAIN order |-> Call("pop", Clients[order[i]], "down")]
  <2>1. n \in Nat /\ order \in [1 .. n -> broken]
    BY MessageType, FS_Subset, FS_CardinalityType DEF Orders
  <2>2. ASSUME NEW i \in 1 .. n
        PROVE  Call("pop", Clients[order[i]], "down") \in TrueFrames'
    <3>1. PICK d \in Messages : d = Clients[order[i]]
      BY <2>1 DEF Inv, TypeOK, ClientType
    <3>2. Call("pop", d, "down") \in TrueFrames'
      BY NoSuccess DEF Fns, States
    <3> QED BY <3>1, <3>2
  <2>3. pops \in Seq(TrueFrames')
    <3>1. pops \in [1 .. n -> TrueFrames']
      BY <2>1, <2>2
    <3> QED BY <2>1, <3>1, SeqDef
  <2> HIDE DEF pops
  <2>4. Call("unlock", None, "unset") \in TrueFrames'
    BY UnlockType DEF TrueFrames
  <2>5. Append(pops, Call("unlock", None, "unset")) \in Seq(TrueFrames')
    BY <2>3, <2>4, AppendProperties
  <2>6. stack \in [Threads -> Seq(TrueFrames')]
    BY <1>2, SeqMonotonic DEF StatusInv
  <2> QED BY <1>3, <2>5, <2>6 DEF Frees, pops
<1>4. stack' \in [Threads -> Seq(TrueFrames')]
  BY <1>2, <1>3 DEF reset_fdactive
<1> QED BY <1>2, <1>4 DEF StatusInv

(* A server says FINISHED of what it finished. *)
LEMMA SendReplyStatus ==
  ASSUME Inv, StatusInv, NEW s \in Servers, NEW type \in {"STARTING", "FINISHED", "CHECKEDIN"},
         NEW m \in Messages \cup {None}, send_reply(s, type, m),
         todo' = todo, finished \subseteq finished',
         type = "FINISHED" /\ m \in Messages => m \in finished'
  PROVE  wire' \in [Servers -> Seq(TrueMsgs')]
<1> DEFINE msg == [type |-> type, m |-> m]
<1>1. msg \in TrueMsgs'
  BY DEF TrueMsgs, Msgs
<1> HIDE DEF msg
<1>2. wire \in [Servers -> Seq(TrueMsgs')]
  <2>1. TrueMsgs \subseteq TrueMsgs'
    BY SuccessKept
  <2> QED BY <2>1, SeqMonotonic DEF StatusInv
<1>3. <<msg>> \in Seq(TrueMsgs') /\ Append(wire[s], msg) \in Seq(TrueMsgs')
  BY <1>1, <1>2, AppendProperties
<1>4. wire' = [wire EXCEPT ![s] = IF link[s] \in {"none", "closed"} THEN <<msg>>
                                  ELSE Append(wire[s], msg)]
  BY <1>2 DEF send_reply, msg
<1> QED BY <1>2, <1>3, <1>4

LEMMA ServerStatus ==
  ASSUME Inv, StatusInv, Events \cap Messages = {}, NEW s \in Servers,
         \/ ServerStep(s) \/ lost(s) \/ \E m \in Events : event(s, m)
  PROVE  StatusInv'
<1>1. UNCHANGED <<todo, stack, conid, Clients, retstatus>> /\ finished \subseteq finished'
  BY DEF ServerStep, begin, DoSrvMonitor, finish, lost, event, programVars, jobVars, clientVars
<1>2. /\ stack' \in [Threads -> Seq(TrueFrames')] /\ RouteInv' /\ TrueStatus'
      /\ UNCHANGED wire => wire' \in [Servers -> Seq(TrueMsgs')]
  BY <1>1, StatusKept
<1>3. wire' \in [Servers -> Seq(TrueMsgs')]
  <2>1. ASSUME NEW m \in Messages, begin(s, m)
        PROVE  wire' \in [Servers -> Seq(TrueMsgs')]
    BY <1>1, <1>2, <2>1, SendReplyStatus DEF begin, DoSrvMonitor
  <2>2. ASSUME NEW m \in Messages, finish(s, m)
        PROVE  wire' \in [Servers -> Seq(TrueMsgs')]
    BY <1>1, <2>2, SendReplyStatus DEF finish
  <2>3. ASSUME NEW m \in Events, event(s, m)
        PROVE  wire' \in [Servers -> Seq(TrueMsgs')]
    <3>1. m \in Messages \cup {None} /\ m \notin Messages
      BY MessageType
    <3> QED BY <1>1, <2>3, <3>1, SendReplyStatus DEF event
  <2>4. CASE lost(s)
    BY <1>2, <2>4 DEF lost
  <2> QED BY <2>1, <2>2, <2>3, <2>4 DEF ServerStep
<1> QED BY <1>2, <1>3 DEF StatusInv

LEMMA StatusNext ==
  ASSUME Events \cap Messages = {}, Inv, StatusInv, [Next]_vars
  PROVE  StatusInv'
<1>1. CASE UNCHANGED vars
  <2>1. UNCHANGED <<todo, finished, stack, wire, conid, Clients, retstatus>>
    BY <1>1 DEF vars
  <2> QED BY <2>1, StatusKept DEF StatusInv
<1>2. ASSUME NEW t \in Threads, ThreadStep(t)
      PROVE  StatusInv'
  BY <1>2, server_connectStatus, Job_registerStatus, SendArgStatus, GetAnswerInfoTSStatus,
     Job_cleanupStatus, Job_callback_doneStatus, Job_pop_by_conidStatus, ServerWaitStatus,
     ReturnStatus DEF ThreadStep
<1>3. ASSUME NEW t \in Senders,
             \/ \E m \in Messages : ServerSendMessage(t, m)
             \/ \E s \in Servers : ServerDisconnect(t, s)
             \/ Job_abandon_locked(t)
      PROVE  StatusInv'
  BY <1>3, ServerSendMessageStatus, ServerDisconnectStatus, ReturnStatus DEF Threads
<1>4. CASE ReceiverStep
  <2>1. CASE select_timeout
    <3>1. UNCHANGED <<todo, finished, stack, wire, conid, Clients, retstatus>>
      BY <2>1 DEF select_timeout, programVars, jobVars, serverVars
    <3> QED BY <3>1, StatusKept DEF StatusInv
  <2> QED BY <1>4, <2>1, accept_clientStatus, receiver_threadStatus, Client_do_messageStatus,
             Job_callback_beforeStatus, reset_fdactiveStatus DEF ReceiverStep
<1> QED BY <1>1, <1>2, <1>3, <1>4, ServerStatus DEF Next

LEMMA StatusInit ==
  ASSUME Init
  PROVE  StatusInv
<1>1. <<>> \in Seq(TrueFrames) /\ <<>> \in Seq(TrueMsgs)
  BY EmptySeq
<1> QED BY <1>1 DEF Init, StatusInv, RouteInv, TrueStatus

(***************************************************************************)
(* A job that reports success was finished by its server, or the server     *)
(* was stopped (Job_callback_done stores what Client_do_message or          *)
(* Job_cleanup hands it) - provided that the job ids in events are not      *)
(* those of this process.                                                   *)
(***************************************************************************)
THEOREM StatusTrue ==
  ASSUME Events \cap Messages = {}
  PROVE  Spec => []TrueStatus
<1>1. Init => Inv /\ StatusInv
  BY InitInv, StatusInit
<1>2. Inv /\ StatusInv /\ [Next]_vars => (Inv /\ StatusInv)'
  BY NextInv, StatusNext
<1>3. StatusInv => TrueStatus
  BY DEF StatusInv
<1> QED BY <1>1, <1>2, <1>3, PTL DEF Spec
-----------------------------------------------------------------------------
(* Who works on what as long as nothing is cleaned up.                      *)

(* Nothing was cleaned up yet, and no connection is to fail. *)
Calm == disconnects = 0 /\ dead = {}

(* The frames of a thread that sends or waits: they are on top of its stack, *)
(* and the thread is at its message.                                         *)
SendFns == {"connect", "register", "send", "answer", "wait", "asleep"}
Send(t) == {f \in Frames : stack[t] # <<>> /\ f = stack[t][1] /\ f.fn \in SendFns}

(* What the receiver does with a job or a client is at the bottom of its stack. *)
RecvFns == {"message", "before", "callback", "finish"}
Recv == {f \in Frames : /\ stack[receiver] # <<>>
                        /\ f = stack[receiver][Len(stack[receiver])] /\ f.fn \in RecvFns}

(* There are no other frames. *)
SenderShape(s) == s = <<>> \/ (Len(s) = 1 /\ s[1].fn \in SendFns)

ReceiverShape(s) ==
  \/ s = <<>>
  \/ Len(s) = 1 /\ s[1].fn \in SendFns \cup RecvFns
  \/ Len(s) = 2 /\ s[1].fn \in SendFns /\ s[2].fn = "finish"

ShapeInv ==
  /\ \A t \in Senders : SenderShape(stack[t])
  /\ ReceiverShape(stack[receiver])
  /\ badfd = FALSE

(* A message that no server got, and one that no connection is named after. *)
Unserved(m) == m \notin finished /\ \A s \in Servers : m \notin work[s]
Unused(m) == (\A j \in Messages : conid[j] # m) /\ (\A s \in Servers : Clients[s] # m)

(***************************************************************************)
(* A thread owns the message it sends: its connection stays open, nobody    *)
(* else waits for it, and while it sleeps its job is in the list.           *)
(***************************************************************************)
Owned(t, f) ==
  /\ f.m \notin todo
  /\ f.fn \in {"connect", "register", "send"} => Unserved(f.m)
  /\ f.fn = "connect" => Unused(f.m)
  /\ f.fn \in {"register", "send"} => HasSocket(t, conid[f.m])
  /\ f.fn = "answer" => kind[f.m] # "stop"
  /\ f.fn \in {"wait", "asleep"} => kind[f.m] = "wait"
  /\ f.fn = "asleep" => f.m \in Jobs /\ cond[f.m] # "NULL"

SendInv ==
  /\ \A m \in todo : Unserved(m) /\ Unused(m)
  /\ \A t \in Threads : \A f \in Send(t) :
       /\ Owned(t, f)
       /\ \A u \in Threads : \A g \in Send(u) : g.m = f.m => u = t

(***************************************************************************)
(* The reply to a message somebody waits for comes once: its server has it  *)
(* in work, or it is on the wire, or the receiver works on it, or the       *)
(* thread that waits was told.                                              *)
(***************************************************************************)
Reply(s, i, m) == wire[s][i].type = "FINISHED" /\ wire[s][i].m = m

ReplyInv ==
  /\ \A s \in Servers : \A m \in work[s] : s = to[m] /\ m \notin finished
  /\ \A s \in Servers : \A i \in DOMAIN wire[s] :
       wire[s][i].type = "STARTING" => kind[wire[s][i].m] # "wait"
  /\ \A m \in Messages : kind[m] = "wait" =>
       /\ cond[m] = "1" => m \in finished
       /\ \A s \in Servers : \A i, j \in DOMAIN wire[s] :
            Reply(s, i, m) => /\ s = to[m] /\ m \in finished /\ cond[m] # "1"
                              /\ Reply(s, j, m) => i = j

(* The job and the client of the receiver are those of Job_get_by_jobid and *)
(* of the look-up in Clients.                                               *)
Alive(f) ==
  IF f.fn = "message"
    THEN /\ f.s \in Servers
         /\ Clients[f.s] # None /\ sock[f.s] # None /\ wire[sock[f.s]] # <<>>
    ELSE /\ f.m \in Jobs
         /\ kind[f.m] = "wait" =>
              /\ f.fn # "before" /\ f.m \in finished /\ cond[f.m] # "1"
              /\ \A s \in Servers : \A i \in DOMAIN wire[s] : ~Reply(s, i, f.m)

RecvInv == \A f \in Recv : Alive(f)

CalmBody == ShapeInv /\ SendInv /\ ReplyInv /\ RecvInv
CalmInv == Calm => CalmBody

-----------------------------------------------------------------------------
(* The shape of the stacks.                                                 *)

LEMMA FnsDiffer ==
  /\ SendFns \cap RecvFns = {} /\ SendFns \subseteq Fns /\ RecvFns \subseteq Fns
  /\ "unlock" \notin SendFns \cup RecvFns
BY DEF SendFns, RecvFns, Fns

LEMMA ShapeSenders ==
  \A t \in Threads : t # receiver => t \in Senders
BY DEF Threads

(* A step changes one stack. *)
LEMMA OneStack ==
  ASSUME TypeOK, ShapeInv, badfd' = badfd, NEW t \in Threads, NEW new \in Seq(Frames),
         stack' = [stack EXCEPT ![t] = new],
         IF t = receiver THEN ReceiverShape(new) ELSE SenderShape(new)
  PROVE  /\ ShapeInv'
         /\ \A u \in Threads \ {t} : Send(u)' = Send(u)
         /\ Send(t)' = {f \in Frames : new # <<>> /\ f = new[1] /\ f.fn \in SendFns}
         /\ IF t = receiver
              THEN Recv' = {f \in Frames : new # <<>> /\ f = new[Len(new)] /\ f.fn \in RecvFns}
              ELSE Recv' = Recv
<1>1. stack \in [Threads -> Seq(Frames)] /\ receiver \in Threads /\ receiver \notin Senders
      /\ Senders \subseteq Threads
  BY MessageType DEF TypeOK, StackType, Threads
<1>2. stack'[t] = new /\ \A u \in Threads \ {t} : stack'[u] = stack[u]
  BY <1>1
<1>3. ShapeInv'
  BY <1>1, <1>2 DEF ShapeInv
<1>4. \A u \in Threads \ {t} : Send(u)' = Send(u)
  BY <1>2 DEF Send
<1>5. Send(t)' = {f \in Frames : new # <<>> /\ f = new[1] /\ f.fn \in SendFns}
  BY <1>2 DEF Send
<1>6. CASE t = receiver
  BY <1>2, <1>3, <1>4, <1>5, <1>6 DEF Recv
<1>7. CASE t # receiver
  BY <1>1, <1>2, <1>3, <1>4, <1>5, <1>7 DEF Recv
<1> QED BY <1>6, <1>7

(* Short stacks. *)
LEMMA ShortStacks ==
  ASSUME NEW g \in Frames, NEW h \in Frames
  PROVE  /\ <<>> \in Seq(Frames) /\ <<g>> \in Seq(Frames) /\ <<g, h>> \in Seq(Frames)
         /\ <<g>> # <<>> /\ <<g, h>> # <<>>
         /\ Len(<<g>>) = 1 /\ Len(<<g, h>>) = 2
         /\ <<g>>[1] = g /\ <<g, h>>[1] = g /\ <<g, h>>[2] = h
OBVIOUS

LEMMA TwoFrames ==
  ASSUME NEW g \in Frames, NEW h \in Frames
  PROVE  <<g>> \o <<h>> = <<g, h>>
<1>1. <<g>> \o <<h>> \in Seq(Frames) /\ Len(<<g>> \o <<h>>) = 2
      /\ (<<g>> \o <<h>>)[1] = g /\ (<<g>> \o <<h>>)[2] = h
  BY ShortStacks, ConcatProperties
<1>2. ASSUME NEW r \in Seq(Frames), Len(r) = 2
      PROVE  r = <<r[1], r[2]>>
  BY <1>2
<1> QED BY <1>1, <1>2

(* What is below the top frame. *)
LEMMA Below ==
  ASSUME TypeOK, ShapeInv, NEW t \in Threads, NEW fn, At(t, fn)
  PROVE  /\ fn \in SendFns \/ (t = receiver /\ fn \in RecvFns)
         /\ Top(t) \in Frames /\ Top(t).fn = fn /\ Top(t).m \in Messages /\ stack[t][1] = Top(t)
         /\ fn \in SendFns => Send(t) = {Top(t)}
         /\ t = receiver /\ fn \in RecvFns => Recv = {Top(t)} /\ Send(t) = {}
         /\ t # receiver \/ fn \in RecvFns => stack[t] = <<Top(t)>> /\ Tail(stack[t]) = <<>>
         /\ t = receiver /\ fn \in SendFns =>
              \/ stack[t] = <<Top(t)>> /\ Tail(stack[t]) = <<>> /\ Recv = {}
              \/ \E h \in Frames : /\ h.fn = "finish" /\ stack[t] = <<Top(t), h>>
                                   /\ Tail(stack[t]) = <<h>> /\ Recv = {h}
<1> DEFINE s == stack[t]
           top == Top(t)
<1>1. /\ s \in Seq(Frames) /\ s # <<>> /\ top = s[1] /\ top \in Frames /\ top.fn = fn
      /\ Len(s) \in Nat
  BY TopType, LenProperties
<1>2. (* A stack of one frame. *)
      Len(s) = 1 => s = <<top>> /\ Tail(s) = <<>>
  <2> SUFFICES ASSUME Len(s) = 1
               PROVE  s = <<top>> /\ Tail(s) = <<>>
    OBVIOUS
  <2>1. Tail(s) \in Seq(Frames) /\ Len(Tail(s)) = 0
    BY <1>1, HeadTailProperties
  <2>2. s = <<top>>
    BY <1>1
  <2> QED BY <2>1, <2>2, EmptySeq
<1>3. (* A stack of two frames. *)
      Len(s) = 2 => s[2] \in Frames /\ s = <<top, s[2]>> /\ Tail(s) = <<s[2]>>
  <2> SUFFICES ASSUME Len(s) = 2
               PROVE  s[2] \in Frames /\ s = <<top, s[2]>> /\ Tail(s) = <<s[2]>>
    OBVIOUS
  <2>1. s[2] \in Frames /\ s = <<top, s[2]>>
    BY <1>1
  <2>2. Tail(s) \in Seq(Frames) /\ Len(Tail(s)) = 1 /\ Tail(s)[1] = s[2]
    BY <1>1, HeadTailProperties
  <2>3. Tail(s) = <<s[2]>>
    <3>1. ASSUME NEW r \in Seq(Frames), Len(r) = 1
          PROVE  r = <<r[1]>>
      BY <3>1
    <3> QED BY <2>2, <3>1
  <2> QED BY <2>1, <2>3
<1>4. CASE t # receiver
  <2>1. Len(s) = 1 /\ fn \in SendFns
    BY <1>1, <1>4, ShapeSenders DEF ShapeInv, SenderShape
  <2>2. Send(t) = {top}
    BY <1>1, <2>1 DEF Send
  <2> QED BY <1>1, <1>2, <1>4, <2>1, <2>2, FnsDiffer, FrameFields
<1>5. CASE t = receiver
  <2>1. \/ Len(s) = 1 /\ fn \in SendFns \cup RecvFns
        \/ Len(s) = 2 /\ fn \in SendFns /\ s[2].fn = "finish"
    BY <1>1, <1>5 DEF ShapeInv, ReceiverShape
  <2>2. fn \in SendFns => Send(t) = {top}
    BY <1>1 DEF Send
  <2>3. fn \in RecvFns => Send(t) = {}
    BY <1>1, FnsDiffer DEF Send
  <2>4. Len(s) = 1 => Recv = {f \in Frames : f = top /\ f.fn \in RecvFns}
    BY <1>1, <1>5 DEF Recv
  <2>5. Len(s) = 2 /\ s[2].fn = "finish" => Recv = {s[2]}
    BY <1>1, <1>3, <1>5 DEF Recv, RecvFns
  <2>6. CASE Len(s) = 1
    BY <1>1, <1>2, <1>5, <2>1, <2>2, <2>3, <2>4, <2>6, FnsDiffer, FrameFields
  <2>7. CASE Len(s) = 2
    BY <1>1, <1>3, <1>5, <2>1, <2>2, <2>5, <2>7, FnsDiffer, FrameFields
  <2> QED BY <2>1, <2>6, <2>7
<1> QED BY <1>4, <1>5

(* A thread that sends goes on or returns. *)
LEMMA SendGoes ==
  ASSUME TypeOK, ShapeInv, badfd' = badfd, NEW t \in Threads, NEW fn \in SendFns, At(t, fn),
         NEW g \in Frames, g.fn \in SendFns, Become(t, <<g>>)
  PROVE  /\ ShapeInv' /\ Recv' = Recv
         /\ \A u \in Threads \ {t} : Send(u)' = Send(u)
         /\ Send(t)' = {g}
<1> PICK rest : rest = Tail(stack[t])
  OBVIOUS
<1>1. /\ t # receiver => rest = <<>>
      /\ t = receiver =>
           \/ rest = <<>> /\ Recv = {}
           \/ \E h \in Frames : h.fn = "finish" /\ rest = <<h>> /\ Recv = {h}
  BY Below
<1>2. CASE rest = <<>>
  <2>1. <<g>> \o <<>> = <<g>> /\ <<g>> \in Seq(Frames)
    BY ConcatEmptySeq, ShortStacks
  <2>2. stack' = [stack EXCEPT ![t] = <<g>>]
    BY <1>2, <2>1 DEF Become
  <2>3. IF t = receiver THEN ReceiverShape(<<g>>) ELSE SenderShape(<<g>>)
    BY ShortStacks DEF ReceiverShape, SenderShape
  <2>4. /\ ShapeInv' /\ \A u \in Threads \ {t} : Send(u)' = Send(u)
        /\ Send(t)' = {f \in Frames : <<g>> # <<>> /\ f = <<g>>[1] /\ f.fn \in SendFns}
        /\ IF t = receiver
             THEN Recv' = {f \in Frames : <<g>> # <<>> /\ f = <<g>>[Len(<<g>>)] /\ f.fn \in RecvFns}
             ELSE Recv' = Recv
    BY <2>1, <2>2, <2>3, OneStack
  <2>5. Send(t)' = {g} /\ (t = receiver => Recv' = {})
    BY <2>4, ShortStacks, FnsDiffer
  <2>6. t = receiver => Recv = {}
    BY <1>1, <1>2, ShortStacks
  <2> QED BY <2>4, <2>5, <2>6
<1>3. CASE rest # <<>>
  <2>1. PICK h \in Frames : t = receiver /\ h.fn = "finish" /\ rest = <<h>> /\ Recv = {h}
    BY <1>1, <1>3
  <2>2. "finish" \in RecvFns /\ "finish" \notin SendFns
    BY DEF RecvFns, SendFns
  <2>3. <<g>> \o <<h>> = <<g, h>>
    BY TwoFrames
  <2>4. stack' = [stack EXCEPT ![t] = <<g, h>>]
    BY <2>1, <2>3 DEF Become
  <2>5. ReceiverShape(<<g, h>>)
    BY <2>1, ShortStacks DEF ReceiverShape
  <2>6. /\ ShapeInv' /\ \A u \in Threads \ {t} : Send(u)' = Send(u)
        /\ Send(t)' = {f \in Frames : <<g, h>> # <<>> /\ f = <<g, h>>[1] /\ f.fn \in SendFns}
        /\ Recv' = {f \in Frames : <<g, h>> # <<>> /\ f = <<g, h>>[Len(<<g, h>>)] /\ f.fn \in RecvFns}
    BY <2>1, <2>4, <2>5, ShortStacks, OneStack
  <2>7. Send(t)' = {g} /\ Recv' = {h}
    BY <2>1, <2>2, <2>6, ShortStacks
  <2> QED BY <2>1, <2>6, <2>7
<1> QED BY <1>2, <1>3

LEMMA SendReturns ==
  ASSUME TypeOK, ShapeInv, badfd' = badfd, NEW t \in Threads, NEW fn \in SendFns, At(t, fn),
         Become(t, <<>>)
  PROVE  /\ ShapeInv' /\ Recv' = Recv
         /\ \A u \in Threads \ {t} : Send(u)' = Send(u)
         /\ Send(t)' = {}
<1> PICK rest : rest = Tail(stack[t])
  OBVIOUS
<1>1. /\ t # receiver => rest = <<>>
      /\ t = receiver =>
           \/ rest = <<>> /\ Recv = {}
           \/ \E h \in Frames : h.fn = "finish" /\ rest = <<h>> /\ Recv = {h}
  BY Below
<1>2. CASE rest = <<>>
  <2>1. <<>> \o <<>> = <<>> /\ <<>> \in Seq(Frames)
    BY ConcatEmptySeq, EmptySeq
  <2>2. stack' = [stack EXCEPT ![t] = <<>>]
    BY <1>2, <2>1 DEF Become
  <2>3. IF t = receiver THEN ReceiverShape(<<>>) ELSE SenderShape(<<>>)
    BY DEF ReceiverShape, SenderShape
  <2>4. /\ ShapeInv' /\ \A u \in Threads \ {t} : Send(u)' = Send(u)
        /\ Send(t)' = {} /\ (IF t = receiver THEN Recv' = {} ELSE Recv' = Recv)
    BY <2>1, <2>2, <2>3, OneStack
  <2>5. t = receiver => Recv = {}
    BY <1>1, <1>2, ShortStacks
  <2> QED BY <2>4, <2>5
<1>3. CASE rest # <<>>
  <2>1. PICK h \in Frames : t = receiver /\ h.fn = "finish" /\ rest = <<h>> /\ Recv = {h}
    BY <1>1, <1>3
  <2>2. "finish" \in RecvFns /\ "finish" \notin SendFns
    BY DEF RecvFns, SendFns
  <2>3. <<>> \o <<h>> = <<h>>
    BY ShortStacks, ConcatEmptySeq
  <2>4. stack' = [stack EXCEPT ![t] = <<h>>]
    BY <2>1, <2>3 DEF Become
  <2>5. ReceiverShape(<<h>>)
    BY <2>1, <2>2, ShortStacks DEF ReceiverShape
  <2>6. /\ ShapeInv' /\ \A u \in Threads \ {t} : Send(u)' = Send(u)
        /\ Send(t)' = {f \in Frames : <<h>> # <<>> /\ f = <<h>>[1] /\ f.fn \in SendFns}
        /\ Recv' = {f \in Frames : <<h>> # <<>> /\ f = <<h>>[Len(<<h>>)] /\ f.fn \in RecvFns}
    BY <2>1, <2>4, <2>5, ShortStacks, OneStack
  <2>7. Send(t)' = {} /\ Recv' = {h}
    BY <2>1, <2>2, <2>6, ShortStacks
  <2> QED BY <2>1, <2>6, <2>7
<1> QED BY <1>2, <1>3

-----------------------------------------------------------------------------
(* What a step leaves alone. *)

LEMMA SendMessage ==
  ASSUME NEW t \in Threads, NEW f \in Send(t)
  PROVE  f \in Frames /\ f.fn \in SendFns /\ f.m \in Messages
BY FrameFields, FnsDiffer DEF Send

(* What the other threads that send rely on. *)
SendRelies(t, j) ==
  /\ Unserved(j) => Unserved(j)'
  /\ Unused(j) => Unused(j)'
  /\ \A u \in Threads \ {t} : HasSocket(u, conid[j]) => HasSocket(u, conid[j])'
  /\ j \in Jobs /\ cond[j] # "NULL" => j \in Jobs' /\ cond'[j] # "NULL"

LEMMA OwnedKept ==
  ASSUME NEW t, NEW u \in Threads \ {t}, NEW f \in Send(u), Owned(u, f),
         SendRelies(t, f.m), todo' \subseteq todo
  PROVE  Owned(u, f)'
BY DEF Owned, SendRelies

(* A step of a thread with its message. *)
LEMMA SendMoves ==
  ASSUME SendInv, NEW t \in Threads, NEW m \in Messages,
         \A u \in Threads \ {t} : Send(u)' = Send(u) /\ \A f \in Send(u) : f.m # m,
         \A g \in Send(t)' : g.m = m /\ Owned(t, g)',
         todo' \subseteq todo, m \notin todo', todo \subseteq Messages,
         \A j \in Messages \ {m} : SendRelies(t, j)
  PROVE  SendInv'
<1>1. ASSUME NEW j \in todo'
      PROVE  Unserved(j)' /\ Unused(j)'
  BY <1>1 DEF SendInv, SendRelies
<1>2. ASSUME NEW u \in Threads, NEW f \in Send(u)'
      PROVE  Owned(u, f)'
  <2>1. CASE u = t
    BY <1>2, <2>1
  <2>2. CASE u # t
    <3>1. f \in Send(u) /\ f.m \in Messages \ {m}
      BY <1>2, <2>2, SendMessage
    <3> QED BY <2>2, <3>1, OwnedKept DEF SendInv
  <2> QED BY <2>1, <2>2
<1>3. ASSUME NEW u \in Threads, NEW v \in Threads, NEW f \in Send(u)', NEW g \in Send(v)', f.m = g.m
      PROVE  u = v
  BY <1>3 DEF SendInv
<1> QED BY <1>1, <1>2, <1>3 DEF SendInv

(* A step with nobody's message. *)
LEMMA SendSame ==
  ASSUME SendInv, \A u \in Threads : Send(u)' = Send(u), todo' = todo, todo \subseteq Messages,
         \A j \in Messages : SendRelies(None, j)
  PROVE  SendInv'
<1>1. ASSUME NEW j \in todo'
      PROVE  Unserved(j)' /\ Unused(j)'
  BY <1>1 DEF SendInv, SendRelies
<1>2. ASSUME NEW u \in Threads, NEW f \in Send(u)'
      PROVE  Owned(u, f)'
  <2>1. f \in Send(u) /\ f.m \in Messages /\ u \in Threads \ {None}
    BY <1>2, SendMessage, MessageType
  <2> QED BY <2>1, OwnedKept DEF SendInv
<1>3. ASSUME NEW u \in Threads, NEW v \in Threads, NEW f \in Send(u)', NEW g \in Send(v)', f.m = g.m
      PROVE  u = v
  BY <1>3 DEF SendInv
<1> QED BY <1>1, <1>2, <1>3 DEF SendInv

LEMMA OthersDiffer ==
  ASSUME SendInv, NEW t \in Threads, NEW f \in Send(t)
  PROVE  \A u \in Threads \ {t} : \A g \in Send(u) : g.m # f.m
BY DEF SendInv

LEMMA ReplyKept ==
  ASSUME ReplyInv, UNCHANGED <<work, finished, wire>>,
         \A m \in Messages : kind[m] = "wait" /\ cond'[m] = "1" => cond[m] = "1"
  PROVE  ReplyInv'
BY DEF ReplyInv, Reply

(* The jobs the receiver may work on. *)
Present(m) == m \in Jobs /\ (kind[m] = "wait" => cond[m] # "1")

LEMMA RecvMessage ==
  ASSUME NEW f \in Recv
  PROVE  f \in Frames /\ f.fn \in RecvFns /\ f.m \in Messages
BY FrameFields, FnsDiffer DEF Recv

LEMMA RecvKept ==
  ASSUME RecvInv, Recv' = Recv, UNCHANGED <<finished, wire, sock>>,
         \A s \in Servers : Clients[s] # None => Clients'[s] # None,
         \A m \in Messages : Present(m) => Present(m)'
  PROVE  RecvInv'
<1> SUFFICES ASSUME NEW f \in Recv
             PROVE  Alive(f)'
  BY DEF RecvInv
<1>1. Alive(f) /\ f.m \in Messages
  BY RecvMessage DEF RecvInv
<1> QED BY <1>1 DEF Alive, Reply, Present

-----------------------------------------------------------------------------
(* A thread sends and waits. *)

LEMMA CalmTop ==
  ASSUME Inv, CalmBody, NEW t \in Threads, NEW fn \in SendFns, At(t, fn)
  PROVE  /\ Top(t) \in Send(t) /\ Top(t).fn = fn /\ Top(t).m \in Messages
         /\ Owned(t, Top(t)) /\ Top(t).m \notin todo
         /\ \A u \in Threads \ {t} : \A g \in Send(u) : g.m # Top(t).m
<1>1. Top(t) \in Send(t) /\ Top(t).fn = fn /\ Top(t).m \in Messages
  BY Below DEF Inv, CalmBody
<1>2. Owned(t, Top(t)) /\ \A u \in Threads \ {t} : \A g \in Send(u) : g.m # Top(t).m
  BY <1>1, OthersDiffer DEF CalmBody, SendInv
<1> QED BY <1>1, <1>2 DEF Owned

LEMMA server_connectCalm ==
  ASSUME ~Glitches, Inv, Calm, CalmBody, NEW t \in Threads, server_connect(t)
  PROVE  CalmBody'
<1>0. PICK m, s : m = Top(t).m /\ s = to[m]
  OBVIOUS
<1>1. /\ TypeOK /\ "connect" \in SendFns /\ At(t, "connect") /\ m \in Messages /\ s \in Servers
      /\ Top(t) \in Send(t) /\ Owned(t, Top(t)) /\ Top(t).fn = "connect" /\ m \notin todo
      /\ \A u \in Threads \ {t} : \A g \in Send(u) : g.m # m
  BY <1>0, CalmTop, MessageType DEF SendFns, server_connect, Inv
<1>2. /\ Clients \in [Servers -> Messages \cup {None}] /\ conid \in [Messages -> Messages \cup {None}]
      /\ openIn \in [Messages -> Threads \cup {None}] /\ todo \subseteq Messages
      /\ Unserved(m) /\ Unused(m)
  BY <1>0, <1>1 DEF TypeOK, ClientType, ProgramType, Owned
<1>3. /\ Become(t, <<Call("register", m, "unset")>>)
      /\ UNCHANGED <<todo, Jobs, cond, finished, work, wire, sock, badfd>>
      /\ \/ /\ HasSocket(t, Clients[s])
            /\ conid' = [conid EXCEPT ![m] = Clients[s]]
            /\ UNCHANGED <<Clients, openIn>>
         \/ /\ conid' = [conid EXCEPT ![m] = m]
            /\ openIn' = [openIn EXCEPT ![m] = t]
            /\ Clients' = [Clients EXCEPT ![s] = m]
  BY <1>0 DEF server_connect, Calm, serverVars
<1>4. /\ ShapeInv' /\ Recv' = Recv /\ \A u \in Threads \ {t} : Send(u)' = Send(u)
      /\ Send(t)' = {Call("register", m, "unset")}
      /\ Call("register", m, "unset").fn = "register" /\ Call("register", m, "unset").m = m
  <2>1. Call("register", m, "unset") \in Frames /\ Call("register", m, "unset").fn \in SendFns
        /\ Call("register", m, "unset").fn = "register" /\ Call("register", m, "unset").m = m
    BY <1>1, CallType DEF Fns, States, SendFns
  <2> QED BY <1>1, <1>3, <2>1, SendGoes DEF CalmBody
<1>5. HasSocket(t, conid[m])'
  BY <1>1, <1>2, <1>3, MessageType DEF HasSocket
<1>6. \A g \in Send(t)' : g.m = m /\ Owned(t, g)'
  <2>1. Unserved(m)'
    BY <1>2, <1>3 DEF Unserved
  <2> QED BY <1>1, <1>3, <1>4, <1>5, <2>1 DEF Owned
<1>7. ASSUME NEW j \in Messages \ {m}
      PROVE  SendRelies(t, j)
  <2>1. Unserved(j) => Unserved(j)'
    BY <1>3 DEF Unserved
  <2>2. Unused(j) => Unused(j)'
    BY <1>1, <1>2, <1>3 DEF Unused
  <2>3. \A u \in Threads \ {t} : HasSocket(u, conid[j]) => HasSocket(u, conid[j])'
    BY <1>1, <1>2, <1>3 DEF HasSocket, Unused
  <2> QED BY <1>3, <2>1, <2>2, <2>3 DEF SendRelies
<1>8. SendInv'
  BY <1>1, <1>2, <1>3, <1>4, <1>6, <1>7, SendMoves DEF CalmBody
<1>9. ReplyInv'
  BY <1>3, ReplyKept DEF CalmBody
<1>10. RecvInv'
  <2>1. \A c \in Servers : Clients[c] # None => Clients'[c] # None
    BY <1>1, <1>2, <1>3, MessageType
  <2> QED BY <1>3, <1>4, <2>1, RecvKept DEF CalmBody, Present
<1> QED BY <1>4, <1>8, <1>9, <1>10 DEF CalmBody

LEMMA Job_registerCalm ==
  ASSUME Inv, Calm, CalmBody, NEW t \in Threads, Job_register(t)
  PROVE  CalmBody'
<1>0. PICK m : m = Top(t).m
  OBVIOUS
<1>1. /\ TypeOK /\ "register" \in SendFns /\ At(t, "register") /\ m \in Messages
      /\ Top(t) \in Send(t) /\ Owned(t, Top(t)) /\ Top(t).fn = "register" /\ m \notin todo
      /\ \A u \in Threads \ {t} : \A g \in Send(u) : g.m # m
  BY <1>0, CalmTop DEF SendFns, Job_register, Inv
<1>2. /\ Jobs \subseteq Messages /\ cond \in [Messages -> {"NULL", "0", "1"}] /\ todo \subseteq Messages
  BY <1>1 DEF TypeOK, JobType, ProgramType
<1>3. /\ Become(t, <<Call("send", m, "unset")>>)
      /\ UNCHANGED <<todo, finished, work, wire, sock, badfd, Clients, conid, openIn>>
      /\ Jobs' = Jobs \cup {m}
      /\ cond' = [cond EXCEPT ![m] = IF kind[m] = "wait" THEN "0" ELSE "NULL"]
  BY <1>0 DEF Job_register, serverVars, clientVars, programVars
<1>4. /\ ShapeInv' /\ Recv' = Recv /\ \A u \in Threads \ {t} : Send(u)' = Send(u)
      /\ Send(t)' = {Call("send", m, "unset")}
      /\ Call("send", m, "unset").fn = "send" /\ Call("send", m, "unset").m = m
  <2>1. Call("send", m, "unset") \in Frames /\ Call("send", m, "unset").fn \in SendFns
        /\ Call("send", m, "unset").fn = "send" /\ Call("send", m, "unset").m = m
    BY <1>1, CallType DEF Fns, States, SendFns
  <2> QED BY <1>1, <1>3, <2>1, SendGoes DEF CalmBody
<1>5. HasSocket(t, conid[m])' /\ Unserved(m)'
  BY <1>0, <1>1, <1>3 DEF HasSocket, Owned, Unserved
<1>6. \A g \in Send(t)' : g.m = m /\ Owned(t, g)'
  BY <1>1, <1>3, <1>4, <1>5 DEF Owned
<1>7. ASSUME NEW j \in Messages \ {m}
      PROVE  SendRelies(t, j)
  BY <1>2, <1>3 DEF SendRelies, Unserved, Unused, HasSocket
<1>8. SendInv'
  BY <1>1, <1>2, <1>3, <1>4, <1>6, <1>7, SendMoves DEF CalmBody
<1>9. ReplyInv'
  <2>1. \A j \in Messages : kind[j] = "wait" /\ cond'[j] = "1" => cond[j] = "1"
    BY <1>2, <1>3
  <2> QED BY <1>3, <2>1, ReplyKept DEF CalmBody
<1>10. RecvInv'
  <2>1. \A j \in Messages : Present(j) => Present(j)'
    BY <1>2, <1>3 DEF Present
  <2> QED BY <1>3, <1>4, <2>1, RecvKept DEF CalmBody
<1> QED BY <1>4, <1>8, <1>9, <1>10 DEF CalmBody

LEMMA SendArgCalm ==
  ASSUME Inv, Calm, Calm', CalmBody, NEW t \in Threads, SendArg(t)
  PROVE  CalmBody'
<1>0. PICK m, s : m = Top(t).m /\ s = to[m]
  OBVIOUS
<1>1. /\ TypeOK /\ "send" \in SendFns /\ At(t, "send") /\ m \in Messages /\ s \in Servers
      /\ Top(t) \in Send(t) /\ Owned(t, Top(t)) /\ Top(t).fn = "send" /\ m \notin todo
      /\ \A u \in Threads \ {t} : \A g \in Send(u) : g.m # m
  BY <1>0, CalmTop, MessageType DEF SendFns, SendArg, Inv
<1>2. /\ work \in [Servers -> SUBSET Messages] /\ todo \subseteq Messages
      /\ HasSocket(t, conid[m]) /\ Unserved(m)
  BY <1>0, <1>1 DEF TypeOK, ServerType, ProgramType, Owned
<1>3. /\ Become(t, <<Call("answer", m, "unset")>>)
      /\ UNCHANGED <<todo, Jobs, cond, finished, wire, sock, badfd, Clients, conid, openIn>>
      /\ kind[m] # "stop" /\ work' = [work EXCEPT ![s] = @ \cup {m}]
  BY <1>0, <1>2 DEF SendArg, Calm, clientVars, jobVars, programVars
<1>4. /\ ShapeInv' /\ Recv' = Recv /\ \A u \in Threads \ {t} : Send(u)' = Send(u)
      /\ Send(t)' = {Call("answer", m, "unset")}
      /\ Call("answer", m, "unset").fn = "answer" /\ Call("answer", m, "unset").m = m
  <2>1. Call("answer", m, "unset") \in Frames /\ Call("answer", m, "unset").fn \in SendFns
        /\ Call("answer", m, "unset").fn = "answer" /\ Call("answer", m, "unset").m = m
    BY <1>1, CallType DEF Fns, States, SendFns
  <2> QED BY <1>1, <1>3, <2>1, SendGoes DEF CalmBody
<1>5. \A g \in Send(t)' : g.m = m /\ Owned(t, g)'
  BY <1>1, <1>3, <1>4 DEF Owned
<1>6. ASSUME NEW j \in Messages \ {m}
      PROVE  SendRelies(t, j)
  <2>1. Unserved(j) => Unserved(j)'
    BY <1>1, <1>2, <1>3 DEF Unserved
  <2> QED BY <1>3, <2>1 DEF SendRelies, Unused, HasSocket
<1>7. SendInv'
  BY <1>1, <1>2, <1>3, <1>4, <1>5, <1>6, SendMoves DEF CalmBody
<1>8. ReplyInv'
  <2>1. \A u \in Servers : \A j \in work'[u] : u = to[j] /\ j \notin finished'
    BY <1>0, <1>1, <1>2, <1>3 DEF CalmBody, ReplyInv, Unserved
  <2> QED BY <1>3, <2>1 DEF CalmBody, ReplyInv, Reply
<1>9. RecvInv'
  BY <1>3, <1>4, RecvKept DEF CalmBody, Present
<1> QED BY <1>4, <1>7, <1>8, <1>9 DEF CalmBody

LEMMA GetAnswerInfoTSCalm ==
  ASSUME ~Glitches, Inv, Calm, CalmBody, NEW t \in Threads, GetAnswerInfoTS(t)
  PROVE  CalmBody'
<1>0. PICK m : m = Top(t).m
  OBVIOUS
<1>1. /\ TypeOK /\ "answer" \in SendFns /\ At(t, "answer") /\ m \in Messages
      /\ Top(t) \in Send(t) /\ Owned(t, Top(t)) /\ Top(t).fn = "answer" /\ m \notin todo
      /\ \A u \in Threads \ {t} : \A g \in Send(u) : g.m # m
  BY <1>0, CalmTop DEF SendFns, GetAnswerInfoTS, Inv
<1>2. todo \subseteq Messages /\ kind[m] # "stop"
  BY <1>0, <1>1 DEF TypeOK, ProgramType, Owned
<1>3. /\ Become(t, AfterSend(m))
      /\ UNCHANGED <<todo, Jobs, cond, finished, work, wire, sock, badfd, Clients, conid, openIn>>
  BY <1>0, <1>2 DEF GetAnswerInfoTS, Calm, clientVars, jobVars, programVars, serverVars
<1>4. /\ ShapeInv' /\ Recv' = Recv /\ \A u \in Threads \ {t} : Send(u)' = Send(u)
      /\ \A g \in Send(t)' : g.fn = "wait" /\ g.m = m /\ kind[m] = "wait"
  <2>1. CASE kind[m] = "wait"
    <3>1. Call("wait", m, "unset") \in Frames /\ Call("wait", m, "unset").fn \in SendFns
          /\ Call("wait", m, "unset").fn = "wait" /\ Call("wait", m, "unset").m = m
      BY <1>1, CallType DEF Fns, States, SendFns
    <3>2. Become(t, <<Call("wait", m, "unset")>>)
      BY <1>3, <2>1 DEF AfterSend
    <3> QED BY <1>1, <1>3, <2>1, <3>1, <3>2, SendGoes DEF CalmBody
  <2>2. CASE kind[m] # "wait"
    <3>1. Become(t, <<>>)
      BY <1>3, <2>2 DEF AfterSend
    <3> QED BY <1>1, <1>3, <3>1, SendReturns DEF CalmBody
  <2> QED BY <2>1, <2>2
<1>5. \A g \in Send(t)' : g.m = m /\ Owned(t, g)'
  BY <1>1, <1>3, <1>4 DEF Owned
<1>6. \A j \in Messages \ {m} : SendRelies(t, j)
  BY <1>3 DEF SendRelies, Unserved, Unused, HasSocket
<1>7. SendInv'
  BY <1>1, <1>2, <1>3, <1>4, <1>5, <1>6, SendMoves DEF CalmBody
<1>8. ReplyInv'
  BY <1>3, ReplyKept DEF CalmBody
<1>9. RecvInv'
  BY <1>3, <1>4, RecvKept DEF CalmBody, Present
<1> QED BY <1>4, <1>7, <1>8, <1>9 DEF CalmBody

(* A thread that waits takes its job from the list once it was told. *)
LEMMA WaitEnds ==
  ASSUME Inv, CalmBody, NEW t \in Threads, NEW fn \in {"wait", "asleep"}, At(t, fn),
         Become(t, <<>>), UNCHANGED <<todo, finished, work, wire, sock, badfd, Clients, conid, openIn>>,
         \/ UNCHANGED <<Jobs, cond>>
         \/ /\ cond[Top(t).m] = "1" /\ Jobs' = Jobs \ {Top(t).m}
            /\ cond' = [cond EXCEPT ![Top(t).m] = "NULL"]
         \/ UNCHANGED Jobs /\ cond' = [cond EXCEPT ![Top(t).m] = "NULL"]
  PROVE  CalmBody'
<1>0. PICK m : m = Top(t).m
  OBVIOUS
<1>1. /\ TypeOK /\ fn \in SendFns /\ m \in Messages
      /\ Top(t) \in Send(t) /\ Owned(t, Top(t)) /\ Top(t).fn = fn /\ m \notin todo
      /\ \A u \in Threads \ {t} : \A g \in Send(u) : g.m # m
  BY <1>0, CalmTop DEF SendFns, Inv
<1>2. /\ Jobs \subseteq Messages /\ cond \in [Messages -> {"NULL", "0", "1"}] /\ todo \subseteq Messages
      /\ kind[m] = "wait"
  BY <1>0, <1>1 DEF TypeOK, JobType, ProgramType, Owned
<1>3. /\ ShapeInv' /\ Recv' = Recv /\ \A u \in Threads \ {t} : Send(u)' = Send(u)
      /\ Send(t)' = {}
  BY <1>1, SendReturns DEF CalmBody
<1>4. ASSUME NEW j \in Messages \ {m}
      PROVE  SendRelies(t, j)
  BY <1>0, <1>2 DEF SendRelies, Unserved, Unused, HasSocket
<1>5. SendInv'
  BY <1>1, <1>2, <1>3, <1>4, SendMoves DEF CalmBody
<1>6. ReplyInv'
  <2>1. \A j \in Messages : kind[j] = "wait" /\ cond'[j] = "1" => cond[j] = "1"
    BY <1>0, <1>2
  <2> QED BY <2>1, ReplyKept DEF CalmBody
<1>7. RecvInv'
  <2>1. \A j \in Messages : Present(j) => Present(j)'
    BY <1>0, <1>2 DEF Present
  <2> QED BY <1>3, <2>1, RecvKept DEF CalmBody
<1> QED BY <1>3, <1>5, <1>6, <1>7 DEF CalmBody

LEMMA ServerWaitCalm ==
  ASSUME Inv, Calm, CalmBody, NEW t \in Threads, ServerWait(t)
  PROVE  CalmBody'
<1>0. PICK m : m = Top(t).m
  OBVIOUS
<1>1. /\ TypeOK /\ "wait" \in SendFns /\ At(t, "wait") /\ m \in Messages
      /\ Top(t) \in Send(t) /\ Owned(t, Top(t)) /\ Top(t).fn = "wait" /\ m \notin todo
      /\ \A u \in Threads \ {t} : \A g \in Send(u) : g.m # m
  BY <1>0, CalmTop DEF SendFns, ServerWait, Inv
<1>2. todo \subseteq Messages /\ kind[m] = "wait"
  BY <1>0, <1>1 DEF TypeOK, ProgramType, Owned
<1>3. UNCHANGED <<todo, finished, work, wire, sock, badfd, Clients, conid, openIn>>
  BY DEF ServerWait, clientVars, programVars, serverVars
<1>4. CASE /\ m \in Jobs /\ cond[m] = "0"
           /\ Become(t, <<Call("asleep", m, "unset")>>)
           /\ UNCHANGED <<Jobs, cond, freed>>
  <2>1. /\ ShapeInv' /\ Recv' = Recv /\ \A u \in Threads \ {t} : Send(u)' = Send(u)
        /\ \A g \in Send(t)' : g.fn = "asleep" /\ g.m = m
    <3>1. Call("asleep", m, "unset") \in Frames /\ Call("asleep", m, "unset").fn \in SendFns
          /\ Call("asleep", m, "unset").fn = "asleep" /\ Call("asleep", m, "unset").m = m
      BY <1>1, CallType DEF Fns, States, SendFns
    <3> QED BY <1>1, <1>3, <1>4, <3>1, SendGoes DEF CalmBody
  <2>2. \A g \in Send(t)' : g.m = m /\ Owned(t, g)'
    BY <1>1, <1>2, <1>3, <1>4, <2>1 DEF Owned
  <2>3. \A j \in Messages \ {m} : SendRelies(t, j)
    BY <1>3, <1>4 DEF SendRelies, Unserved, Unused, HasSocket
  <2>4. SendInv'
    BY <1>1, <1>2, <1>3, <2>1, <2>2, <2>3, SendMoves DEF CalmBody
  <2>5. ReplyInv'
    BY <1>3, <1>4, ReplyKept DEF CalmBody
  <2>6. RecvInv'
    BY <1>3, <1>4, <2>1, RecvKept DEF CalmBody, Present
  <2> QED BY <2>1, <2>4, <2>5, <2>6 DEF CalmBody
<1>5. CASE Become(t, <<>>) /\ UNCHANGED <<Jobs, cond>>
  BY <1>1, <1>3, <1>5, WaitEnds
<1>6. CASE /\ Become(t, <<>>) /\ cond[m] = "1" /\ Jobs' = Jobs \ {m}
           /\ cond' = [cond EXCEPT ![m] = "NULL"]
  BY <1>0, <1>1, <1>3, <1>6, WaitEnds
<1> QED BY <1>0, <1>4, <1>5, <1>6 DEF ServerWait

LEMMA WakesCalm ==
  ASSUME Inv, CalmBody, NEW t \in Threads, Job_wait_and_pop_locked(t) \/ Job_abandon_locked(t)
  PROVE  CalmBody'
<1>1. /\ UNCHANGED <<todo, finished, work, wire, sock, badfd, Clients, conid, openIn>>
      /\ At(t, "asleep") /\ Become(t, <<>>)
      /\ \/ /\ cond[Top(t).m] = "1" /\ Jobs' = Jobs \ {Top(t).m}
            /\ cond' = [cond EXCEPT ![Top(t).m] = "NULL"]
         \/ UNCHANGED Jobs /\ cond' = [cond EXCEPT ![Top(t).m] = "NULL"]
  BY DEF Job_wait_and_pop_locked, Job_abandon_locked, clientVars, programVars, serverVars
<1> QED BY <1>1, WaitEnds

(* A message is taken up. *)
LEMMA ServerSendMessageCalm ==
  ASSUME Inv, CalmBody, NEW t \in Senders, NEW m \in Messages, ServerSendMessage(t, m)
  PROVE  CalmBody'
<1>1. /\ TypeOK /\ t \in Threads /\ t # receiver /\ m \in todo /\ stack[t] = <<>> /\ todo \subseteq Messages
      /\ stack' = [stack EXCEPT ![t] = <<Call("connect", m, "unset")>>] /\ todo' = todo \ {m}
      /\ UNCHANGED <<Jobs, cond, finished, work, wire, sock, badfd, Clients, conid, openIn>>
  BY MessageType DEF ServerSendMessage, Inv, TypeOK, ProgramType, Threads, jobVars, clientVars,
                     serverVars
<1>2. PICK g \in Frames : g = Call("connect", m, "unset") /\ g.fn = "connect" /\ g.m = m
  BY CallType DEF Fns, States
<1>3. /\ ShapeInv' /\ Recv' = Recv /\ \A u \in Threads \ {t} : Send(u)' = Send(u)
      /\ Send(t)' = {g}
  <2>1. SenderShape(<<g>>) /\ g.fn \in SendFns
    BY <1>2, ShortStacks DEF SenderShape, SendFns
  <2>2. /\ ShapeInv' /\ \A u \in Threads \ {t} : Send(u)' = Send(u)
        /\ Send(t)' = {f \in Frames : <<g>> # <<>> /\ f = <<g>>[1] /\ f.fn \in SendFns}
        /\ Recv' = Recv
    BY <1>1, <1>2, <2>1, ShortStacks, OneStack DEF CalmBody
  <2> QED BY <2>1, <2>2, ShortStacks
<1>4. \A u \in Threads \ {t} : \A f \in Send(u) : f.m # m
  BY <1>1 DEF CalmBody, SendInv, Owned
<1>5. \A f \in Send(t)' : f.m = m /\ Owned(t, f)'
  <2>1. Unserved(m)' /\ Unused(m)'
    BY <1>1 DEF CalmBody, SendInv, Unserved, Unused
  <2> QED BY <1>1, <1>2, <1>3, <2>1 DEF Owned
<1>6. \A j \in Messages \ {m} : SendRelies(t, j)
  BY <1>1 DEF SendRelies, Unserved, Unused, HasSocket
<1>7. SendInv'
  BY <1>1, <1>3, <1>4, <1>5, <1>6, SendMoves DEF CalmBody
<1>8. ReplyInv'
  BY <1>1, ReplyKept DEF CalmBody
<1>9. RecvInv'
  BY <1>1, <1>3, RecvKept DEF CalmBody, Present
<1> QED BY <1>3, <1>7, <1>8, <1>9 DEF CalmBody

-----------------------------------------------------------------------------
(* The receiver. *)

(* The stack of the receiver is made anew. *)
LEMMA ReceiverStack ==
  ASSUME TypeOK, ShapeInv, badfd' = badfd
  PROVE  /\ stack' = [stack EXCEPT ![receiver] = <<>>] =>
              /\ ShapeInv' /\ \A u \in Threads \ {receiver} : Send(u)' = Send(u)
              /\ Send(receiver)' = {} /\ Recv' = {}
         /\ \A g \in Frames : stack' = [stack EXCEPT ![receiver] = <<g>>] =>
              /\ g.fn \in SendFns =>
                   /\ ShapeInv' /\ \A u \in Threads \ {receiver} : Send(u)' = Send(u)
                   /\ Send(receiver)' = {g} /\ Recv' = {}
              /\ g.fn \in RecvFns =>
                   /\ ShapeInv' /\ \A u \in Threads \ {receiver} : Send(u)' = Send(u)
                   /\ Send(receiver)' = {} /\ Recv' = {g}
         /\ \A g, h \in Frames :
              stack' = [stack EXCEPT ![receiver] = <<g, h>>] /\ g.fn \in SendFns /\ h.fn = "finish" =>
              /\ ShapeInv' /\ \A u \in Threads \ {receiver} : Send(u)' = Send(u)
              /\ Send(receiver)' = {g} /\ Recv' = {h}
<1>0. receiver \in Threads
  BY DEF Threads
<1>1. ASSUME stack' = [stack EXCEPT ![receiver] = <<>>]
      PROVE  /\ ShapeInv' /\ \A u \in Threads \ {receiver} : Send(u)' = Send(u)
             /\ Send(receiver)' = {} /\ Recv' = {}
  <2>1. ReceiverShape(<<>>) /\ <<>> \in Seq(Frames)
    BY EmptySeq DEF ReceiverShape
  <2> QED BY <1>0, <1>1, <2>1, OneStack
<1>2. ASSUME NEW g \in Frames, stack' = [stack EXCEPT ![receiver] = <<g>>],
             g.fn \in SendFns \cup RecvFns
      PROVE  /\ ShapeInv' /\ \A u \in Threads \ {receiver} : Send(u)' = Send(u)
             /\ Send(receiver)' = {f \in Frames : f = g /\ f.fn \in SendFns}
             /\ Recv' = {f \in Frames : f = g /\ f.fn \in RecvFns}
  <2>1. ReceiverShape(<<g>>)
    BY <1>2, ShortStacks DEF ReceiverShape
  <2>2. /\ ShapeInv' /\ \A u \in Threads \ {receiver} : Send(u)' = Send(u)
        /\ Send(receiver)' = {f \in Frames : <<g>> # <<>> /\ f = <<g>>[1] /\ f.fn \in SendFns}
        /\ Recv' = {f \in Frames : <<g>> # <<>> /\ f = <<g>>[Len(<<g>>)] /\ f.fn \in RecvFns}
    BY <1>0, <1>2, <2>1, ShortStacks, OneStack
  <2> QED BY <2>2, ShortStacks
<1>3. ASSUME NEW g \in Frames, NEW h \in Frames,
             stack' = [stack EXCEPT ![receiver] = <<g, h>>], g.fn \in SendFns, h.fn = "finish"
      PROVE  /\ ShapeInv' /\ \A u \in Threads \ {receiver} : Send(u)' = Send(u)
             /\ Send(receiver)' = {g} /\ Recv' = {h}
  <2>1. ReceiverShape(<<g, h>>) /\ h.fn \in RecvFns
    BY <1>3, ShortStacks DEF ReceiverShape, RecvFns
  <2>2. /\ ShapeInv' /\ \A u \in Threads \ {receiver} : Send(u)' = Send(u)
        /\ Send(receiver)' = {f \in Frames : <<g, h>> # <<>> /\ f = <<g, h>>[1] /\ f.fn \in SendFns}
        /\ Recv' = {f \in Frames : <<g, h>> # <<>> /\ f = <<g, h>>[Len(<<g, h>>)] /\ f.fn \in RecvFns}
    BY <1>0, <1>3, <2>1, ShortStacks, OneStack
  <2> QED BY <1>3, <2>1, <2>2, ShortStacks
<1>4. \A g \in Frames : stack' = [stack EXCEPT ![receiver] = <<g>>] =>
        /\ g.fn \in SendFns =>
             /\ ShapeInv' /\ \A u \in Threads \ {receiver} : Send(u)' = Send(u)
             /\ Send(receiver)' = {g} /\ Recv' = {}
        /\ g.fn \in RecvFns =>
             /\ ShapeInv' /\ \A u \in Threads \ {receiver} : Send(u)' = Send(u)
             /\ Send(receiver)' = {} /\ Recv' = {g}
  BY <1>2, FnsDiffer
<1> QED BY <1>1, <1>3, <1>4

(* The receiver has a frame of its own on top. *)
LEMMA ReceiverTop ==
  ASSUME Inv, CalmBody, NEW t \in Threads, NEW fn \in RecvFns, At(t, fn)
  PROVE  /\ t = receiver /\ Top(t) \in Recv /\ Recv = {Top(t)} /\ Send(t) = {}
         /\ Alive(Top(t)) /\ Top(t).fn = fn /\ Top(t) \in Frames /\ Top(t).m \in Messages
         /\ \A fs : Become(t, fs) /\ fs \in Seq(Frames) => stack' = [stack EXCEPT ![receiver] = fs]
<1>1. /\ t = receiver /\ Recv = {Top(t)} /\ Send(t) = {} /\ Top(t).fn = fn /\ Top(t) \in Frames
      /\ Top(t).m \in Messages /\ Tail(stack[t]) = <<>> /\ stack \in [Threads -> Seq(Frames)]
  BY Below, FnsDiffer DEF Inv, CalmBody, TypeOK, StackType
<1>2. Alive(Top(t))
  BY <1>1 DEF CalmBody, RecvInv
<1>3. ASSUME NEW fs \in Seq(Frames), Become(t, fs)
      PROVE  stack' = [stack EXCEPT ![receiver] = fs]
  <2>1. fs \o <<>> = fs
    BY ConcatEmptySeq
  <2> QED BY <1>1, <1>3, <2>1 DEF Become
<1> QED BY <1>1, <1>2, <1>3

(* The same threads send. *)
LEMMA SendsKept ==
  ASSUME CalmBody, todo' = todo, todo \subseteq Messages, \A u \in Threads : Send(u)' = Send(u),
         UNCHANGED <<finished, work, Clients, conid, openIn>>,
         \A j \in Messages : j \in Jobs /\ cond[j] # "NULL" => j \in Jobs' /\ cond'[j] # "NULL"
  PROVE  SendInv'
<1>1. \A j \in Messages : SendRelies(None, j)
  BY DEF SendRelies, Unserved, Unused, HasSocket
<1> QED BY <1>1, SendSame DEF CalmBody

(***************************************************************************)
(* A job is called back: the callback may send a message that nobody has    *)
(* taken yet, and the job stays with the receiver until the end.            *)
(***************************************************************************)
LEMMA Job_callback_doneCalm ==
  ASSUME Inv, CalmBody, NEW t \in Threads, Job_callback_done(t)
  PROVE  CalmBody'
<1>0. PICK m, n : m = Top(t).m /\ n = next[m]
  OBVIOUS
<1>1. /\ "callback" \in RecvFns /\ At(t, "callback")
      /\ t = receiver /\ Top(t) \in Recv /\ Recv = {Top(t)} /\ Send(receiver) = {}
      /\ Alive(Top(t)) /\ Top(t).fn = "callback" /\ m \in Messages
      /\ \A fs : Become(t, fs) /\ fs \in Seq(Frames) => stack' = [stack EXCEPT ![receiver] = fs]
  BY <1>0, ReceiverTop DEF Job_callback_done, RecvFns
<1>2. /\ TypeOK /\ todo \subseteq Messages
      /\ UNCHANGED <<Jobs, cond, finished, work, wire, sock, badfd, Clients, conid, openIn>>
  BY DEF Job_callback_done, Inv, TypeOK, ProgramType, clientVars, serverVars
<1>3. PICK h \in Frames : h = Call("finish", m, "unset") /\ h.fn = "finish" /\ h.m = m
  BY <1>1, CallType DEF Fns, States
<1>4. /\ Alive(h)'
      /\ h.fn \in RecvFns
  BY <1>0, <1>1, <1>2, <1>3 DEF Alive, Reply, RecvFns
<1>5. ReplyInv'
  BY <1>2, ReplyKept DEF CalmBody
<1>6. CASE todo' = todo /\ (Become(t, <<>>) \/ Become(t, <<h>>))
  <2>1. /\ ShapeInv' /\ \A u \in Threads : Send(u)' = Send(u)
        /\ Recv' \subseteq {h}
    <3>1. CASE Become(t, <<>>)
      <4>1. stack' = [stack EXCEPT ![receiver] = <<>>]
        BY <1>1, <3>1, EmptySeq
      <4> QED BY <1>1, <1>2, <4>1, ReceiverStack DEF CalmBody
    <3>2. CASE Become(t, <<h>>)
      <4>1. stack' = [stack EXCEPT ![receiver] = <<h>>]
        BY <1>1, <3>2, ShortStacks
      <4> QED BY <1>1, <1>2, <1>4, <4>1, ReceiverStack DEF CalmBody
    <3> QED BY <1>6, <3>1, <3>2
  <2>2. SendInv'
    BY <1>2, <1>6, <2>1, SendsKept
  <2>3. RecvInv'
    BY <1>4, <2>1 DEF RecvInv
  <2> QED BY <1>5, <2>1, <2>2, <2>3 DEF CalmBody
<1>7. ASSUME n \in todo, todo' = todo \ {n},
             \/ Become(t, <<Call("connect", n, "unset")>>)
             \/ Become(t, <<Call("connect", n, "unset"), h>>)
      PROVE  CalmBody'
  <2>1. PICK g \in Frames : g = Call("connect", n, "unset") /\ g.fn = "connect" /\ g.m = n
    BY <1>2, <1>7, CallType DEF Fns, States
  <2>2. n \in Messages /\ g.fn \in SendFns
    BY <1>2, <1>7, <2>1 DEF SendFns
  <2>3. /\ ShapeInv' /\ \A u \in Threads \ {receiver} : Send(u)' = Send(u)
        /\ Send(receiver)' = {g} /\ Recv' \subseteq {h}
    <3>1. CASE Become(t, <<g>>)
      <4>1. stack' = [stack EXCEPT ![receiver] = <<g>>]
        BY <1>1, <3>1, ShortStacks
      <4> QED BY <1>1, <1>2, <2>2, <4>1, ReceiverStack DEF CalmBody
    <3>2. CASE Become(t, <<g, h>>)
      <4>1. stack' = [stack EXCEPT ![receiver] = <<g, h>>]
        BY <1>1, <3>2, ShortStacks
      <4> QED BY <1>1, <1>2, <1>3, <2>2, <4>1, ReceiverStack DEF CalmBody
    <3> QED BY <1>7, <2>1, <3>1, <3>2
  <2>4. \A f \in Send(receiver)' : f.m = n /\ Owned(receiver, f)'
    <3>1. Unserved(n)' /\ Unused(n)'
      BY <1>2, <1>7 DEF CalmBody, SendInv, Unserved, Unused
    <3> QED BY <1>7, <2>1, <2>3, <3>1 DEF Owned
  <2>5. \A u \in Threads \ {receiver} : \A f \in Send(u) : f.m # n
    BY <1>7 DEF CalmBody, SendInv, Owned
  <2>6. \A j \in Messages \ {n} : SendRelies(receiver, j)
    BY <1>2 DEF SendRelies, Unserved, Unused, HasSocket
  <2>7. SendInv'
    BY <1>1, <1>2, <1>7, <2>2, <2>3, <2>4, <2>5, <2>6, SendMoves DEF CalmBody
  <2>8. RecvInv'
    BY <1>4, <2>3 DEF RecvInv
  <2> QED BY <1>5, <2>3, <2>7, <2>8 DEF CalmBody
<1>8. \/ todo' = todo /\ (Become(t, <<>>) \/ Become(t, <<h>>))
      \/ /\ n \in todo /\ todo' = todo \ {n}
         /\ \/ Become(t, <<Call("connect", n, "unset")>>)
            \/ Become(t, <<Call("connect", n, "unset"), h>>)
  <2> DEFINE sends == IF m \in armed THEN CallbackSends(m) ELSE <<>>
             rest == IF Top(t).rm /\ m # MonJob THEN <<h>> ELSE <<>>
             g == Call("connect", n, "unset")
  <2>1. Become(t, sends \o rest) /\ (IF m \in armed THEN CallbackTakes(m) ELSE UNCHANGED todo)
    BY <1>0, <1>3 DEF Job_callback_done
  <2>2. rest = <<>> \/ rest = <<h>>
    OBVIOUS
  <2>3. \/ sends = <<>> /\ todo' = todo
        \/ sends = <<g>> /\ n \in todo /\ todo' = todo \ {n}
    BY <1>0, <2>1 DEF CallbackSends, CallbackTakes
  <2> HIDE DEF sends, rest
  <2>4. CASE sends = <<>>
    <3>1. sends \o rest = rest
      BY <2>2, <2>4, ShortStacks, ConcatEmptySeq
    <3>2. sends # <<g>>
      BY <2>4
    <3> QED BY <2>1, <2>2, <2>3, <3>1, <3>2
  <2>5. CASE sends = <<g>> /\ n \in todo
    <3>1. g \in Frames
      BY <1>2, <2>5, CallType DEF Fns, States
    <3>2. <<g>> \o <<>> = <<g>> /\ <<g>> \o <<h>> = <<g, h>>
      BY <3>1, ShortStacks, ConcatEmptySeq, TwoFrames
    <3>3. sends # <<>>
      BY <2>5
    <3> QED BY <2>1, <2>2, <2>3, <2>5, <3>2, <3>3
  <2> QED BY <2>3, <2>4, <2>5
<1> QED BY <1>6, <1>7, <1>8

(* The receiver is done with a job: a thread that waits is told, any other job *)
(* is freed.                                                                   *)
LEMMA Job_finishCalm ==
  ASSUME Inv, CalmBody, NEW t \in Threads, Job_finish(t)
  PROVE  CalmBody'
<1>0. PICK m : m = Top(t).m
  OBVIOUS
<1>1. /\ "finish" \in RecvFns /\ At(t, "finish") /\ Become(t, <<>>)
      /\ t = receiver /\ Recv = {Top(t)} /\ Send(receiver) = {}
      /\ Alive(Top(t)) /\ Top(t).fn = "finish" /\ m \in Messages
      /\ \A fs : Become(t, fs) /\ fs \in Seq(Frames) => stack' = [stack EXCEPT ![receiver] = fs]
  BY <1>0, ReceiverTop DEF Job_finish, RecvFns
<1>2. /\ TypeOK /\ todo \subseteq Messages /\ Jobs \subseteq Messages
      /\ cond \in [Messages -> {"NULL", "0", "1"}]
      /\ UNCHANGED <<todo, finished, work, wire, sock, badfd, Clients, conid, openIn>>
  BY DEF Job_finish, Inv, TypeOK, ProgramType, JobType, programVars, clientVars, serverVars
<1>3. \/ cond[m] # "NULL" /\ cond' = [cond EXCEPT ![m] = "1"] /\ Jobs' = Jobs
      \/ cond[m] = "NULL" /\ cond' = cond /\ Jobs' = Jobs \ {m}
  BY <1>0 DEF Job_finish
<1>4. /\ ShapeInv' /\ \A u \in Threads : Send(u)' = Send(u)
      /\ Recv' = {}
  <2>1. stack' = [stack EXCEPT ![receiver] = <<>>]
    BY <1>1, EmptySeq
  <2> QED BY <1>1, <1>2, <2>1, ReceiverStack DEF CalmBody
<1>5. SendInv'
  <2>1. \A j \in Messages : j \in Jobs /\ cond[j] # "NULL" => j \in Jobs' /\ cond'[j] # "NULL"
    BY <1>2, <1>3
  <2> QED BY <1>2, <1>4, <2>1, SendsKept
<1>6. ReplyInv'
  <2>1. kind[m] = "wait" => /\ m \in finished
                            /\ \A s \in Servers : \A i \in DOMAIN wire[s] : ~Reply(s, i, m)
    BY <1>0, <1>1 DEF Alive
  <2>2. \A j \in Messages \ {m} : cond'[j] = cond[j]
    BY <1>1, <1>2, <1>3
  <2>3. ASSUME NEW j \in Messages, kind[j] = "wait"
        PROVE  /\ cond'[j] = "1" => j \in finished
               /\ \A s \in Servers : \A i, k \in DOMAIN wire[s] :
                    Reply(s, i, j) => /\ s = to[j] /\ j \in finished /\ cond'[j] # "1"
                                      /\ Reply(s, k, j) => i = k
    BY <2>1, <2>2, <2>3 DEF CalmBody, ReplyInv
  <2> QED BY <1>2, <2>3 DEF CalmBody, ReplyInv, Reply
<1>7. RecvInv'
  BY <1>4 DEF RecvInv
<1> QED BY <1>4, <1>5, <1>6, <1>7 DEF CalmBody

LEMMA Job_callback_beforeCalm ==
  ASSUME Inv, CalmBody, Job_callback_before
  PROVE  CalmBody'
<1>1. receiver \in Threads /\ "before" \in RecvFns /\ At(receiver, "before") /\ Become(receiver, <<>>)
  BY DEF Job_callback_before, Threads, RecvFns
<1>2. /\ TypeOK /\ todo \subseteq Messages
      /\ UNCHANGED <<todo, Jobs, cond, finished, work, wire, sock, badfd, Clients, conid, openIn>>
  BY DEF Job_callback_before, Inv, TypeOK, ProgramType, programVars, clientVars, serverVars, jobVars
<1>3. /\ ShapeInv' /\ \A u \in Threads : Send(u)' = Send(u)
      /\ Recv' = {}
  <2>1. Send(receiver) = {} /\ stack' = [stack EXCEPT ![receiver] = <<>>]
    BY <1>1, ReceiverTop, EmptySeq
  <2> QED BY <1>1, <1>2, <2>1, ReceiverStack DEF CalmBody
<1>4. SendInv' /\ ReplyInv' /\ RecvInv'
  BY <1>2, <1>3, SendsKept, ReplyKept DEF CalmBody, RecvInv
<1> QED BY <1>3, <1>4 DEF CalmBody

(* A reply is only looked up once it is off the wire. *)
LEMMA DeliverCalm ==
  ASSUME Inv, ReplyInv,
         NEW s \in Servers, wire[s] # <<>>, wire' = [wire EXCEPT ![s] = Tail(@)],
         UNCHANGED <<finished, work, cond, Jobs>>
  PROVE  /\ ReplyInv'
         /\ \/ Deliver(Head(wire[s])) = <<>>
            \/ \E g \in Frames : /\ Deliver(Head(wire[s])) = <<g>> /\ g.fn \in {"before", "callback"}
                                 /\ Alive(g)'
<1> DEFINE w == Head(wire[s])
<1>1. /\ wire \in [Servers -> Seq(Msgs)] /\ wire[s] \in Seq(Msgs) /\ MonJob \in Messages \cup {None}
      /\ Jobs \subseteq Messages
  BY DEF Inv, TypeOK, ServerType, JobType
<1>2. /\ w = wire[s][1] /\ 1 \in DOMAIN wire[s] /\ w \in Msgs
      /\ \A i \in DOMAIN Tail(wire[s]) : /\ i \in Nat /\ i > 0 /\ i + 1 \in DOMAIN wire[s]
                                         /\ Tail(wire[s])[i] = wire[s][i + 1]
  <2>1. DOMAIN wire[s] = 1 .. Len(wire[s]) /\ Len(wire[s]) \in Nat \ {0} /\ w \in Msgs /\ w = wire[s][1]
    BY <1>1, LenProperties, EmptySeq, HeadTailProperties
  <2>2. /\ DOMAIN Tail(wire[s]) = 1 .. Len(wire[s]) - 1
        /\ \A i \in 1 .. Len(wire[s]) - 1 : Tail(wire[s])[i] = wire[s][i + 1]
    BY <1>1, HeadTailProperties, LenProperties
  <2> QED BY <2>1, <2>2
<1>3. wire'[s] = Tail(wire[s]) /\ \A u \in Servers \ {s} : wire'[u] = wire[u]
  BY <1>1
<1>4. ASSUME NEW u \in Servers, NEW i \in DOMAIN wire'[u]
      PROVE  \E k \in DOMAIN wire[u] : /\ wire'[u][i] = wire[u][k]
                                       /\ k = (IF u = s THEN i + 1 ELSE i)
  BY <1>2, <1>3, <1>4
<1>5. (* What is left on the wire was there before. *)
      ASSUME NEW m \in Messages, NEW u \in Servers, NEW i \in DOMAIN wire'[u], Reply(u, i, m)'
      PROVE  /\ \E k \in DOMAIN wire[u] : Reply(u, k, m) /\ k = (IF u = s THEN i + 1 ELSE i)
  BY <1>4, <1>5 DEF Reply
<1>6. ReplyInv'
  <2>1. ASSUME NEW u \in Servers, NEW i \in DOMAIN wire'[u], wire'[u][i].type = "STARTING"
        PROVE  kind[wire'[u][i].m] # "wait"
    BY <1>4, <2>1 DEF ReplyInv
  <2>2. ASSUME NEW m \in Messages, kind[m] = "wait",
               NEW u \in Servers, NEW i \in DOMAIN wire'[u], NEW j \in DOMAIN wire'[u], Reply(u, i, m)'
        PROVE  /\ u = to[m] /\ m \in finished /\ cond[m] # "1"
               /\ Reply(u, j, m)' => i = j
    <3>1. PICK k \in DOMAIN wire[u] : Reply(u, k, m) /\ k = (IF u = s THEN i + 1 ELSE i)
      BY <1>5, <2>2
    <3>2. u = to[m] /\ m \in finished /\ cond[m] # "1"
      BY <2>2, <3>1 DEF ReplyInv
    <3>3. ASSUME Reply(u, j, m)'
          PROVE  i = j
      <4>1. PICK l \in DOMAIN wire[u] : Reply(u, l, m) /\ l = (IF u = s THEN j + 1 ELSE j)
        BY <1>5, <3>3
      <4>2. k = l
        BY <2>2, <3>1, <4>1 DEF ReplyInv
      <4>3. u = s => i \in Nat /\ j \in Nat
        BY <1>2, <1>3
      <4> QED BY <3>1, <4>1, <4>2, <4>3
    <3> QED BY <3>2, <3>3
  <2> QED BY <2>1, <2>2 DEF ReplyInv
<1>7. PICK m : m = Recipient(w.m)
  OBVIOUS
<1>8. m \in Messages \cup {None} /\ (m # None => m \in Jobs)
      /\ (m # None /\ m # w.m => kind[m] = "checkin")
  BY <1>1, <1>7 DEF Recipient, Inv, JobInv
<1>9. CASE m = None \/ w.type = "CHECKEDIN"
  BY <1>6, <1>7, <1>9 DEF Deliver
<1>10. CASE m # None /\ w.type = "STARTING"
  <2>1. PICK g \in Frames : g = Call("before", m, "unset") /\ g.fn = "before" /\ g.m = m
    BY <1>8, <1>10, CallType DEF Fns, States
  <2>2. Deliver(w) = <<g>>
    BY <1>7, <1>10, <2>1 DEF Deliver
  <2>3. kind[m] # "wait"
    BY <1>2, <1>8, <1>10 DEF ReplyInv
  <2>4. Alive(g)'
    BY <1>8, <1>10, <2>1, <2>3 DEF Alive
  <2> QED BY <1>6, <2>1, <2>2, <2>4
<1>11. CASE m # None /\ w.type \notin {"STARTING", "CHECKEDIN"}
  <2>1. PICK g \in Frames : g = Done(m, "ok", TRUE) /\ g.fn = "callback" /\ g.m = m
    BY <1>8, <1>11, DoneType DEF States, Done, Call
  <2>2. Deliver(w) = <<g>>
    BY <1>7, <1>11, <2>1 DEF Deliver
  <2>3. ASSUME kind[m] = "wait"
        PROVE  /\ m \in finished /\ cond[m] # "1"
               /\ \A u \in Servers : \A i \in DOMAIN wire'[u] : ~Reply(u, i, m)'
    <3>1. Reply(s, 1, m) /\ m \in Messages
      BY <1>2, <1>8, <1>11, <2>3 DEF Reply, Msgs
    <3>2. /\ s = to[m] /\ m \in finished /\ cond[m] # "1"
          /\ \A j \in DOMAIN wire[s] : Reply(s, j, m) => 1 = j
      BY <1>2, <2>3, <3>1 DEF ReplyInv
    <3>3. ASSUME NEW u \in Servers, NEW i \in DOMAIN wire'[u], Reply(u, i, m)'
          PROVE  FALSE
      <4>1. PICK k \in DOMAIN wire[u] : Reply(u, k, m) /\ k = (IF u = s THEN i + 1 ELSE i)
        BY <1>5, <3>1, <3>3
      <4>2. u = s
        BY <2>3, <3>1, <3>2, <4>1 DEF ReplyInv
      <4>3. i \in Nat /\ i > 0
        BY <1>2, <1>3, <4>2
      <4> QED BY <3>2, <4>1, <4>2, <4>3
    <3> QED BY <3>2, <3>3
  <2>4. Alive(g)'
    BY <1>8, <1>11, <2>1, <2>3 DEF Alive
  <2> QED BY <1>6, <2>1, <2>2, <2>4
<1> QED BY <1>9, <1>10, <1>11

LEMMA Client_do_messageCalm ==
  ASSUME Inv, CalmBody, Client_do_message
  PROVE  CalmBody'
<1>0. PICK c, s : c = Top(receiver).s /\ s = sock[c]
  OBVIOUS
<1>1. /\ receiver \in Threads /\ "message" \in RecvFns /\ At(receiver, "message")
      /\ Recv = {Top(receiver)} /\ Send(receiver) = {}
      /\ Alive(Top(receiver)) /\ Top(receiver).fn = "message"
      /\ \A fs : Become(receiver, fs) /\ fs \in Seq(Frames) => stack' = [stack EXCEPT ![receiver] = fs]
  <2>1. receiver \in Threads /\ "message" \in RecvFns /\ At(receiver, "message")
    BY DEF Client_do_message, Threads, RecvFns
  <2> QED BY <2>1, ReceiverTop
<1>2. /\ c \in Servers /\ s \in Servers /\ s # None /\ Clients[c] # None /\ wire[s] # <<>>
  BY <1>0, <1>1, MessageType DEF Alive, Inv, TypeOK, ClientType
<1>3. /\ wire' = [wire EXCEPT ![s] = Tail(@)] /\ Become(receiver, Deliver(Head(wire[s])))
      /\ UNCHANGED <<todo, Jobs, cond, finished, work, sock, badfd, Clients, conid, openIn>>
  BY <1>0, <1>2 DEF Client_do_message, programVars, clientVars, jobVars
<1>4. TypeOK /\ todo \subseteq Messages
  BY DEF Inv, TypeOK, ProgramType
<1>5. /\ ReplyInv'
      /\ \/ Deliver(Head(wire[s])) = <<>>
         \/ \E g \in Frames : /\ Deliver(Head(wire[s])) = <<g>> /\ g.fn \in {"before", "callback"}
                              /\ Alive(g)'
  BY <1>2, <1>3, DeliverCalm DEF CalmBody
<1>6. /\ ShapeInv' /\ (\A u \in Threads : Send(u)' = Send(u)) /\ RecvInv'
  <2>1. CASE Deliver(Head(wire[s])) = <<>>
    <3>1. stack' = [stack EXCEPT ![receiver] = <<>>]
      BY <1>1, <1>3, <2>1, EmptySeq
    <3>2. /\ ShapeInv' /\ \A u \in Threads \ {receiver} : Send(u)' = Send(u)
          /\ Send(receiver)' = {} /\ Recv' = {}
      BY <1>3, <1>4, <3>1, ReceiverStack DEF CalmBody
    <3> QED BY <1>1, <3>2 DEF RecvInv
  <2>2. ASSUME NEW g \in Frames, Deliver(Head(wire[s])) = <<g>>, g.fn \in {"before", "callback"},
               Alive(g)'
        PROVE  /\ ShapeInv' /\ (\A u \in Threads : Send(u)' = Send(u)) /\ RecvInv'
    <3>1. stack' = [stack EXCEPT ![receiver] = <<g>>] /\ g.fn \in RecvFns
      BY <1>1, <1>3, <2>2, ShortStacks DEF RecvFns
    <3>2. /\ ShapeInv' /\ \A u \in Threads \ {receiver} : Send(u)' = Send(u)
          /\ Send(receiver)' = {} /\ Recv' = {g}
      BY <1>3, <1>4, <3>1, ReceiverStack DEF CalmBody
    <3> QED BY <1>1, <2>2, <3>2 DEF RecvInv
  <2> QED BY <1>5, <2>1, <2>2
<1>7. SendInv'
  BY <1>3, <1>4, <1>6, SendsKept
<1> QED BY <1>5, <1>6, <1>7 DEF CalmBody

LEMMA receiver_threadCalm ==
  ASSUME Inv, Calm, CalmBody, NEW c \in Servers, receiver_thread(c)
  PROVE  CalmBody'
<1>1. /\ TypeOK /\ receiver \in Threads /\ todo \subseteq Messages /\ stack[receiver] = <<>>
      /\ UNCHANGED <<todo, Jobs, cond, finished, work, wire, sock, badfd, Clients, conid, openIn>>
  BY DEF receiver_thread, Inv, TypeOK, ProgramType, Threads, programVars, jobVars, serverVars
<1>2. Clients[c] \in Messages /\ sock[c] # None /\ wire[sock[c]] # <<>>
  BY DEF receiver_thread, Readable, Calm, Inv, TypeOK, ClientType
<1>3. PICK g \in Frames : /\ g = [Call("message", Clients[c], "unset") EXCEPT !.s = c]
                          /\ g.fn = "message" /\ g.s = c
  <2>1. PICK g : g = [Call("message", Clients[c], "unset") EXCEPT !.s = c]
    OBVIOUS
  <2>2. g \in Frames /\ g.fn = "message" /\ g.s = c
    BY <1>2, <2>1 DEF Frames, Call, Fns, States
  <2> QED BY <2>1, <2>2
<1>4. Send(receiver) = {} /\ g.fn \in RecvFns
  BY <1>1, <1>3 DEF Send, RecvFns
<1>5. /\ ShapeInv' /\ (\A u \in Threads : Send(u)' = Send(u)) /\ Recv' = {g}
  <2>1. stack' = [stack EXCEPT ![receiver] = <<g>>]
    BY <1>3 DEF receiver_thread
  <2>2. /\ ShapeInv' /\ \A u \in Threads \ {receiver} : Send(u)' = Send(u)
        /\ Send(receiver)' = {} /\ Recv' = {g}
    BY <1>1, <1>4, <2>1, ReceiverStack DEF CalmBody
  <2> QED BY <1>4, <2>2
<1>6. RecvInv'
  <2>1. Alive(g)'
    BY <1>1, <1>2, <1>3, MessageType DEF Alive
  <2> QED BY <1>5, <2>1 DEF RecvInv
<1>7. SendInv'
  BY <1>1, <1>5, SendsKept
<1>8. ReplyInv'
  BY <1>1, ReplyKept DEF CalmBody
<1> QED BY <1>5, <1>6, <1>7, <1>8 DEF CalmBody

(* Nobody's stack changes. *)
LEMMA StacksKept ==
  ASSUME ShapeInv, UNCHANGED <<stack, badfd>>
  PROVE  ShapeInv' /\ (\A t \in Threads : Send(t)' = Send(t)) /\ Recv' = Recv
BY DEF ShapeInv, Send, Recv

LEMMA accept_clientCalm ==
  ASSUME Inv, CalmBody, NEW s \in Servers, accept_client(s)
  PROVE  CalmBody'
<1>1. /\ TypeOK /\ todo \subseteq Messages /\ stack[receiver] = <<>>
      /\ UNCHANGED <<stack, todo, Jobs, cond, finished, work, badfd, Clients, conid, openIn>>
      /\ wire' = wire \/ wire' = [wire EXCEPT ![s] = <<>>]
  BY DEF accept_client, Inv, TypeOK, ProgramType, programVars, jobVars
<1>2. ShapeInv' /\ (\A t \in Threads : Send(t)' = Send(t)) /\ Recv' = Recv /\ Recv = {}
  BY <1>1, StacksKept DEF CalmBody, Recv
<1>3. SendInv'
  BY <1>1, <1>2, SendsKept
<1>4. ReplyInv'
  <2>1. \A u \in Servers : wire'[u] = wire[u] \/ wire'[u] = <<>>
    BY <1>1 DEF TypeOK, ServerType
  <2>2. ASSUME NEW u \in Servers, NEW i \in DOMAIN wire'[u]
        PROVE  wire'[u] = wire[u]
    BY <2>1, <2>2
  <2>3. ASSUME NEW u \in Servers, NEW i \in DOMAIN wire'[u], wire'[u][i].type = "STARTING"
        PROVE  kind[wire'[u][i].m] # "wait"
    BY <2>2, <2>3 DEF CalmBody, ReplyInv
  <2>4. ASSUME NEW m \in Messages, kind[m] = "wait",
               NEW u \in Servers, NEW i \in DOMAIN wire'[u], NEW j \in DOMAIN wire'[u], Reply(u, i, m)'
        PROVE  /\ u = to[m] /\ m \in finished' /\ cond'[m] # "1"
               /\ Reply(u, j, m)' => i = j
    BY <1>1, <2>2, <2>4 DEF CalmBody, ReplyInv, Reply
  <2> QED BY <1>1, <2>3, <2>4 DEF CalmBody, ReplyInv
<1>5. RecvInv'
  BY <1>2 DEF RecvInv
<1> QED BY <1>2, <1>3, <1>4, <1>5 DEF CalmBody

-----------------------------------------------------------------------------
(* The servers. *)

(* A message is added to what a server sent, or replaces it. *)
LEMMA SentOn ==
  ASSUME TypeOK, NEW s \in Servers, NEW type \in {"STARTING", "FINISHED", "CHECKEDIN"},
         NEW m \in Messages \cup {None}, send_reply(s, type, m)
  PROVE  /\ \A u \in Servers \ {s} : wire'[u] = wire[u]
         /\ wire'[s] # <<>>
         /\ \A i \in DOMAIN wire'[s] :
              \/ i \in DOMAIN wire[s] /\ wire'[s][i] = wire[s][i]
              \/ i = Len(wire'[s]) /\ wire'[s][i] = [type |-> type, m |-> m]
<1> DEFINE msg == [type |-> type, m |-> m]
<1>1. msg \in Msgs
  BY DEF Msgs
<1> HIDE DEF msg
<1>2. wire \in [Servers -> Seq(Msgs)] /\ wire[s] \in Seq(Msgs)
  BY DEF TypeOK, ServerType
<1>3. wire' = [wire EXCEPT ![s] = IF link[s] \in {"none", "closed"} THEN <<msg>>
                                  ELSE Append(wire[s], msg)]
  BY <1>2 DEF send_reply, msg
<1>4. CASE wire'[s] = <<msg>>
  <2>1. Len(<<msg>>) = 1 /\ <<msg>>[1] = msg /\ DOMAIN <<msg>> = {1} /\ <<msg>> # <<>>
    OBVIOUS
  <2> QED BY <1>2, <1>3, <1>4, <2>1 DEF msg
<1>5. CASE wire'[s] = Append(wire[s], msg)
  <2>1. /\ wire'[s] \in Seq(Msgs) /\ Len(wire'[s]) = Len(wire[s]) + 1 /\ Len(wire[s]) \in Nat
        /\ \A i \in 1 .. Len(wire[s]) : wire'[s][i] = wire[s][i]
        /\ wire'[s][Len(wire[s]) + 1] = msg
    BY <1>1, <1>2, <1>5, AppendProperties, LenProperties
  <2>2. DOMAIN wire'[s] = 1 .. Len(wire'[s]) /\ DOMAIN wire[s] = 1 .. Len(wire[s])
    BY <1>2, <2>1, LenProperties
  <2>3. wire'[s] # <<>>
    <3>1. Len(<<>>) = 0
      BY EmptySeq
    <3> QED BY <2>1, <3>1
  <2> QED BY <1>2, <1>3, <2>1, <2>2, <2>3 DEF msg
<1> QED BY <1>2, <1>3, <1>4, <1>5

(***************************************************************************)
(* A server answers a message once.  Only the thread that sends it puts it  *)
(* into the server's queue, and what a server finished it does not have in  *)
(* work any more.                                                           *)
(***************************************************************************)
LEMMA ServerCalm ==
  ASSUME Inv, CalmBody, NEW s \in Servers, NEW m \in Messages \cup {None},
         \/ /\ UNCHANGED <<work, finished>>
            /\ \/ UNCHANGED wire
               \/ \E type \in {"STARTING", "CHECKEDIN"} : send_reply(s, type, m) /\ kind[m] # "wait"
               \/ send_reply(s, "FINISHED", m) /\ (m \in Messages => kind[m] # "wait")
         \/ /\ m \in work[s] /\ work' = [work EXCEPT ![s] = @ \ {m}]
            /\ finished' = finished \cup {m} /\ send_reply(s, "FINISHED", m),
         UNCHANGED <<stack, todo, Jobs, cond, sock, badfd, Clients, conid, openIn>>
  PROVE  CalmBody'
<1>1. /\ TypeOK /\ todo \subseteq Messages /\ work \in [Servers -> SUBSET Messages]
      /\ sock \in [Servers -> Servers \cup {None}]
  BY DEF Inv, TypeOK, ProgramType, ServerType, ClientType
<1>2. ShapeInv' /\ (\A t \in Threads : Send(t)' = Send(t)) /\ Recv' = Recv
  BY StacksKept DEF CalmBody
<1>3. SendInv'
  <2>1. ASSUME NEW j \in Messages, Unserved(j)
        PROVE  Unserved(j)'
    BY <1>1, <2>1 DEF Unserved
  <2>2. \A j \in Messages : SendRelies(None, j)
    BY <2>1 DEF SendRelies, Unused, HasSocket
  <2> QED BY <1>1, <1>2, <2>2, SendSame DEF CalmBody
<1>4. (* What is on the wire was there before, or is the new reply. *)
      ASSUME NEW u \in Servers, NEW i \in DOMAIN wire'[u]
      PROVE  \/ i \in DOMAIN wire[u] /\ wire'[u][i] = wire[u][i]
             \/ /\ u = s /\ i = Len(wire'[u]) /\ wire'[u][i].m = m
                /\ wire'[u][i].type = "STARTING" => kind[m] # "wait"
                /\ /\ wire'[u][i].type = "FINISHED"
                   /\ m \in Messages /\ kind[m] = "wait"
                   => m \in work[s] /\ finished' = finished \cup {m}
  <2>1. CASE UNCHANGED wire
    BY <1>4, <2>1
  <2>2. ASSUME NEW type \in {"STARTING", "FINISHED", "CHECKEDIN"}, send_reply(s, type, m)
        PROVE  \/ i \in DOMAIN wire[u] /\ wire'[u][i] = wire[u][i]
               \/ /\ u = s /\ i = Len(wire'[u])
                  /\ wire'[u][i].m = m /\ wire'[u][i].type = type
    <3>1. /\ \A v \in Servers \ {s} : wire'[v] = wire[v]
          /\ \A k \in DOMAIN wire'[s] :
               \/ k \in DOMAIN wire[s] /\ wire'[s][k] = wire[s][k]
               \/ k = Len(wire'[s]) /\ wire'[s][k] = [type |-> type, m |-> m]
      BY <1>1, <2>2, SentOn
    <3>2. CASE u = s
      BY <1>4, <3>1, <3>2
    <3>3. CASE u # s
      BY <1>4, <3>1, <3>3
    <3> QED BY <3>2, <3>3
  <2> QED BY <2>1, <2>2
<1>5. \A u \in Servers : wire[u] # <<>> => wire'[u] # <<>>
  BY <1>1, SentOn
<1>6. (* Nobody has the reply to a message in work. *)
      ASSUME NEW j \in Messages, kind[j] = "wait", j \in work[s]
      PROVE  /\ s = to[j] /\ j \notin finished /\ cond[j] # "1"
             /\ \A u \in Servers : \A i \in DOMAIN wire[u] : ~Reply(u, i, j)
             /\ \A f \in Recv : f.fn # "message" => f.m # j
  BY <1>6 DEF CalmBody, ReplyInv, RecvInv, Alive
<1>7. ASSUME NEW j \in Messages, kind[j] = "wait",
             NEW u \in Servers, NEW i \in DOMAIN wire'[u], Reply(u, i, j)'
      PROVE  \/ i \in DOMAIN wire[u] /\ Reply(u, i, j) /\ (j \notin work[s] \/ j # m)
             \/ /\ u = s /\ i = Len(wire'[u]) /\ j = m /\ j \in work[s]
                /\ j \in finished'
  BY <1>4, <1>6, <1>7 DEF Reply
<1>8. ReplyInv'
  <2>1. \A u \in Servers : \A j \in work'[u] : u = to[j] /\ j \notin finished'
    BY <1>1 DEF CalmBody, ReplyInv
  <2>2. ASSUME NEW u \in Servers, NEW i \in DOMAIN wire'[u], wire'[u][i].type = "STARTING"
        PROVE  kind[wire'[u][i].m] # "wait"
    BY <1>4, <2>2 DEF CalmBody, ReplyInv
  <2>3. ASSUME NEW j \in Messages, kind[j] = "wait",
               NEW u \in Servers, NEW i \in DOMAIN wire'[u], NEW k \in DOMAIN wire'[u], Reply(u, i, j)'
        PROVE  /\ u = to[j] /\ j \in finished' /\ cond'[j] # "1"
               /\ Reply(u, k, j)' => i = k
    <3>1. CASE i \in DOMAIN wire[u] /\ Reply(u, i, j) /\ (j \notin work[s] \/ j # m)
      <4>1. /\ u = to[j] /\ j \in finished /\ cond[j] # "1"
            /\ \A l \in DOMAIN wire[u] : Reply(u, l, j) => i = l
        BY <2>3, <3>1 DEF CalmBody, ReplyInv
      <4>2. finished \subseteq finished'
        OBVIOUS
      <4>3. Reply(u, k, j)' => k \in DOMAIN wire[u] /\ Reply(u, k, j)
        BY <1>7, <2>3, <3>1
      <4> QED BY <4>1, <4>2, <4>3
    <3>2. CASE u = s /\ i = Len(wire'[u]) /\ j = m /\ j \in work[s] /\ j \in finished'
      <4>1. /\ s = to[j] /\ cond[j] # "1"
            /\ \A l \in DOMAIN wire[u] : ~Reply(u, l, j)
        BY <1>6, <2>3, <3>2
      <4>2. Reply(u, k, j)' => k = Len(wire'[u])
        BY <1>7, <2>3, <4>1
      <4> QED BY <3>2, <4>1, <4>2
    <3> QED BY <1>7, <2>3, <3>1, <3>2
  <2>4. \A j \in Messages : kind[j] = "wait" /\ cond'[j] = "1" => j \in finished'
    BY DEF CalmBody, ReplyInv
  <2> QED BY <2>1, <2>2, <2>3, <2>4 DEF ReplyInv
<1>9. RecvInv'
  <2> SUFFICES ASSUME NEW f \in Recv
               PROVE  Alive(f)'
    BY <1>2 DEF RecvInv
  <2>1. Alive(f) /\ f.m \in Messages
    BY RecvMessage DEF CalmBody, RecvInv
  <2>2. CASE f.fn = "message"
    BY <1>1, <1>5, <2>1, <2>2 DEF Alive
  <2>3. CASE f.fn # "message"
    <3>1. kind[f.m] = "wait" => \A u \in Servers : \A i \in DOMAIN wire'[u] : ~Reply(u, i, f.m)'
      BY <1>6, <1>7, <2>1, <2>3 DEF Alive
    <3> QED BY <2>1, <2>3, <3>1 DEF Alive
  <2> QED BY <2>2, <2>3
<1> QED BY <1>2, <1>3, <1>8, <1>9 DEF CalmBody

-----------------------------------------------------------------------------
(* The steps together. *)

(* What was cleaned up stays so. *)
LEMMA CalmBefore ==
  ASSUME Inv, [Next]_vars, Calm'
  PROVE  Calm
<1>1. disconnects \in Nat
  BY MessageType DEF Inv, TypeOK, ProgramType
<1>2. dead \subseteq dead' /\ (disconnects' = disconnects \/ disconnects' = disconnects + 1)
  <2>1. CASE UNCHANGED vars
    BY <2>1 DEF vars
  <2>2. ASSUME NEW t \in Senders, NEW m \in Messages, ServerSendMessage(t, m)
        PROVE  dead \subseteq dead' /\ disconnects' = disconnects
    BY <2>2 DEF ServerSendMessage, serverVars
  <2>3. ASSUME NEW t \in Senders, NEW s \in Servers, ServerDisconnect(t, s)
        PROVE  dead \subseteq dead' /\ disconnects' = disconnects + 1
    BY <2>3 DEF ServerDisconnect
  <2>4. ASSUME NEW t \in Threads, ThreadStep(t) \/ Job_abandon_locked(t)
        PROVE  dead \subseteq dead' /\ disconnects' = disconnects
    BY <2>4 DEF ThreadStep, server_connect, Job_register, SendArg, GetAnswerInfoTS, Job_cleanup,
       Job_callback_done, Job_finish, free, Job_pop_by_conid, ServerWait, Job_wait_and_pop_locked,
       Job_abandon_locked, unlock_clients, serverVars, programVars
  <2>5. ASSUME ReceiverStep
        PROVE  dead \subseteq dead' /\ disconnects' = disconnects
    BY <2>5 DEF ReceiverStep, accept_client, receiver_thread, Client_do_message,
       Job_callback_before, reset_fdactive, select_timeout, serverVars, programVars
  <2>6. ASSUME NEW s \in Servers, ServerStep(s) \/ lost(s) \/ \E m \in Events : event(s, m)
        PROVE  dead \subseteq dead' /\ disconnects' = disconnects
    BY <2>6 DEF ServerStep, begin, DoSrvMonitor, finish, event, lost, programVars
  <2> QED BY <2>1, <2>2, <2>3, <2>4, <2>5, <2>6 DEF Next, Threads
<1> QED BY <1>1, <1>2 DEF Calm

(* No thread cleans up. *)
LEMMA NobodyCleans ==
  ASSUME Inv, CalmBody, NEW t \in Threads
  PROVE  ~Job_cleanup(t) /\ ~free(t) /\ ~Job_pop_by_conid(t) /\ ~unlock_clients(t)
<1>1. ASSUME NEW fn \in {"cleanup", "free", "pop", "unlock"}, At(t, fn)
      PROVE  FALSE
  <2>1. fn \in SendFns \/ fn \in RecvFns
    BY <1>1, Below DEF Inv, CalmBody
  <2> QED BY <1>1, <2>1 DEF SendFns, RecvFns
<1> QED BY <1>1 DEF Job_cleanup, free, Job_pop_by_conid, unlock_clients

LEMMA select_timeoutCalm ==
  ASSUME Inv, CalmBody, select_timeout
  PROVE  CalmBody'
<1>1. /\ todo \subseteq Messages
      /\ UNCHANGED <<stack, badfd, todo, Jobs, cond, finished, work, wire, sock, Clients, conid, openIn>>
  BY DEF Inv, TypeOK, ProgramType, select_timeout, programVars, jobVars, serverVars
<1>2. ShapeInv' /\ (\A t \in Threads : Send(t)' = Send(t)) /\ Recv' = Recv
  BY <1>1, StacksKept DEF CalmBody
<1>3. SendInv'
  BY <1>1, <1>2, SendsKept
<1>4. ReplyInv' /\ RecvInv'
  BY <1>1, <1>2, ReplyKept, RecvKept DEF CalmBody, Present
<1> QED BY <1>2, <1>3, <1>4 DEF CalmBody

LEMMA ServersCalm ==
  ASSUME \A m \in Events \cap Messages : kind[m] # "wait",
         Inv, CalmBody, NEW s \in Servers, ServerStep(s) \/ \E m \in Events : event(s, m)
  PROVE  CalmBody'
<1>1. Events \subseteq Messages \cup {None}
  BY MessageType
<1>2. ASSUME NEW m \in Messages, begin(s, m)
      PROVE  CalmBody'
  <2>1. UNCHANGED <<work, finished, stack, todo, Jobs, cond, sock, badfd, Clients, conid, openIn>>
    BY <1>2 DEF begin, DoSrvMonitor, programVars, jobVars, clientVars
  <2>2. \/ UNCHANGED wire
        \/ \E type \in {"STARTING", "CHECKEDIN"} : send_reply(s, type, m) /\ kind[m] # "wait"
    BY <1>2 DEF begin, DoSrvMonitor
  <2> QED BY <2>1, <2>2, ServerCalm
<1>3. ASSUME NEW m \in Messages, finish(s, m)
      PROVE  CalmBody'
  <2>1. UNCHANGED <<stack, todo, Jobs, cond, sock, badfd, Clients, conid, openIn>>
    BY <1>3 DEF finish, programVars, jobVars, clientVars
  <2>2. /\ m \in work[s] /\ work' = [work EXCEPT ![s] = @ \ {m}]
        /\ finished' = finished \cup {m} /\ send_reply(s, "FINISHED", m)
    BY <1>3 DEF finish
  <2> QED BY <2>1, <2>2, ServerCalm
<1>4. ASSUME NEW m \in Events, event(s, m)
      PROVE  CalmBody'
  <2>1. UNCHANGED <<work, finished, stack, todo, Jobs, cond, sock, badfd, Clients, conid, openIn>>
    BY <1>4 DEF event, programVars, jobVars, clientVars
  <2>2. send_reply(s, "FINISHED", m) /\ (m \in Messages => kind[m] # "wait")
    BY <1>4 DEF event
  <2> QED BY <1>1, <2>1, <2>2, ServerCalm
<1> QED BY <1>2, <1>3, <1>4 DEF ServerStep

LEMMA CalmNext ==
  ASSUME ~Glitches, \A m \in Events \cap Messages : kind[m] # "wait",
         Inv, CalmInv, [Next]_vars
  PROVE  CalmInv'
<1> SUFFICES ASSUME Calm'
             PROVE  CalmBody'
  BY DEF CalmInv
<1>1. Calm /\ CalmBody
  BY CalmBefore DEF CalmInv
<1>2. ASSUME NEW t \in Senders, NEW m \in Messages, ServerSendMessage(t, m)
      PROVE  CalmBody'
  BY <1>1, <1>2, ServerSendMessageCalm
<1>3. ASSUME NEW t \in Senders, NEW s \in Servers, ServerDisconnect(t, s)
      PROVE  FALSE
  BY <1>1, <1>3 DEF ServerDisconnect, Calm
<1>4. ASSUME NEW t \in Threads, ThreadStep(t) \/ Job_abandon_locked(t)
      PROVE  CalmBody'
  <2>1. \/ server_connect(t) \/ Job_register(t) \/ SendArg(t) \/ GetAnswerInfoTS(t)
        \/ Job_callback_done(t) \/ Job_finish(t) \/ ServerWait(t)
        \/ Job_wait_and_pop_locked(t) \/ Job_abandon_locked(t)
    BY <1>1, <1>4, NobodyCleans DEF ThreadStep
  <2> QED BY <1>1, <2>1, server_connectCalm, Job_registerCalm, SendArgCalm, GetAnswerInfoTSCalm,
             Job_callback_doneCalm, Job_finishCalm, ServerWaitCalm, WakesCalm
<1>5. ASSUME ReceiverStep
      PROVE  CalmBody'
  <2>1. ~reset_fdactive
    BY <1>1 DEF reset_fdactive, CalmBody, ShapeInv
  <2> QED BY <1>1, <1>5, <2>1, accept_clientCalm, receiver_threadCalm, Client_do_messageCalm,
             Job_callback_beforeCalm, select_timeoutCalm DEF ReceiverStep
<1>6. ASSUME NEW s \in Servers, ServerStep(s) \/ lost(s) \/ \E m \in Events : event(s, m)
      PROVE  CalmBody'
  <2>1. ~lost(s)
    BY <1>1 DEF lost, Calm
  <2> QED BY <1>1, <1>6, <2>1, ServersCalm
<1>7. CASE UNCHANGED vars
  BY <1>1, <1>7 DEF vars, CalmBody, ShapeInv, SendInv, ReplyInv, RecvInv, Send, Recv, Owned, Unserved,
     Unused, HasSocket, Reply, Alive
<1> QED BY <1>2, <1>3, <1>4, <1>5, <1>6, <1>7 DEF Next, Threads

LEMMA CalmInit ==
  ASSUME Init
  PROVE  CalmInv
<1>1. \A t \in Threads : stack[t] = <<>> /\ Send(t) = {}
  BY DEF Init, Send
<1>2. receiver \in Threads /\ Senders \subseteq Threads
  BY DEF Threads
<1>3. ShapeInv /\ Recv = {}
  BY <1>1, <1>2 DEF Init, ShapeInv, SenderShape, ReceiverShape, Recv
<1>4. \A m \in Messages : Unserved(m) /\ Unused(m)
  BY MessageType DEF Init, Unserved, Unused
<1>5. SendInv /\ RecvInv
  BY <1>1, <1>3, <1>4 DEF Init, SendInv, RecvInv
<1>6. ReplyInv
  <2>1. DOMAIN <<>> = {}
    BY EmptySeq
  <2> QED BY <2>1 DEF Init, ReplyInv
<1> QED BY <1>3, <1>5, <1>6 DEF CalmInv, CalmBody

LEMMA CalmUses ==
  ASSUME Inv, CalmInv
  PROVE  UsesLive
<1> SUFFICES ASSUME Calm, NEW t \in Threads, NEW k \in 1 .. 8, k \in DOMAIN stack[t]
             PROVE  /\ stack[t][k].fn \in {"callback", "finish", "before", "asleep"} =>
                         stack[t][k].m \notin freed
                    /\ stack[t][k].fn = "message" => Clients[stack[t][k].s] # None
  BY DEF UsesLive, Calm
<1>1. CalmBody /\ stack[t] \in Seq(Frames) /\ freed \cap Jobs = {}
  BY DEF CalmInv, Inv, TypeOK, StackType, JobInv
<1>2. /\ Len(stack[t]) \in Nat /\ k \in 1 .. Len(stack[t]) /\ stack[t][k] \in Frames
      /\ stack[t] # <<>>
  BY <1>1, EmptySeq, LenProperties, ElementOfSeq
<1>3. PICK f : f = stack[t][k]
  OBVIOUS
<1>4. \/ k = 1 /\ f.fn \in SendFns
      \/ t = receiver /\ k = Len(stack[t]) /\ f.fn \in RecvFns
  <2>1. CASE t = receiver
    <3> PICK n : n = Len(stack[t])
      OBVIOUS
    <3>1. \/ n = 1 /\ stack[t][1].fn \in SendFns \cup RecvFns
          \/ n = 2 /\ stack[t][1].fn \in SendFns /\ stack[t][2].fn = "finish"
      BY <1>1, <1>2, <2>1 DEF CalmBody, ShapeInv, ReceiverShape
    <3>2. (n = 1 => k = 1) /\ (n = 2 => k = 1 \/ k = 2)
      BY <1>2
    <3>3. CASE n = 1
      BY <1>3, <2>1, <3>1, <3>2, <3>3
    <3>4. CASE n = 2
      BY <1>3, <2>1, <3>1, <3>2, <3>4 DEF RecvFns
    <3> QED BY <3>1, <3>3, <3>4
  <2>2. CASE t # receiver
    BY <1>1, <1>2, <1>3, <2>2, ShapeSenders DEF CalmBody, ShapeInv, SenderShape
  <2> QED BY <2>1, <2>2
<1>5. CASE k = 1 /\ f.fn \in SendFns
  <2>1. f \in Send(t)
    BY <1>2, <1>3, <1>5 DEF Send
  <2>2. f.fn = "asleep" => f.m \in Jobs
    BY <1>1, <2>1 DEF CalmBody, SendInv, Owned
  <2> QED BY <1>1, <1>3, <1>5, <2>2 DEF SendFns
<1>6. CASE t = receiver /\ k = Len(stack[t]) /\ f.fn \in RecvFns
  <2>1. f \in Recv
    BY <1>2, <1>3, <1>6 DEF Recv
  <2>2. Alive(f)
    BY <1>1, <2>1 DEF CalmBody, RecvInv
  <2> QED BY <1>1, <1>3, <1>6, <2>2 DEF Alive, RecvFns
<1> QED BY <1>4, <1>5, <1>6

(***************************************************************************)
(* Until a client is disconnected or a server goes, nobody works on a job   *)
(* or a client that was freed: the receiver from Job_get_by_jobid to the    *)
(* end of Job_callback_done, a thread that sleeps in                        *)
(* Job_wait_and_pop_locked - provided that no connection fails in its       *)
(* handshake (the sender's Job_cleanup may then free the job the receiver   *)
(* calls back) and that no event bears the id of a job somebody waits for   *)
(* (it would be taken for its reply).                                       *)
(***************************************************************************)
THEOREM NoneFreed ==
  ASSUME ~Glitches, \A m \in Events \cap Messages : kind[m] # "wait"
  PROVE  Spec => []UsesLive
<1>1. Init => Inv /\ CalmInv
  BY InitInv, CalmInit
<1>2. Inv /\ CalmInv /\ [Next]_vars => (Inv /\ CalmInv)'
  BY NextInv, CalmNext
<1>3. Inv /\ CalmInv => UsesLive
  BY CalmUses
<1> QED BY <1>1, <1>2, <1>3, PTL DEF Spec

-----------------------------------------------------------------------------
(***************************************************************************)
(* No job is forgotten: when there is nothing to do, what is left in the    *)
(* list is at work on its server (Settled).                                 *)
(*                                                                          *)
(* The argument follows a job from its registration to its removal.  There  *)
(* is always somebody who will remove it: the thread that still has to send *)
(* it or to clean up after it, a loop over the jobs of its connection, or,  *)
(* as long as its connection is the one of the client, its server, a reply  *)
(* on the wire, the receiver, or the thread that was told to pop it.        *)
(***************************************************************************)

Popping(c) == \E f \in OnStack : f.fn = "pop" /\ f.m = c
Unsent(j) == \E f \in OnStack : f.fn \in {"register", "send", "cleanup"} /\ f.m = j
Told(j) == \E f \in OnStack : (f.fn = "finish" \/ (f.fn = "callback" /\ f.rm)) /\ f.m = j
Awaited(j) == \E f \in OnStack : f.fn \in {"send", "answer", "wait", "asleep"} /\ f.m = j
Replied(j) == \E i \in DOMAIN wire[to[j]] : wire[to[j]][i] = [type |-> "FINISHED", m |-> j]

Listed(j) == Clients[to[j]] = conid[j]

(* Its server will answer, has answered, or is gone. *)
Pending(j) ==
  \/ j \in work[to[j]] \/ to[j] \in dead
  \/ kind[j] # "checkin" /\ (Replied(j) \/ Told(j) \/ cond[j] = "1")

Kept(j) == Popping(conid[j]) \/ Unsent(j) \/ (Listed(j) /\ Pending(j))

(* A message is sent on the connection of the client, or its job is popped. *)
RoutedInv ==
  \A f \in OnStack : f.fn \in {"register", "send"} /\ to[f.m] \notin dead =>
    \/ Listed(f.m)
    \/ f.fn = "send" /\ (f.m \notin Jobs \/ Popping(conid[f.m]))

(* A client reads the reply socket of its own server. *)
SocketInv ==
  \A s \in Servers :
    /\ sock[s] # None => sock[s] = s /\ link[s] = "open"
    /\ link[s] \in {"none", "closed"} => wire[s] = <<>>

(* A thread that has to wait has nothing else to do. *)
Waiter(f) ==
  \/ f.fn \in {"wait", "asleep"}
  \/ f.fn \in {"connect", "register", "send", "answer"} /\ kind[f.m] = "wait"

BottomInv ==
  \A t \in Threads : \A k \in DOMAIN stack[t] : Waiter(stack[t][k]) => k = Len(stack[t])

WaitInv ==
  /\ \A m \in Messages : cond[m] # "NULL" => kind[m] = "wait"
  /\ \A j \in Jobs : cond[j] # "NULL" => Awaited(j)

KeptInv == \A j \in Jobs : Kept(j)

SettledInv == RoutedInv /\ SocketInv /\ BottomInv /\ WaitInv /\ KeptInv

-----------------------------------------------------------------------------
(* What has to be ruled out. *)

(* Threads that wait are not cancelled, no two servers are at one address,  *)
(* and a callback does not wait itself.                                     *)
Ordinary ==
  /\ ~Cancels
  /\ \A r, s \in Servers : host[r] = host[s] => r = s
  /\ \A m \in Messages : next[m] # None => kind[next[m]] # "wait"

-----------------------------------------------------------------------------
(* What a step does to the frames of all stacks. *)

LEMMA OnFrames ==
  ASSUME NEW f
  PROVE  /\ f \in OnStack <=> \E t \in Threads : \E k \in DOMAIN stack[t] : f = stack[t][k]
         /\ f \in OnStack' <=> \E t \in Threads : \E k \in DOMAIN stack'[t] : f = stack'[t][k]
BY DEF OnStack

(* Frames go and come, the others stay. *)
Moved(gone, come) ==
  /\ \A f \in OnStack : f \in gone \/ f \in OnStack'
  /\ \A f \in OnStack' : f \in OnStack \/ f \in come
  /\ come \subseteq OnStack'

LEMMA StackMoves ==
  ASSUME TypeOK, BottomInv,
         NEW t \in Threads, NEW fs \in Seq(Frames), NEW rest \in Seq(Frames),
         NEW gone, NEW come,
         \A j \in DOMAIN rest : j + 1 \in DOMAIN stack[t] /\ rest[j] = stack[t][j + 1],
         \A j \in DOMAIN stack[t] : (j = 1 /\ stack[t][j] \in gone) \/ j - 1 \in DOMAIN rest,
         NEW new, new = fs \o rest, stack' = [stack EXCEPT ![t] = new],
         \A f : f \in come <=> \E k \in DOMAIN fs : f = fs[k],
         \A k \in DOMAIN fs : Waiter(fs[k]) => k = Len(fs) /\ Len(rest) = 0
  PROVE  Moved(gone, come) /\ BottomInv'
<1>1. stack \in [Threads -> Seq(Frames)]
  BY DEF TypeOK, StackType
<1>2. /\ DOMAIN fs = 1 .. Len(fs) /\ Len(fs) \in Nat
      /\ DOMAIN rest = 1 .. Len(rest) /\ Len(rest) \in Nat
      /\ DOMAIN new = 1 .. Len(fs) + Len(rest) /\ Len(new) = Len(fs) + Len(rest)
      /\ \A i \in DOMAIN new : new[i] = IF i <= Len(fs) THEN fs[i] ELSE rest[i - Len(fs)]
  <2>1. new \in Seq(Frames) /\ Len(new) = Len(fs) + Len(rest)
    BY ConcatProperties
  <2>2. DOMAIN new = 1 .. Len(new) /\ DOMAIN fs = 1 .. Len(fs) /\ DOMAIN rest = 1 .. Len(rest)
    BY <2>1, LenProperties
  <2>3. Len(fs) \in Nat /\ Len(rest) \in Nat
    BY LenProperties
  <2> QED BY <2>1, <2>2, <2>3, ConcatProperties
<1>3. DOMAIN stack[t] = 1 .. Len(stack[t]) /\ Len(stack[t]) \in Nat
  BY <1>1, LenProperties
<1>4. /\ stack'[t] = new
      /\ \A u \in Threads \ {t} : stack'[u] = stack[u]
  BY <1>1, <1>2
<1>5. ASSUME NEW k \in DOMAIN fs
      PROVE  k \in DOMAIN new /\ new[k] = fs[k]
  BY <1>2
<1>6. ASSUME NEW j \in DOMAIN rest
      PROVE  j + Len(fs) \in DOMAIN new /\ new[j + Len(fs)] = rest[j]
  BY <1>2
<1>7. ASSUME NEW k \in DOMAIN new
      PROVE  \/ k \in DOMAIN fs /\ new[k] = fs[k]
             \/ k - Len(fs) \in DOMAIN rest /\ new[k] = rest[k - Len(fs)]
  BY <1>2
<1>8. ASSUME NEW f \in OnStack
      PROVE  f \in gone \/ f \in OnStack'
  <2>0. PICK u \in Threads : \E k \in DOMAIN stack[u] : f = stack[u][k]
    BY <1>8, OnFrames
  <2>1. PICK k \in DOMAIN stack[u] : f = stack[u][k]
    BY <2>0
  <2>2. CASE u # t
    <3>1. k \in DOMAIN stack'[u] /\ f = stack'[u][k]
      BY <1>4, <2>1, <2>2
    <3> QED BY <3>1, OnFrames
  <2>3. CASE u = t /\ k - 1 \in DOMAIN rest
    <3>1. k = (k - 1) + 1
      BY <1>3, <2>3
    <3>2. f = rest[k - 1]
      BY <2>1, <2>3, <3>1
    <3>3. k - 1 + Len(fs) \in DOMAIN stack'[t] /\ stack'[t][k - 1 + Len(fs)] = f
      BY <1>4, <1>6, <2>3, <3>2
    <3> QED BY <3>3, OnFrames
  <2> QED BY <2>1, <2>2, <2>3
<1>9. ASSUME NEW f \in OnStack'
      PROVE  f \in OnStack \/ f \in come
  <2>0. PICK u \in Threads : \E k \in DOMAIN stack'[u] : f = stack'[u][k]
    BY <1>9, OnFrames
  <2>1. PICK k \in DOMAIN stack'[u] : f = stack'[u][k]
    BY <2>0
  <2>2. CASE u # t
    BY <1>4, <2>1, <2>2, OnFrames
  <2>3. CASE u = t
    BY <1>4, <1>7, <2>1, <2>3, OnFrames
  <2> QED BY <2>2, <2>3
<1>10. come \subseteq OnStack'
  BY <1>4, <1>5, OnFrames
<1>11. ASSUME NEW u \in Threads, NEW k \in DOMAIN stack'[u], Waiter(stack'[u][k])
       PROVE  k = Len(stack'[u])
  <2>1. CASE u # t
    BY <1>4, <1>11, <2>1 DEF BottomInv
  <2>2. CASE u = t /\ k \in DOMAIN fs /\ new[k] = fs[k]
    BY <1>2, <1>4, <1>11, <2>2
  <2>3. CASE u = t /\ k - Len(fs) \in DOMAIN rest /\ new[k] = rest[k - Len(fs)]
    <3>1. k - Len(fs) + 1 \in DOMAIN stack[t] /\ stack[t][k - Len(fs) + 1] = new[k]
      BY <2>3
    <3>2. k - Len(fs) + 1 = Len(stack[t])
      BY <1>4, <1>11, <2>3, <3>1 DEF BottomInv
    <3>3. ~ (k - Len(fs) + 1 \in DOMAIN rest)
      BY <1>2, <1>3, <3>2
    <3>4. k - Len(fs) = Len(rest)
      BY <1>2, <2>3, <3>3
    <3>5. k \in 1 .. Len(fs) + Len(rest)
      BY <1>2, <1>4, <2>3
    <3>6. k = Len(fs) + Len(rest)
      BY <1>2, <3>4, <3>5
    <3> QED BY <1>2, <1>4, <2>3, <3>6
  <2> QED BY <1>4, <1>7, <1>11, <2>1, <2>2, <2>3
<1>12. BottomInv'
  BY <1>11 DEF BottomInv, Waiter
<1> QED BY <1>8, <1>9, <1>10, <1>12 DEF Moved

(* A thread that has a frame replaces it. *)
LEMMA BecomeMoves ==
  ASSUME TypeOK, BottomInv, NEW t \in Threads, NEW fn, At(t, fn), NEW top, top = Top(t),
         NEW fs \in Seq(Frames), Become(t, fs), NEW come,
         \A f : f \in come <=> \E k \in DOMAIN fs : f = fs[k],
         \A k \in DOMAIN fs : Waiter(fs[k]) => k = Len(fs) /\ Waiter(top)
  PROVE  Moved({top}, come) /\ BottomInv'
<1>1. stack[t] \in Seq(Frames) /\ stack[t] # <<>> /\ stack \in [Threads -> Seq(Frames)]
      /\ 1 \in DOMAIN stack[t] /\ top = stack[t][1]
  BY TopType DEF TypeOK, StackType
<1>2. PICK rest \in Seq(Frames) : rest = Tail(stack[t])
  BY <1>1, HeadTailProperties
<1>3. Len(rest) = Len(stack[t]) - 1 /\ \A j \in 1 .. Len(rest) : rest[j] = stack[t][j + 1]
  BY <1>1, <1>2, HeadTailProperties
<1>4. /\ DOMAIN stack[t] = 1 .. Len(stack[t]) /\ Len(stack[t]) \in Nat
      /\ DOMAIN rest = 1 .. Len(rest) /\ Len(rest) \in Nat
  BY <1>1, LenProperties
<1>5. \A j \in DOMAIN rest : j + 1 \in DOMAIN stack[t] /\ rest[j] = stack[t][j + 1]
  BY <1>3, <1>4
<1>6. \A j \in DOMAIN stack[t] : (j = 1 /\ stack[t][j] \in {top}) \/ j - 1 \in DOMAIN rest
  BY <1>1, <1>3, <1>4
<1>7. stack' = [stack EXCEPT ![t] = fs \o rest]
  BY <1>1, <1>2 DEF Become
<1>8. \A k \in DOMAIN fs : Waiter(fs[k]) => k = Len(fs) /\ Len(rest) = 0
  <2>1. Waiter(top) => Len(stack[t]) = 1
    BY <1>1 DEF BottomInv
  <2> QED BY <1>3, <1>4, <2>1
<1> QED BY <1>5, <1>6, <1>7, <1>8, StackMoves

(* A thread that has none begins a call. *)
LEMMA PushMoves ==
  ASSUME TypeOK, BottomInv, NEW t \in Threads, stack[t] = <<>>,
         NEW fs \in Seq(Frames), stack' = [stack EXCEPT ![t] = fs], NEW come,
         \A f : f \in come <=> \E k \in DOMAIN fs : f = fs[k],
         \A k \in DOMAIN fs : Waiter(fs[k]) => k = Len(fs)
  PROVE  Moved({}, come) /\ BottomInv'
<1>1. PICK rest \in Seq(Frames) : rest = <<>>
  BY EmptySeq
<1>2. fs \o rest = fs /\ Len(rest) = 0 /\ DOMAIN rest = {} /\ DOMAIN stack[t] = {}
  BY <1>1, EmptySeq, ConcatEmptySeq
<1>3. PICK gone : gone = {}
  OBVIOUS
<1>4. \A j \in DOMAIN rest : j + 1 \in DOMAIN stack[t] /\ rest[j] = stack[t][j + 1]
  BY <1>2
<1>5. \A j \in DOMAIN stack[t] : (j = 1 /\ stack[t][j] \in gone) \/ j - 1 \in DOMAIN rest
  BY <1>2
<1>6. \A k \in DOMAIN fs : Waiter(fs[k]) => k = Len(fs) /\ Len(rest) = 0
  BY <1>2
<1>7. Moved(gone, come) /\ BottomInv'
  BY <1>2, <1>4, <1>5, <1>6, StackMoves
<1> QED BY <1>3, <1>7

LEMMA StackStays ==
  ASSUME UNCHANGED stack
  PROVE  Moved({}, {}) /\ (BottomInv => BottomInv')
BY DEF Moved, OnStack, BottomInv, Waiter

-----------------------------------------------------------------------------
(* A step that leaves the clients and the servers alone. *)

(***************************************************************************)
(* Whatever a frame that goes had to do is done, or left to one that comes. *)
(***************************************************************************)
Relieves(gone, come) ==
  /\ \A f \in come : f.fn \notin {"register", "send"}
  /\ \A f \in gone :
       /\ f.fn = "pop" =>
            (\E g \in come : g.fn = "pop" /\ g.m = f.m) \/ \A j \in Jobs' : conid[j] # f.m
       /\ f.fn \in {"register", "send", "cleanup"} =>
            f.m \notin Jobs' \/ \E g \in come : g.fn = "cleanup" /\ g.m = f.m
       /\ f.fn = "finish" \/ (f.fn = "callback" /\ f.rm) =>
            \/ f.m \notin Jobs' \/ kind[f.m] = "checkin" \/ cond'[f.m] = "1"
            \/ \E g \in come : g.fn = "finish" /\ g.m = f.m
       /\ f.fn \in {"send", "answer", "wait", "asleep"} =>
            \/ f.m \notin Jobs' \/ cond'[f.m] = "NULL"
            \/ \E g \in come : g.fn \in {"send", "answer", "wait", "asleep"} /\ g.m = f.m

(* A wait is only ended, by the reply or together with the job. *)
CondStep ==
  \A m \in Messages :
    cond'[m] = cond[m] \/ (cond[m] # "NULL" /\ (cond'[m] = "1" \/ m \notin Jobs'))

LEMMA PoppingStays ==
  ASSUME NEW gone, NEW come, Moved(gone, come), Relieves(gone, come), NEW c, Popping(c)
  PROVE  Popping(c)' \/ \A j \in Jobs' : conid[j] # c
<1>1. PICK f \in OnStack : f.fn = "pop" /\ f.m = c
  BY DEF Popping
<1>2. f \in gone \/ f \in OnStack'
  BY DEF Moved
<1> QED BY <1>1, <1>2 DEF Popping, Moved, Relieves

LEMMA UnsentStays ==
  ASSUME NEW gone, NEW come, Moved(gone, come), Relieves(gone, come), NEW j \in Jobs', Unsent(j)
  PROVE  Unsent(j)'
<1>1. PICK f \in OnStack : f.fn \in {"register", "send", "cleanup"} /\ f.m = j
  BY DEF Unsent
<1>2. f \in gone \/ f \in OnStack'
  BY DEF Moved
<1> QED BY <1>1, <1>2 DEF Unsent, Moved, Relieves

LEMMA ToldStays ==
  ASSUME NEW gone, NEW come, Moved(gone, come), Relieves(gone, come), NEW j \in Jobs', Told(j),
         kind[j] # "checkin"
  PROVE  Told(j)' \/ cond'[j] = "1"
<1>1. PICK f \in OnStack : (f.fn = "finish" \/ (f.fn = "callback" /\ f.rm)) /\ f.m = j
  BY DEF Told
<1>2. f \in gone \/ f \in OnStack'
  BY DEF Moved
<1> QED BY <1>1, <1>2 DEF Told, Moved, Relieves

LEMMA AwaitedStays ==
  ASSUME NEW gone, NEW come, Moved(gone, come), Relieves(gone, come), NEW j \in Jobs', Awaited(j),
         cond'[j] # "NULL"
  PROVE  Awaited(j)'
<1>1. PICK f \in OnStack : f.fn \in {"send", "answer", "wait", "asleep"} /\ f.m = j
  BY DEF Awaited
<1>2. f \in gone \/ f \in OnStack'
  BY DEF Moved
<1> QED BY <1>1, <1>2 DEF Awaited, Moved, Relieves

LEMMA QuietSettled ==
  ASSUME Inv, SettledInv, NEW gone, NEW come, Moved(gone, come), BottomInv', Relieves(gone, come),
         Jobs' \subseteq Jobs, CondStep, UNCHANGED <<Clients, conid, work, dead, wire, link, sock>>
  PROVE  SettledInv'
<1>1. Jobs \subseteq Messages /\ Jobs' \subseteq Messages
  BY DEF Inv, TypeOK, JobType
<1>2. RoutedInv'
  <2> SUFFICES ASSUME NEW f \in OnStack', f.fn \in {"register", "send"}, to[f.m] \notin dead
               PROVE  \/ Listed(f.m)'
                      \/ f.fn = "send" /\ (f.m \notin Jobs' \/ Popping(conid[f.m])')
    BY DEF RoutedInv
  <2>1. f \in OnStack
    BY DEF Moved, Relieves
  <2>2. Listed(f.m) => Listed(f.m)'
    BY DEF Listed
  <2>3. ASSUME f.m \in Jobs', Popping(conid[f.m])
        PROVE  Popping(conid[f.m])'
    <3>1. PICK c : c = conid[f.m]
      OBVIOUS
    <3>2. Popping(c)' \/ \A j \in Jobs' : conid[j] # c
      BY <2>3, <3>1, PoppingStays
    <3> QED BY <2>3, <3>1, <3>2 DEF Popping
  <2> QED BY <2>1, <2>2, <2>3 DEF SettledInv, RoutedInv
<1>3. SocketInv'
  BY DEF SettledInv, SocketInv
<1>4. WaitInv'
  BY <1>1, AwaitedStays DEF SettledInv, WaitInv, CondStep
<1>5. ASSUME NEW j \in Jobs'
      PROVE  Kept(j)'
  <2>1. j \in Jobs /\ j \in Messages /\ Kept(j)
    BY <1>1 DEF SettledInv, KeptInv
  <2>2. CASE Popping(conid[j])
    <3>1. PICK c : c = conid[j]
      OBVIOUS
    <3>2. Popping(c)' \/ \A i \in Jobs' : conid[i] # c
      BY <2>2, <3>1, PoppingStays
    <3> QED BY <3>1, <3>2 DEF Kept, Popping
  <2>3. CASE Unsent(j)
    BY <2>3, UnsentStays DEF Kept
  <2>4. CASE Listed(j) /\ Pending(j)
    <3>1. Listed(j)'
      BY <2>4 DEF Listed
    <3>2. Replied(j) => Replied(j)'
      BY DEF Replied
    <3>3. kind[j] # "checkin" /\ Told(j) => Told(j)' \/ cond'[j] = "1"
      BY ToldStays
    <3>4. cond[j] = "1" => cond'[j] = "1"
      BY <2>1 DEF CondStep
    <3>5. Pending(j)'
      BY <2>4, <3>2, <3>3, <3>4 DEF Pending
    <3> QED BY <3>1, <3>5 DEF Kept
  <2> QED BY <2>1, <2>2, <2>3, <2>4 DEF Kept
<1> QED BY <1>2, <1>3, <1>4, <1>5 DEF SettledInv, KeptInv

-----------------------------------------------------------------------------
(* The frames that come, one by one. *)

LEMMA BecomeNothing ==
  ASSUME TypeOK, BottomInv, NEW t \in Threads, NEW fn, At(t, fn), NEW top, top = Top(t),
         Become(t, <<>>)
  PROVE  Moved({top}, {}) /\ BottomInv'
<1>1. PICK fs \in Seq(Frames) : fs = <<>>
  BY EmptySeq
<1>2. DOMAIN fs = {} /\ Become(t, fs)
  BY <1>1
<1>3. PICK come : come = {}
  OBVIOUS
<1>4. \A x : x \in come <=> \E k \in DOMAIN fs : x = fs[k]
  BY <1>2, <1>3
<1>5. \A k \in DOMAIN fs : Waiter(fs[k]) => k = Len(fs) /\ Waiter(top)
  BY <1>2
<1>6. Moved({top}, come) /\ BottomInv'
  BY <1>2, <1>4, <1>5, BecomeMoves
<1> QED BY <1>3, <1>6

LEMMA BecomeOne ==
  ASSUME TypeOK, BottomInv, NEW t \in Threads, NEW fn, At(t, fn), NEW top, top = Top(t),
         NEW f \in Frames, Become(t, <<f>>), Waiter(f) => Waiter(top)
  PROVE  Moved({top}, {f}) /\ BottomInv'
<1>1. PICK fs \in Seq(Frames) : fs = <<f>>
  BY OneFrame
<1>2. DOMAIN fs = {1} /\ Len(fs) = 1 /\ fs[1] = f /\ Become(t, fs)
  BY <1>1
<1>3. PICK come : come = {f}
  OBVIOUS
<1>4. \A x : x \in come <=> \E k \in DOMAIN fs : x = fs[k]
  BY <1>2, <1>3
<1>5. \A k \in DOMAIN fs : Waiter(fs[k]) => k = Len(fs) /\ Waiter(top)
  BY <1>2
<1>6. Moved({top}, come) /\ BottomInv'
  BY <1>2, <1>4, <1>5, BecomeMoves
<1> QED BY <1>3, <1>6

LEMMA BecomeTwo ==
  ASSUME TypeOK, BottomInv, NEW t \in Threads, NEW fn, At(t, fn), NEW top, top = Top(t),
         NEW f \in Frames, NEW g \in Frames, Become(t, <<f, g>>),
         ~Waiter(f), Waiter(g) => Waiter(top)
  PROVE  Moved({top}, {f, g}) /\ BottomInv'
<1>1. PICK fs \in Seq(Frames) : fs = <<f, g>>
  BY ShortStacks
<1>2. DOMAIN fs = {1, 2} /\ Len(fs) = 2 /\ fs[1] = f /\ fs[2] = g
  BY <1>1
<1>3. PICK come : come = {f, g}
  OBVIOUS
<1>4. \A x : x \in come <=> \E k \in DOMAIN fs : x = fs[k]
  <2>1. \A x : (\E k \in DOMAIN fs : x = fs[k]) <=> x = fs[1] \/ x = fs[2]
    BY <1>2
  <2> QED BY <1>2, <1>3, <2>1
<1>5. \A k \in DOMAIN fs : Waiter(fs[k]) => k = Len(fs) /\ Waiter(top)
  BY <1>2
<1>6. Become(t, fs)
  BY <1>1
<1>7. Moved({top}, come) /\ BottomInv'
  BY <1>4, <1>5, <1>6, BecomeMoves
<1> QED BY <1>3, <1>7

LEMMA BecomeThree ==
  ASSUME TypeOK, BottomInv, NEW t \in Threads, NEW fn, At(t, fn), NEW top, top = Top(t),
         NEW f \in Frames, NEW g \in Frames, NEW h \in Frames, Become(t, <<f, g, h>>),
         ~Waiter(f), ~Waiter(g), ~Waiter(h)
  PROVE  Moved({top}, {f, g, h}) /\ BottomInv'
<1>1. PICK fs \in Seq(Frames) : fs = <<f, g, h>>
  BY ThreeFrames
<1>2. /\ DOMAIN fs = {1, 2, 3} /\ Len(fs) = 3
      /\ fs[1] = f /\ fs[2] = g /\ fs[3] = h
  BY <1>1
<1>3. PICK come : come = {f, g, h}
  OBVIOUS
<1>4. \A x : x \in come <=> \E k \in DOMAIN fs : x = fs[k]
  <2>1. \A x : (\E k \in DOMAIN fs : x = fs[k]) <=> x = fs[1] \/ x = fs[2] \/ x = fs[3]
    BY <1>2
  <2> QED BY <1>2, <1>3, <2>1
<1>5. \A k \in DOMAIN fs : Waiter(fs[k]) => k = Len(fs) /\ Waiter(top)
  BY <1>2
<1>6. Become(t, fs)
  BY <1>1
<1>7. Moved({top}, come) /\ BottomInv'
  BY <1>4, <1>5, <1>6, BecomeMoves
<1> QED BY <1>3, <1>7

(* The top frame. *)
LEMMA SettledTop ==
  ASSUME Inv, SettledInv, NEW t \in Threads, NEW fn, At(t, fn), NEW top, top = Top(t)
  PROVE  /\ TypeOK /\ BottomInv /\ top \in OnStack /\ top \in Frames /\ top.fn = fn
         /\ top.st \in States /\ (fn # "unlock" => top.m \in Messages /\ to[top.m] \in Servers)
<1>1. TypeOK /\ BottomInv
  BY DEF Inv, SettledInv
<1>2. top \in Frames /\ top.fn = fn /\ 1 \in DOMAIN stack[t] /\ top = stack[t][1]
  BY <1>1, TopType
<1> QED BY <1>1, <1>2, OnFrames, FrameFields, MessageType

-----------------------------------------------------------------------------
(* Step by step: the threads. *)

LEMMA freeSettled ==
  ASSUME Inv, SettledInv, NEW t \in Threads, free(t)
  PROVE  SettledInv'
<1>1. PICK top : top = Top(t)
  OBVIOUS
<1>2. Moved({top}, {}) /\ BottomInv' /\ top.fn = "free"
  BY <1>1, SettledTop, BecomeNothing DEF free
<1>3. UNCHANGED <<Jobs, cond, Clients, conid, work, dead, wire, link, sock>>
  BY DEF free, clientVars, serverVars
<1>4. Relieves({top}, {}) /\ CondStep
  BY <1>2, <1>3 DEF Relieves, CondStep
<1> QED BY <1>2, <1>3, <1>4, QuietSettled

LEMMA unlock_clientsSettled ==
  ASSUME Inv, SettledInv, NEW t \in Threads, unlock_clients(t)
  PROVE  SettledInv'
<1>1. PICK top : top = Top(t)
  OBVIOUS
<1>2. Moved({top}, {}) /\ BottomInv' /\ top.fn = "unlock"
  BY <1>1, SettledTop, BecomeNothing DEF unlock_clients
<1>3. UNCHANGED <<Jobs, cond, Clients, conid, work, dead, wire, link, sock>>
  BY DEF unlock_clients, jobVars, serverVars
<1>4. Relieves({top}, {}) /\ CondStep
  BY <1>2, <1>3 DEF Relieves, CondStep
<1> QED BY <1>2, <1>3, <1>4, QuietSettled

LEMMA Job_finishSettled ==
  ASSUME Inv, SettledInv, NEW t \in Threads, Job_finish(t)
  PROVE  SettledInv'
<1>1. PICK top, m : top = Top(t) /\ m = top.m
  OBVIOUS
<1>2. Moved({top}, {}) /\ BottomInv' /\ top.fn = "finish" /\ m \in Messages /\ TypeOK
  BY <1>1, SettledTop, BecomeNothing DEF Job_finish
<1>3. UNCHANGED <<Clients, conid, work, dead, wire, link, sock>> /\ Jobs' \subseteq Jobs
  BY DEF Job_finish, clientVars, serverVars
<1>4. CondStep /\ (m \notin Jobs' \/ cond'[m] = "1")
  BY <1>1, <1>2 DEF Job_finish, CondStep, TypeOK, JobType
<1>5. Relieves({top}, {})
  BY <1>1, <1>2, <1>4 DEF Relieves
<1> QED BY <1>2, <1>3, <1>4, <1>5, QuietSettled

LEMMA ServerWaitSettled ==
  ASSUME Inv, SettledInv, NEW t \in Threads, ServerWait(t)
  PROVE  SettledInv'
<1>1. PICK top, m : top = Top(t) /\ m = top.m
  OBVIOUS
<1>2. top.fn = "wait" /\ m \in Messages /\ TypeOK /\ BottomInv
  BY <1>1, SettledTop DEF ServerWait
<1>3. UNCHANGED <<Clients, conid, work, dead, wire, link, sock>> /\ Jobs' \subseteq Jobs
  BY DEF ServerWait, clientVars, serverVars
<1>4. CondStep
  BY <1>1, <1>2 DEF ServerWait, CondStep, TypeOK, JobType
<1>5. CASE Become(t, <<Call("asleep", m, "unset")>>)
  <2>1. PICK f : f = Call("asleep", m, "unset")
    OBVIOUS
  <2>2. f \in Frames /\ f.fn = "asleep" /\ f.m = m
    BY <1>2, <2>1, CallType DEF Fns, States
  <2>3. Moved({top}, {f}) /\ BottomInv'
    BY <1>1, <1>2, <1>5, <2>1, <2>2, BecomeOne DEF Waiter, ServerWait
  <2>4. Relieves({top}, {f})
    BY <1>1, <1>2, <2>2 DEF Relieves
  <2> QED BY <1>3, <1>4, <2>3, <2>4, QuietSettled
<1>6. CASE Become(t, <<>>) /\ (m \notin Jobs' \/ cond'[m] = "NULL")
  <2>1. Moved({top}, {}) /\ BottomInv'
    BY <1>1, <1>2, <1>6, BecomeNothing DEF ServerWait
  <2>2. Relieves({top}, {})
    BY <1>1, <1>2, <1>6 DEF Relieves
  <2> QED BY <1>3, <1>4, <2>1, <2>2, QuietSettled
<1>7. \/ Become(t, <<Call("asleep", m, "unset")>>)
      \/ Become(t, <<>>) /\ (m \notin Jobs' \/ cond'[m] = "NULL")
  BY <1>1 DEF ServerWait
<1> QED BY <1>5, <1>6, <1>7

LEMMA Job_wait_and_pop_lockedSettled ==
  ASSUME Inv, SettledInv, NEW t \in Threads, Job_wait_and_pop_locked(t)
  PROVE  SettledInv'
<1>1. PICK top, m : top = Top(t) /\ m = top.m
  OBVIOUS
<1>2. Moved({top}, {}) /\ BottomInv' /\ top.fn = "asleep" /\ m \in Messages /\ TypeOK
  BY <1>1, SettledTop, BecomeNothing DEF Job_wait_and_pop_locked
<1>3. UNCHANGED <<Clients, conid, work, dead, wire, link, sock>>
      /\ Jobs' \subseteq Jobs /\ m \notin Jobs'
  BY <1>1 DEF Job_wait_and_pop_locked, clientVars, serverVars
<1>4. CondStep
  BY <1>1, <1>2, <1>3 DEF Job_wait_and_pop_locked, CondStep, TypeOK, JobType
<1>5. Relieves({top}, {})
  BY <1>1, <1>2, <1>3 DEF Relieves
<1> QED BY <1>2, <1>3, <1>4, <1>5, QuietSettled

(* What remains of ServerSendMessage is to wait. *)
LEMMA AfterSendSettled ==
  ASSUME Inv, SettledInv, NEW t \in Threads, NEW fn \in {"answer", "connect"}, At(t, fn),
         Become(t, AfterSend(Top(t).m)),
         UNCHANGED <<Jobs, cond, Clients, conid, work, dead, wire, link, sock>>
  PROVE  SettledInv'
<1>1. PICK top, m : top = Top(t) /\ m = top.m
  OBVIOUS
<1>2. top.fn = fn /\ fn # "unlock" /\ m \in Messages /\ TypeOK /\ BottomInv
  BY <1>1, SettledTop
<1>3. CondStep
  BY DEF CondStep
<1>4. CASE kind[m] = "wait"
  <2>1. PICK f : f = Call("wait", m, "unset")
    OBVIOUS
  <2>2. f \in Frames /\ f.fn = "wait" /\ f.m = m
    BY <1>2, <2>1, CallType DEF Fns, States
  <2>3. Become(t, <<f>>)
    BY <1>1, <1>4, <2>1 DEF AfterSend
  <2>4. Waiter(top)
    BY <1>1, <1>2, <1>4 DEF Waiter
  <2>5. Moved({top}, {f}) /\ BottomInv'
    BY <1>1, <1>2, <2>2, <2>3, <2>4, BecomeOne
  <2>6. Relieves({top}, {f})
    BY <1>1, <1>2, <2>2 DEF Relieves
  <2> QED BY <1>3, <2>5, <2>6, QuietSettled
<1>5. CASE kind[m] # "wait"
  <2>1. Become(t, <<>>)
    BY <1>1, <1>5 DEF AfterSend
  <2>2. Moved({top}, {}) /\ BottomInv'
    BY <1>1, <1>2, <2>1, BecomeNothing
  <2>3. cond'[m] = "NULL"
    BY <1>2, <1>5 DEF SettledInv, WaitInv
  <2>4. Relieves({top}, {})
    BY <1>1, <1>2, <2>3 DEF Relieves
  <2> QED BY <1>3, <2>2, <2>4, QuietSettled
<1> QED BY <1>4, <1>5

(* A send or a handshake that fails is cleaned up after. *)
LEMMA FailedSettled ==
  ASSUME Inv, SettledInv, NEW t \in Threads, NEW fn \in {"send", "answer"}, At(t, fn),
         NEW st \in States, Become(t, <<Call("cleanup", Top(t).m, st)>> \o AfterSend(Top(t).m)),
         UNCHANGED <<Jobs, cond, Clients, conid, work, dead, wire, link, sock>>
  PROVE  SettledInv'
<1>1. PICK top, m : top = Top(t) /\ m = top.m
  OBVIOUS
<1>2. top.fn = fn /\ fn # "unlock" /\ m \in Messages /\ TypeOK /\ BottomInv
  BY <1>1, SettledTop
<1>3. CondStep
  BY DEF CondStep
<1>4. PICK f, g : f = Call("cleanup", m, st) /\ g = Call("wait", m, "unset")
  OBVIOUS
<1>5. f \in Frames /\ f.fn = "cleanup" /\ f.m = m /\ g \in Frames /\ g.fn = "wait" /\ g.m = m
  BY <1>2, <1>4, CallType DEF Fns, States
<1>6. ~Waiter(f)
  BY <1>5 DEF Waiter
<1>7. CASE kind[m] = "wait"
  <2>1. Become(t, <<f, g>>)
    <3>1. Become(t, <<f>> \o <<g>>)
      BY <1>1, <1>4, <1>7 DEF AfterSend
    <3> QED BY <1>5, <3>1, TwoFrames
  <2>2. Waiter(top)
    BY <1>1, <1>2, <1>7 DEF Waiter
  <2>3. Moved({top}, {f, g}) /\ BottomInv'
    BY <1>1, <1>2, <1>5, <1>6, <2>1, <2>2, BecomeTwo
  <2>4. Relieves({top}, {f, g})
    BY <1>1, <1>2, <1>5 DEF Relieves
  <2> QED BY <1>3, <2>3, <2>4, QuietSettled
<1>8. CASE kind[m] # "wait"
  <2>1. Become(t, <<f>>)
    <3>1. Become(t, <<f>> \o <<>>) /\ <<f>> \in Seq(Frames)
      BY <1>1, <1>4, <1>5, <1>8 DEF AfterSend
    <3> QED BY <3>1, ConcatEmptySeq
  <2>2. Moved({top}, {f}) /\ BottomInv'
    BY <1>1, <1>2, <1>5, <1>6, <2>1, BecomeOne
  <2>3. cond'[m] = "NULL"
    BY <1>2, <1>8 DEF SettledInv, WaitInv
  <2>4. Relieves({top}, {f})
    BY <1>1, <1>2, <1>5, <2>3 DEF Relieves
  <2> QED BY <1>3, <2>2, <2>4, QuietSettled
<1> QED BY <1>7, <1>8

LEMMA GetAnswerInfoTSSettled ==
  ASSUME Inv, SettledInv, NEW t \in Threads, GetAnswerInfoTS(t)
  PROVE  SettledInv'
<1>1. PICK top, m : top = Top(t) /\ m = top.m
  OBVIOUS
<1>2. At(t, "answer") /\ top.fn = "answer" /\ m \in Messages /\ TypeOK /\ BottomInv
  BY <1>1, SettledTop DEF GetAnswerInfoTS
<1>3. UNCHANGED <<Jobs, cond, Clients, conid, work, dead, wire, link, sock>>
  BY DEF GetAnswerInfoTS, jobVars, clientVars, serverVars
<1>4. CASE Become(t, AfterSend(m))
  BY <1>1, <1>2, <1>3, <1>4, AfterSendSettled
<1>5. CASE Become(t, <<Call("cleanup", m, "down")>> \o AfterSend(m))
  BY <1>1, <1>2, <1>3, <1>5, FailedSettled DEF States
<1>6. CASE kind[m] = "stop" /\ Become(t, <<Call("cleanup", m, "ok")>>)
  <2>1. AfterSend(m) = <<>> /\ <<Call("cleanup", m, "ok")>> \in Seq(Frames)
    BY <1>2, <1>6, CallType, OneFrame DEF AfterSend, Fns, States
  <2>2. Become(t, <<Call("cleanup", m, "ok")>> \o AfterSend(m))
    BY <1>6, <2>1, ConcatEmptySeq
  <2> QED BY <1>1, <1>2, <1>3, <2>2, FailedSettled DEF States
<1> QED BY <1>1, <1>4, <1>5, <1>6 DEF GetAnswerInfoTS

(* A job is taken off the list and called back, and the loop goes on. *)
LEMMA PoppedSettled ==
  ASSUME Inv, SettledInv, NEW t \in Threads, NEW fn \in {"cleanup", "pop"}, At(t, fn),
         NEW j \in Jobs, NEW st \in States, NEW h \in Frames, h.fn = "pop",
         Become(t, <<Done(j, st, FALSE), Call("free", j, st), h>>),
         Jobs' = Jobs \ {j}, fn = "cleanup" => Top(t).m = j, fn = "pop" => h = Top(t),
         UNCHANGED <<cond, Clients, conid, work, dead, wire, link, sock>>
  PROVE  SettledInv'
<1>1. PICK top : top = Top(t)
  OBVIOUS
<1>2. top.fn = fn /\ TypeOK /\ BottomInv /\ j \in Messages
  BY <1>1, SettledTop DEF TypeOK, JobType
<1>3. CondStep
  BY DEF CondStep
<1>4. PICK f, g : f = Done(j, st, FALSE) /\ g = Call("free", j, st)
  OBVIOUS
<1>5. f \in Frames /\ f.fn = "callback" /\ g \in Frames /\ g.fn = "free"
  BY <1>2, <1>4, CallType, DoneType DEF Fns
<1>6. ~Waiter(f) /\ ~Waiter(g) /\ ~Waiter(h)
  BY <1>5 DEF Waiter
<1>7. Moved({top}, {f, g, h}) /\ BottomInv'
  BY <1>1, <1>2, <1>4, <1>5, <1>6, BecomeThree
<1>8. Relieves({top}, {f, g, h})
  BY <1>1, <1>2, <1>5 DEF Relieves
<1> QED BY <1>3, <1>7, <1>8, QuietSettled

LEMMA Job_cleanupSettled ==
  ASSUME Inv, SettledInv, NEW t \in Threads, Job_cleanup(t)
  PROVE  SettledInv'
<1>1. PICK top, m, st : top = Top(t) /\ m = top.m /\ st = top.st
  OBVIOUS
<1>2. At(t, "cleanup") /\ top.fn = "cleanup" /\ m \in Messages /\ st \in States /\ TypeOK /\ BottomInv
  BY <1>1, SettledTop DEF Job_cleanup
<1>3. UNCHANGED <<cond, Clients, conid, work, dead, wire, link, sock>>
  BY DEF Job_cleanup, serverVars
<1>4. CASE m \notin Jobs /\ Become(t, <<>>) /\ Jobs' = Jobs
  <2>1. Moved({top}, {}) /\ BottomInv'
    BY <1>1, <1>2, <1>4, BecomeNothing
  <2>2. Relieves({top}, {}) /\ CondStep
    BY <1>1, <1>2, <1>3, <1>4 DEF Relieves, CondStep
  <2> QED BY <1>3, <1>4, <2>1, <2>2, QuietSettled
<1>5. CASE /\ m \in Jobs /\ Jobs' = Jobs \ {m}
           /\ Become(t, <<Done(m, st, FALSE), Call("free", m, st), Call("pop", conid[m], st)>>)
  <2>1. conid[m] \in Messages
    BY <1>2, <1>5 DEF Inv, JobInv, TypeOK, ClientType
  <2>2. PICK h \in Frames : h = Call("pop", conid[m], st) /\ h.fn = "pop"
    BY <1>2, <2>1, CallType DEF Fns
  <2> QED BY <1>1, <1>2, <1>3, <1>5, <2>2, PoppedSettled
<1> QED BY <1>1, <1>4, <1>5 DEF Job_cleanup

LEMMA Job_pop_by_conidSettled ==
  ASSUME Inv, SettledInv, NEW t \in Threads, Job_pop_by_conid(t)
  PROVE  SettledInv'
<1>1. PICK top, st : top = Top(t) /\ st = top.st
  OBVIOUS
<1>2. At(t, "pop") /\ top.fn = "pop" /\ top \in Frames /\ st \in States /\ TypeOK /\ BottomInv
  BY <1>1, SettledTop DEF Job_pop_by_conid
<1>3. UNCHANGED <<cond, Clients, conid, work, dead, wire, link, sock>>
  BY DEF Job_pop_by_conid, clientVars, serverVars
<1>4. CASE {j \in Jobs : conid[j] = top.m} = {} /\ Become(t, <<>>) /\ Jobs' = Jobs
  <2>1. Moved({top}, {}) /\ BottomInv'
    BY <1>1, <1>2, <1>4, BecomeNothing
  <2>2. Relieves({top}, {}) /\ CondStep
    BY <1>1, <1>2, <1>3, <1>4 DEF Relieves, CondStep
  <2> QED BY <1>3, <1>4, <2>1, <2>2, QuietSettled
<1>5. ASSUME NEW j \in Jobs, Jobs' = Jobs \ {j},
             Become(t, <<Done(j, st, FALSE), Call("free", j, st), top>>)
      PROVE  SettledInv'
  BY <1>1, <1>2, <1>3, <1>5, PoppedSettled
<1> QED BY <1>1, <1>4, <1>5 DEF Job_pop_by_conid

(* The message a callback sends is not waited for in the callback. *)
CallsBack(m, told, come) ==
  /\ \A f \in come : f.fn \in {"connect", "finish"}
  /\ told # <<>> => \E g \in come : g.fn = "finish" /\ g.m = m

LEMMA CallbackMoves ==
  ASSUME Ordinary, TypeOK, BottomInv, NEW t \in Threads, NEW fn, At(t, fn), NEW top, top = Top(t),
         NEW m \in Messages, NEW sent, sent = <<>> \/ sent = CallbackSends(m),
         NEW told, told = <<>> \/ told = <<Call("finish", m, "unset")>>, Become(t, sent \o told)
  PROVE  BottomInv' /\ \E come : Moved({top}, come) /\ CallsBack(m, told, come)
<1>1. PICK f, g : f = Call("connect", next[m], "unset") /\ g = Call("finish", m, "unset")
  OBVIOUS
<1>2. g \in Frames /\ g.fn = "finish" /\ g.m = m /\ ~Waiter(g)
  BY <1>1, CallType DEF Fns, States, Waiter
<1>3. next[m] \in todo => f \in Frames /\ f.fn = "connect" /\ ~Waiter(f)
  <2> SUFFICES ASSUME next[m] \in todo
               PROVE  f \in Frames /\ f.fn = "connect" /\ ~Waiter(f)
    OBVIOUS
  <2>1. next[m] \in Messages /\ next[m] # None
    BY MessageType DEF TypeOK, ProgramType
  <2>2. f \in Frames /\ f.fn = "connect" /\ f.m = next[m]
    BY <1>1, <2>1, CallType DEF Fns, States
  <2> QED BY <2>1, <2>2 DEF Ordinary, Waiter
<1>4. CASE sent = <<>>
  <2>1. CASE told = <<g>>
    <3>1. Become(t, <<>> \o <<g>>) /\ <<g>> \in Seq(Frames)
      BY <1>2, <1>4, <2>1, OneFrame
    <3>2. Become(t, <<g>>)
      BY <3>1, ConcatEmptySeq
    <3>3. Moved({top}, {g}) /\ BottomInv'
      BY <1>2, <3>2, BecomeOne
    <3> QED BY <1>2, <3>3 DEF CallsBack
  <2>2. CASE told = <<>>
    <3>1. Become(t, <<>> \o <<>>) /\ <<>> \in Seq(Frames)
      BY <1>4, <2>2, EmptySeq
    <3>2. Become(t, <<>>)
      BY <3>1, ConcatEmptySeq
    <3>3. Moved({top}, {}) /\ BottomInv'
      BY <3>2, BecomeNothing
    <3> QED BY <2>2, <3>3 DEF CallsBack
  <2> QED BY <1>1, <2>1, <2>2
<1>5. CASE sent = <<f>> /\ next[m] \in todo
  <2>1. CASE told = <<g>>
    <3>1. Become(t, <<f>> \o <<g>>)
      BY <1>5, <2>1
    <3>2. Become(t, <<f, g>>)
      BY <1>2, <1>3, <1>5, <3>1, TwoFrames
    <3>3. Moved({top}, {f, g}) /\ BottomInv'
      BY <1>2, <1>3, <1>5, <3>2, BecomeTwo
    <3> QED BY <1>2, <1>3, <1>5, <3>3 DEF CallsBack
  <2>2. CASE told = <<>>
    <3>1. Become(t, <<f>> \o <<>>) /\ <<f>> \in Seq(Frames)
      BY <1>3, <1>5, <2>2, OneFrame
    <3>2. Become(t, <<f>>)
      BY <3>1, ConcatEmptySeq
    <3>3. Moved({top}, {f}) /\ BottomInv'
      BY <1>3, <1>5, <3>2, BecomeOne
    <3> QED BY <1>3, <1>5, <2>2, <3>3 DEF CallsBack
  <2> QED BY <1>1, <2>1, <2>2
<1> QED BY <1>1, <1>4, <1>5 DEF CallbackSends

LEMMA Job_callback_doneSettled ==
  ASSUME Ordinary, Inv, SettledInv, NEW t \in Threads, Job_callback_done(t)
  PROVE  SettledInv'
<1>1. PICK top, m : top = Top(t) /\ m = top.m
  OBVIOUS
<1>2. /\ At(t, "callback") /\ top.fn = "callback" /\ m \in Messages
      /\ TypeOK /\ BottomInv /\ top \in Frames
  BY <1>1, SettledTop DEF Job_callback_done
<1>3. UNCHANGED <<Jobs, cond, Clients, conid, work, dead, wire, link, sock>>
  BY DEF Job_callback_done, clientVars, serverVars
<1>4. PICK sent, told :
        /\ sent = <<>> \/ sent = CallbackSends(m)
        /\ told = <<>> \/ told = <<Call("finish", m, "unset")>>
        /\ Become(t, sent \o told)
        /\ top.rm /\ m # MonJob => told # <<>>
  <2>1. PICK sent : sent = IF m \in armed THEN CallbackSends(m) ELSE <<>>
    OBVIOUS
  <2>2. PICK told :
          told = IF top.rm /\ ~(m = MonJob) THEN <<Call("finish", m, "unset")>> ELSE <<>>
    OBVIOUS
  <2>3. Become(t, sent \o told)
    BY <1>1, <2>1, <2>2 DEF Job_callback_done
  <2>4. top.rm /\ m # MonJob => told # <<>>
    BY <2>2
  <2> QED BY <2>1, <2>2, <2>3, <2>4
<1>5. BottomInv' /\ \E come : Moved({top}, come) /\ CallsBack(m, told, come)
  BY <1>1, <1>2, <1>4, CallbackMoves
<1>6. top.rm => told # <<>> \/ kind[m] = "checkin"
  BY <1>2, <1>4, MessageType DEF Inv, JobInv
<1>7. PICK come : Moved({top}, come) /\ CallsBack(m, told, come)
  BY <1>5
<1>8. Relieves({top}, come) /\ CondStep
  BY <1>1, <1>2, <1>3, <1>6, <1>7 DEF Relieves, CondStep, CallsBack
<1> QED BY <1>3, <1>5, <1>7, <1>8, QuietSettled

LEMMA Job_callback_beforeSettled ==
  ASSUME Inv, SettledInv, Job_callback_before
  PROVE  SettledInv'
<1>1. PICK top : top = Top(receiver)
  OBVIOUS
<1>2. Moved({top}, {}) /\ BottomInv' /\ top.fn = "before"
  BY <1>1, SettledTop, BecomeNothing DEF Job_callback_before, Threads
<1>3. UNCHANGED <<Jobs, cond, Clients, conid, work, dead, wire, link, sock>>
  BY DEF Job_callback_before, jobVars, clientVars, serverVars
<1>4. Relieves({top}, {}) /\ CondStep
  BY <1>2, <1>3 DEF Relieves, CondStep
<1> QED BY <1>2, <1>3, <1>4, QuietSettled

-----------------------------------------------------------------------------
(* Step by step: a message on its way to its server. *)

LEMMA OnInv ==
  ASSUME Inv, NEW f \in OnStack
  PROVE  /\ f \in Frames /\ FrameInv(f)
         /\ f.fn # "unlock" => f.m \in Messages /\ to[f.m] \in Servers
<1>1. PICK t \in Threads : \E k \in DOMAIN stack[t] : f = stack[t][k]
  BY OnFrames
<1>2. PICK k \in DOMAIN stack[t] : f = stack[t][k]
  BY <1>1
<1>3. stack[t] \in Seq(Frames)
  BY DEF Inv, TypeOK, StackType
<1>4. f \in Frames
  BY <1>2, <1>3, ElementOfSeq, LenProperties
<1>5. FrameInv(f)
  BY <1>2 DEF Inv, StackInv
<1> QED BY <1>4, <1>5, FrameFields, MessageType

(* A frame that goes has nothing to do with a job. *)
LEMMA IdleFrames ==
  ASSUME NEW gone, NEW come, Moved(gone, come), \A f \in gone : f.fn \in {"connect", "message"}
  PROVE  /\ \A c : Popping(c) => Popping(c)'
         /\ \A j : Unsent(j) => Unsent(j)'
         /\ \A j : Told(j) => Told(j)'
         /\ \A j : Awaited(j) => Awaited(j)'
BY DEF Moved, Popping, Unsent, Told, Awaited

LEMMA ConnectedSettled ==
  ASSUME Inv, SettledInv, KeepsClients, NEW t \in Threads, At(t, "connect"),
         NEW m \in Messages, m = Top(t).m, NEW s \in Servers, s = to[m],
         Become(t, <<Call("register", m, "unset")>>),
         NEW c \in Messages, conid' = [conid EXCEPT ![m] = c], Clients'[s] = c,
         \A r \in Servers : r # s \/ s \in dead => Clients'[r] = Clients[r],
         UNCHANGED <<Jobs, cond, work, dead, wire, link, sock>>
  PROVE  SettledInv'
<1>1. PICK top, f : top = Top(t) /\ f = Call("register", m, "unset")
  OBVIOUS
<1>2. /\ top.fn = "connect" /\ TypeOK /\ BottomInv /\ m \notin Jobs
      /\ f \in Frames /\ f.fn = "register" /\ f.m = m
      /\ conid \in [Messages -> Messages \cup {None}] /\ Jobs \subseteq Messages
  <2>1. top.fn = "connect" /\ TypeOK /\ BottomInv /\ top \in OnStack
    BY <1>1, SettledTop
  <2>2. m \notin Jobs
    BY <1>1, <2>1, OnInv DEF FrameInv, Token, Inv, JobInv
  <2> QED BY <1>1, <2>1, <2>2, CallType DEF Fns, States, TypeOK, ClientType, JobType
<1>3. Moved({top}, {f}) /\ BottomInv'
  BY <1>1, <1>2, BecomeOne DEF Waiter
<1>4. /\ \A x : Popping(x) => Popping(x)'
      /\ \A j : Unsent(j) => Unsent(j)'
      /\ \A j : Told(j) => Told(j)'
      /\ \A j : Awaited(j) => Awaited(j)'
  <2>1. PICK gone : gone = {top}
    OBVIOUS
  <2>2. \A g \in gone : g.fn \in {"connect", "message"}
    BY <1>2, <2>1
  <2> QED BY <1>3, <2>1, <2>2, IdleFrames
<1>5. Listed(m)'
  BY <1>2 DEF Listed
<1>6. \A n \in Messages \ {m} : conid'[n] = conid[n]
  BY <1>2
<1>7. ASSUME NEW n \in Messages \ {m}, to[n] \in Servers, Listed(n), conid[n] # None
      PROVE  \/ Listed(n)'
             \/ /\ to[n] = s /\ s \notin dead
                /\ Clients[s] # None /\ Clients'[s] # Clients[s] /\ conid[n] = Clients[s]
  BY <1>6, <1>7 DEF Listed
<1>8. ASSUME NEW n \in Jobs, Listed(n)
      PROVE  Listed(n)'
  <2>1. n \in Messages \ {m} /\ conid[n] # None /\ to[n] \in Servers
    BY <1>2, MessageType DEF Inv, JobInv
  <2>2. Clients'[s] # None
    BY MessageType
  <2> QED BY <1>7, <1>8, <2>1, <2>2 DEF KeepsClients
<1>9. ASSUME NEW g \in OnStack, g.fn = "register", g.m # m, Listed(g.m)
      PROVE  Listed(g.m)'
  <2>1. g.m \in Messages \ {m} /\ conid[g.m] # None /\ to[g.m] \in Servers
    BY <1>9, OnInv DEF FrameInv
  <2> QED BY <1>7, <1>9, <2>1 DEF KeepsClients
<1>10. RoutedInv'
  <2> SUFFICES ASSUME NEW g \in OnStack', g.fn \in {"register", "send"}, to[g.m] \notin dead
               PROVE  \/ Listed(g.m)'
                      \/ g.fn = "send" /\ (g.m \notin Jobs' \/ Popping(conid[g.m])')
    BY DEF RoutedInv
  <2>1. CASE g.m = m
    BY <1>5, <2>1
  <2>2. CASE g.m # m
    <3>1. g \in OnStack
      BY <1>2, <1>3, <2>2 DEF Moved
    <3>2. g.m \in Messages \ {m}
      BY <2>2, <3>1, OnInv
    <3>3. Popping(conid[g.m]) => Popping(conid[g.m])'
      <4>1. PICK x : x = conid[g.m]
        OBVIOUS
      <4>2. conid'[g.m] = x
        BY <1>6, <3>2, <4>1
      <4> QED BY <1>4, <4>1, <4>2 DEF Popping
    <3>4. \/ Listed(g.m)
          \/ g.fn = "send" /\ (g.m \notin Jobs \/ Popping(conid[g.m]))
      BY <3>1 DEF SettledInv, RoutedInv
    <3> QED BY <1>8, <1>9, <2>2, <3>1, <3>3, <3>4
  <2> QED BY <2>1, <2>2
<1>11. SocketInv' /\ WaitInv'
  BY <1>4 DEF SettledInv, SocketInv, WaitInv
<1>12. ASSUME NEW j \in Jobs'
       PROVE  Kept(j)'
  <2>1. j \in Jobs /\ j \in Messages \ {m} /\ Kept(j)
    BY <1>2 DEF SettledInv, KeptInv
  <2>2. Popping(conid[j]) => Popping(conid[j])'
    <3>1. PICK x : x = conid[j]
      OBVIOUS
    <3>2. conid'[j] = x
      BY <1>6, <2>1, <3>1
    <3> QED BY <1>4, <3>1, <3>2 DEF Popping
  <2>3. Pending(j) => Pending(j)'
    BY <1>4 DEF Pending, Replied
  <2> QED BY <1>4, <1>8, <2>1, <2>2, <2>3 DEF Kept
<1> QED BY <1>3, <1>10, <1>11, <1>12 DEF SettledInv, KeptInv

LEMMA server_connectSettled ==
  ASSUME Ordinary, Inv, SettledInv, KeepsClients, NEW t \in Threads, server_connect(t)
  PROVE  SettledInv'
<1>1. PICK top, m, s : top = Top(t) /\ m = top.m /\ s = to[m]
  OBVIOUS
<1>2. /\ At(t, "connect") /\ top.fn = "connect" /\ m \in Messages /\ s \in Servers
      /\ TypeOK /\ BottomInv /\ Clients \in [Servers -> Messages \cup {None}]
  BY <1>1, SettledTop DEF server_connect, TypeOK, ClientType
<1>3. UNCHANGED <<Jobs, cond, work, dead, wire, link, sock>>
  BY DEF server_connect, serverVars
<1>4. CASE Become(t, <<Call("register", m, "unset")>>) /\ Clients[s] \in Messages
           /\ conid' = [conid EXCEPT ![m] = Clients[s]] /\ Clients' = Clients
  <2>1. PICK c \in Messages : c = Clients[s]
    BY <1>4
  <2> QED BY <1>1, <1>2, <1>3, <1>4, <2>1, ConnectedSettled
<1>5. CASE Become(t, <<Call("register", m, "unset")>>) /\ s \notin dead
           /\ conid' = [conid EXCEPT ![m] = m] /\ Clients' = [Clients EXCEPT ![s] = m]
  <2>1. Clients'[s] = m /\ \A r \in Servers : r # s \/ s \in dead => Clients'[r] = Clients[r]
    BY <1>2, <1>5
  <2> QED BY <1>1, <1>2, <1>3, <1>5, <2>1, ConnectedSettled
<1>6. CASE Become(t, CallbackSends(m)) /\ UNCHANGED <<Clients, conid>>
  <2>1. CallbackSends(m) \in Seq(Frames)
    <3>1. next[m] \in todo => Call("connect", next[m], "unset") \in Frames
      BY <1>2, CallType DEF TypeOK, ProgramType, Fns, States
    <3> QED BY <3>1, OneFrame, EmptySeq DEF CallbackSends
  <2>2. Become(t, CallbackSends(m) \o <<>>)
    BY <1>6, <2>1, ConcatEmptySeq
  <2>3. BottomInv' /\ \E come : Moved({top}, come) /\ CallsBack(m, <<>>, come)
    BY <1>1, <1>2, <2>2, CallbackMoves
  <2>4. PICK come : Moved({top}, come) /\ CallsBack(m, <<>>, come)
    BY <2>3
  <2>5. Relieves({top}, come) /\ CondStep
    BY <1>2, <1>3, <2>4 DEF Relieves, CondStep, CallsBack
  <2> QED BY <1>3, <1>6, <2>3, <2>4, <2>5, QuietSettled
<1>7. CASE Become(t, AfterSend(m)) /\ UNCHANGED <<Clients, conid>>
  BY <1>1, <1>2, <1>3, <1>7, AfterSendSettled
<1>8. \/ /\ HasSocket(t, Clients[s])
         /\ conid' = [conid EXCEPT ![m] = Clients[s]]
         /\ Become(t, <<Call("register", m, "unset")>>)
         /\ Clients' = Clients
      \/ /\ s \notin dead
         /\ conid' = [conid EXCEPT ![m] = m]
         /\ Clients' = [Clients EXCEPT ![s] = m]
         /\ Become(t, <<Call("register", m, "unset")>>)
      \/ Become(t, CallbackSends(m)) /\ UNCHANGED <<Clients, conid>>
      \/ Become(t, AfterSend(m)) /\ UNCHANGED <<Clients, conid>>
  BY <1>1 DEF server_connect
<1>9. HasSocket(t, Clients[s]) => Clients[s] \in Messages
  BY <1>2 DEF HasSocket
<1> QED BY <1>4, <1>5, <1>6, <1>7, <1>8, <1>9

LEMMA Job_registerSettled ==
  ASSUME Inv, SettledInv, NEW t \in Threads, Job_register(t)
  PROVE  SettledInv'
<1>1. PICK top, m, f : top = Top(t) /\ m = top.m /\ f = Call("send", m, "unset")
  OBVIOUS
<1>2. /\ At(t, "register") /\ top.fn = "register" /\ m \in Messages /\ TypeOK /\ BottomInv
      /\ top \in OnStack
  BY <1>1, SettledTop DEF Job_register
<1>3. f \in Frames /\ f.fn = "send" /\ f.m = m
  BY <1>1, <1>2, CallType DEF Fns, States
<1>4. Moved({top}, {f}) /\ BottomInv'
  <2>1. Become(t, <<f>>)
    BY <1>1 DEF Job_register
  <2>2. Waiter(f) => Waiter(top)
    BY <1>1, <1>2, <1>3 DEF Waiter
  <2> QED BY <1>1, <1>2, <1>3, <2>1, <2>2, BecomeOne
<1>5. UNCHANGED <<Clients, conid, work, dead, wire, link, sock>> /\ Jobs' = Jobs \cup {m}
  BY <1>1 DEF Job_register, clientVars, serverVars
<1>6. \A n \in Messages : cond'[n] = IF n # m THEN cond[n] ELSE IF kind[m] = "wait" THEN "0" ELSE "NULL"
  BY <1>1, <1>2 DEF Job_register, TypeOK, JobType
<1>7. /\ f \in OnStack' /\ Unsent(m)' /\ Awaited(m)'
      /\ \A c : Popping(c) => Popping(c)'
      /\ \A j : j # m /\ Unsent(j) => Unsent(j)'
      /\ \A j : Told(j) => Told(j)'
      /\ \A j : Awaited(j) => Awaited(j)'
  BY <1>1, <1>2, <1>3, <1>4 DEF Moved, Popping, Unsent, Told, Awaited
<1>8. RoutedInv'
  <2> SUFFICES ASSUME NEW g \in OnStack', g.fn \in {"register", "send"}, to[g.m] \notin dead
               PROVE  \/ Listed(g.m)'
                      \/ g.fn = "send" /\ (g.m \notin Jobs' \/ Popping(conid[g.m])')
    BY <1>5 DEF RoutedInv
  <2>1. Listed(g.m) => Listed(g.m)'
    BY <1>5 DEF Listed
  <2>2. Popping(conid[g.m]) => Popping(conid[g.m])'
    BY <1>5, <1>7 DEF Popping
  <2>3. to[m] \notin dead => Listed(m)
    BY <1>1, <1>2 DEF SettledInv, RoutedInv
  <2>4. g = f \/ g \in OnStack
    BY <1>4 DEF Moved
  <2> QED BY <1>3, <1>5, <2>1, <2>2, <2>3, <2>4 DEF SettledInv, RoutedInv
<1>9. SocketInv'
  BY <1>5 DEF SettledInv, SocketInv
<1>10. WaitInv'
  BY <1>2, <1>5, <1>6, <1>7 DEF SettledInv, WaitInv, Inv, TypeOK, JobType
<1>11. ASSUME NEW j \in Jobs'
       PROVE  Kept(j)'
  <2>1. CASE j = m
    BY <1>7, <2>1 DEF Kept
  <2>2. CASE j # m
    <3>1. j \in Jobs /\ j \in Messages /\ Kept(j)
      BY <1>2, <1>5, <2>2 DEF SettledInv, KeptInv, TypeOK, JobType
    <3>2. cond'[j] = cond[j]
      BY <1>6, <2>2, <3>1
    <3>3. Popping(conid[j]) => Popping(conid[j])'
      BY <1>5, <1>7 DEF Popping
    <3>4. Pending(j) => Pending(j)'
      BY <1>5, <1>7, <3>2 DEF Pending, Replied
    <3>5. Listed(j) => Listed(j)'
      BY <1>5 DEF Listed
    <3> QED BY <1>7, <2>2, <3>1, <3>3, <3>4, <3>5 DEF Kept
  <2> QED BY <2>1, <2>2
<1> QED BY <1>4, <1>8, <1>9, <1>10, <1>11 DEF SettledInv, KeptInv

LEMMA SendArgSettled ==
  ASSUME Inv, SettledInv, NEW t \in Threads, SendArg(t)
  PROVE  SettledInv'
<1>1. PICK top, m, s : top = Top(t) /\ m = top.m /\ s = to[m]
  OBVIOUS
<1>2. /\ At(t, "send") /\ top.fn = "send" /\ m \in Messages /\ s \in Servers
      /\ TypeOK /\ BottomInv /\ top \in OnStack /\ work \in [Servers -> SUBSET Messages]
  BY <1>1, SettledTop DEF SendArg, TypeOK, ServerType
<1>3. UNCHANGED <<Jobs, cond, Clients, conid, wire, link, sock>>
  BY DEF SendArg, jobVars, clientVars
<1>4. CASE Become(t, <<Call("cleanup", m, "down")>> \o AfterSend(m)) /\ UNCHANGED <<dead, work>>
  BY <1>1, <1>2, <1>3, <1>4, FailedSettled DEF States
<1>5. CASE /\ s \notin dead /\ Become(t, <<Call("answer", m, "unset")>>)
           /\ \/ dead' = dead \cup {s} /\ work' = [work EXCEPT ![s] = {}]
              \/ dead' = dead /\ work' = [work EXCEPT ![s] = @ \cup {m}]
  <2>1. PICK f \in Frames : f = Call("answer", m, "unset") /\ f.fn = "answer" /\ f.m = m
    BY <1>2, CallType DEF Fns, States
  <2>2. Moved({top}, {f}) /\ BottomInv'
    <3>1. Waiter(f) => Waiter(top)
      BY <1>1, <1>2, <2>1 DEF Waiter
    <3> QED BY <1>1, <1>2, <1>5, <2>1, <3>1, BecomeOne
  <2>3. /\ Awaited(m)'
        /\ \A c : Popping(c) => Popping(c)'
        /\ \A j : j # m /\ Unsent(j) => Unsent(j)'
        /\ \A j : Told(j) => Told(j)'
        /\ \A j : j # m /\ Awaited(j) => Awaited(j)'
        /\ \A g \in OnStack' : g.fn \in {"register", "send"} => g \in OnStack
    BY <1>1, <1>2, <2>1, <2>2 DEF Moved, Popping, Unsent, Told, Awaited
  <2>4. dead \subseteq dead' /\ (s \in dead' \/ m \in work'[s])
        /\ \A r \in Servers : r \in dead' \/ work[r] \subseteq work'[r]
    BY <1>2, <1>5
  <2>5. RoutedInv'
    <3> SUFFICES ASSUME NEW g \in OnStack', g.fn \in {"register", "send"}, to[g.m] \notin dead'
                 PROVE  \/ Listed(g.m)'
                        \/ g.fn = "send" /\ (g.m \notin Jobs' \/ Popping(conid[g.m])')
      BY DEF RoutedInv
    <3>1. Listed(g.m) => Listed(g.m)'
      BY <1>3 DEF Listed
    <3>2. Popping(conid[g.m]) => Popping(conid[g.m])'
      BY <1>3, <2>3 DEF Popping
    <3>3. g \in OnStack /\ to[g.m] \notin dead
      BY <2>3, <2>4
    <3> QED BY <1>3, <3>1, <3>2, <3>3 DEF SettledInv, RoutedInv
  <2>6. SocketInv'
    BY <1>3 DEF SettledInv, SocketInv
  <2>7. WaitInv'
    BY <1>3, <2>3 DEF SettledInv, WaitInv
  <2>8. ASSUME NEW j \in Jobs'
        PROVE  Kept(j)'
    <3>1. j \in Jobs /\ j \in Messages /\ to[j] \in Servers /\ Kept(j)
      BY <1>2, <1>3, MessageType DEF SettledInv, KeptInv, TypeOK, JobType
    <3>2. Popping(conid[j]) => Popping(conid[j])'
      BY <1>3, <2>3 DEF Popping
    <3>3. Listed(j) => Listed(j)'
      BY <1>3 DEF Listed
    <3>4. Pending(j) => Pending(j)'
      BY <1>3, <2>3, <2>4, <3>1 DEF Pending, Replied
    <3>5. CASE j = m
      <4>1. Listed(m) \/ Popping(conid[m])
        BY <1>1, <1>2, <1>3, <1>5, <3>5 DEF SettledInv, RoutedInv
      <4>2. Pending(m)'
        BY <1>1, <2>4 DEF Pending
      <4> QED BY <3>2, <3>3, <3>5, <4>1, <4>2 DEF Kept
    <3>6. CASE j # m
      BY <2>3, <3>1, <3>2, <3>3, <3>4, <3>6 DEF Kept
    <3> QED BY <3>5, <3>6
  <2> QED BY <2>2, <2>5, <2>6, <2>7, <2>8 DEF SettledInv, KeptInv
<1> QED BY <1>1, <1>4, <1>5 DEF SendArg

-----------------------------------------------------------------------------
(* Step by step: the clients and the receiver. *)

(* A client is taken off the list, and its jobs are going to be popped. *)
LEMMA RemovedSettled ==
  ASSUME Inv, SettledInv, KeepsClients, NEW gone, NEW come, Moved(gone, come), BottomInv',
         \A f \in gone : f.fn \in {"connect", "message"},
         \A f \in come : f.fn \notin {"register", "send"},
         NEW t \in Threads, NEW s \in Servers, Clients[s] # None,
         \E f \in come : f.fn = "pop" /\ f.m = Clients[s],
         Client_free(t, s), Client_pop_locked(s), UNCHANGED <<Jobs, cond, conid, work, dead>>
  PROVE  SettledInv'
<1>1. /\ Clients \in [Servers -> Messages \cup {None}] /\ sock \in [Servers -> Servers \cup {None}]
      /\ link \in [Servers -> {"none", "backlog", "open", "closed"}]
      /\ wire \in [Servers -> Seq(Msgs)] /\ Jobs \subseteq Messages
  BY DEF Inv, TypeOK, ClientType, ServerType, JobType
<1>2. PICK c : c = Clients[s]
  OBVIOUS
<1>3. /\ \A x : Popping(x) => Popping(x)'
      /\ \A j : Unsent(j) => Unsent(j)'
      /\ \A j : Told(j) => Told(j)'
      /\ \A j : Awaited(j) => Awaited(j)'
  BY IdleFrames
<1>4. Popping(c)'
  BY <1>2 DEF Moved, Popping
<1>5. /\ \A r \in Servers : Clients'[r] = IF r = s THEN None ELSE Clients[r]
      /\ \A r \in Servers : sock'[r] = IF r = s THEN None ELSE sock[r]
  BY <1>1 DEF Client_pop_locked
<1>6. /\ \A r \in Servers \ {s} : link'[r] = link[r] /\ wire'[r] = wire[r]
      /\ \/ link'[s] = link[s] /\ wire'[s] = wire[s]
         \/ link'[s] = "closed" /\ wire'[s] = <<>>
  <2>1. sock[s] # None => sock[s] = s
    BY DEF SettledInv, SocketInv
  <2> QED BY <1>1, <2>1 DEF Client_free
<1>7. ASSUME NEW n \in Messages, to[n] \in Servers, Listed(n)
      PROVE  \/ Listed(n)' /\ to[n] # s
             \/ conid[n] = c /\ to[n] = s
  <2>1. CASE to[n] = s
    BY <1>2, <1>7, <2>1 DEF Listed
  <2>2. CASE to[n] # s
    <3>1. Clients'[to[n]] = Clients[to[n]]
      BY <1>5, <1>7, <2>2
    <3>2. conid'[n] = conid[n]
      OBVIOUS
    <3> QED BY <1>7, <2>2, <3>1, <3>2 DEF Listed
  <2> QED BY <2>1, <2>2
<1>8. RoutedInv'
  <2> SUFFICES ASSUME NEW g \in OnStack', g.fn \in {"register", "send"}, to[g.m] \notin dead
               PROVE  \/ Listed(g.m)'
                      \/ g.fn = "send" /\ (g.m \notin Jobs' \/ Popping(conid[g.m])')
    BY DEF RoutedInv
  <2>1. g \in OnStack /\ g.m \in Messages /\ to[g.m] \in Servers
    <3>1. g \in OnStack
      BY DEF Moved
    <3> QED BY <3>1, OnInv
  <2>2. CASE Listed(g.m)
    <3>1. conid[g.m] = c /\ to[g.m] = s => g.fn = "send"
      BY <1>2, <1>5, <2>1 DEF KeepsClients
    <3>2. conid[g.m] = c => Popping(conid[g.m])'
      BY <1>4 DEF Popping
    <3> QED BY <1>7, <2>1, <2>2, <3>1, <3>2
  <2>3. CASE ~Listed(g.m)
    <3>1. g.fn = "send" /\ (g.m \notin Jobs \/ Popping(conid[g.m]))
      BY <2>1, <2>3 DEF SettledInv, RoutedInv
    <3>2. Popping(conid[g.m]) => Popping(conid[g.m])'
      BY <1>3 DEF Popping
    <3> QED BY <3>1, <3>2
  <2> QED BY <2>2, <2>3
<1>9. SocketInv'
  BY <1>5, <1>6 DEF SettledInv, SocketInv
<1>10. WaitInv'
  BY <1>3 DEF SettledInv, WaitInv
<1>11. ASSUME NEW j \in Jobs'
       PROVE  Kept(j)'
  <2>1. j \in Jobs /\ j \in Messages /\ to[j] \in Servers /\ Kept(j)
    BY <1>1, MessageType DEF SettledInv, KeptInv
  <2>2. Popping(conid[j]) => Popping(conid[j])'
    BY <1>3 DEF Popping
  <2>3. conid[j] = c => Popping(conid[j])'
    BY <1>4 DEF Popping
  <2>4. to[j] # s /\ Pending(j) => Pending(j)'
    BY <1>3, <1>6, <2>1 DEF Pending, Replied
  <2> QED BY <1>3, <1>7, <2>1, <2>2, <2>3, <2>4 DEF Kept
<1> QED BY <1>8, <1>9, <1>10, <1>11 DEF SettledInv, KeptInv

LEMMA ServerDisconnectSettled ==
  ASSUME Inv, SettledInv, KeepsClients, NEW t \in Threads, NEW s \in Servers, ServerDisconnect(t, s)
  PROVE  SettledInv'
<1>1. /\ TypeOK /\ BottomInv /\ Clients[s] \in Messages /\ Clients[s] # None /\ stack[t] = <<>>
  BY DEF ServerDisconnect, Inv, SettledInv, TypeOK, ClientType
<1>2. PICK f, g : f = Call("pop", Clients[s], "down") /\ g = Call("unlock", None, "unset")
  OBVIOUS
<1>3. f \in Frames /\ f.fn = "pop" /\ f.m = Clients[s] /\ g \in Frames /\ g.fn = "unlock"
  BY <1>1, <1>2, CallType, UnlockType DEF Fns, States
<1>4. PICK fs \in Seq(Frames) : fs = <<f, g>>
  BY <1>3, ShortStacks
<1>5. DOMAIN fs = {1, 2} /\ Len(fs) = 2 /\ fs[1] = f /\ fs[2] = g
  BY <1>4
<1>6. PICK come : come = {f, g}
  OBVIOUS
<1>7. \A x : x \in come <=> \E k \in DOMAIN fs : x = fs[k]
  <2>1. \A x : (\E k \in DOMAIN fs : x = fs[k]) <=> x = fs[1] \/ x = fs[2]
    BY <1>5
  <2> QED BY <1>5, <1>6, <2>1
<1>8. \A k \in DOMAIN fs : Waiter(fs[k]) => k = Len(fs)
  BY <1>3, <1>5 DEF Waiter
<1>9. stack' = [stack EXCEPT ![t] = fs]
  BY <1>2, <1>4 DEF ServerDisconnect
<1>10. PICK gone : gone = {} /\ Moved(gone, come) /\ BottomInv'
  BY <1>1, <1>7, <1>8, <1>9, PushMoves
<1>11. \A x \in come : x.fn \notin {"register", "send"}
  BY <1>3, <1>6
<1>12. \E x \in come : x.fn = "pop" /\ x.m = Clients[s]
  BY <1>3, <1>6
<1>13. Client_free(t, s) /\ Client_pop_locked(s) /\ UNCHANGED <<Jobs, cond, conid, work, dead>>
  BY DEF ServerDisconnect, jobVars
<1>14. \A x \in gone : x.fn \in {"connect", "message"}
  BY <1>10
<1> QED BY <1>1, <1>10, <1>11, <1>12, <1>13, <1>14, RemovedSettled

(* The reply to a job is taken off the wire by the thread that pops the job. *)
LEMMA DeliveredSettled ==
  ASSUME Inv, SettledInv, NEW gone, NEW come, Moved(gone, come), BottomInv',
         \A f \in gone : f.fn \in {"connect", "message"},
         \A f \in come : f.fn \notin {"register", "send"},
         NEW s \in Servers, wire[s] # <<>>, wire' = [wire EXCEPT ![s] = Tail(@)],
         \A j \in Jobs : Head(wire[s]) = [type |-> "FINISHED", m |-> j] => Told(j)',
         sock[s] # None,
         UNCHANGED <<Jobs, cond, Clients, conid, work, dead, link, sock>>
  PROVE  SettledInv'
<1>1. wire \in [Servers -> Seq(Msgs)] /\ Jobs \subseteq Messages
  BY DEF Inv, TypeOK, ServerType, JobType
<1>2. /\ \A x : Popping(x) => Popping(x)'
      /\ \A j : Unsent(j) => Unsent(j)'
      /\ \A j : Told(j) => Told(j)'
      /\ \A j : Awaited(j) => Awaited(j)'
  BY IdleFrames
<1>3. \A r \in Servers \ {s} : wire'[r] = wire[r]
  BY <1>1
<1>4. ASSUME NEW j \in Jobs, to[j] \in Servers, Replied(j)
      PROVE  Replied(j)' \/ Told(j)'
  <2>1. CASE to[j] # s
    BY <1>3, <1>4, <2>1 DEF Replied
  <2>2. CASE to[j] = s
    <3>1. PICK i \in DOMAIN wire[s] : wire[s][i] = [type |-> "FINISHED", m |-> j]
      BY <1>4, <2>2 DEF Replied
    <3>2. PICK w \in Seq(Msgs) : w = wire[s] /\ w # <<>>
      BY <1>1
    <3>3. PICK tail \in Seq(Msgs) : tail = Tail(w)
      BY <3>2, HeadTailProperties
    <3>4. /\ Head(w) = w[1] /\ Len(tail) = Len(w) - 1
          /\ \A k \in 1 .. Len(tail) : tail[k] = w[k + 1]
          /\ DOMAIN tail = 1 .. Len(tail) /\ DOMAIN w = 1 .. Len(w) /\ Len(w) \in Nat
      BY <3>2, <3>3, HeadTailProperties, LenProperties
    <3>5. CASE i = 1
      BY <3>1, <3>2, <3>4, <3>5
    <3>6. CASE i # 1
      <4>1. i - 1 \in DOMAIN tail /\ tail[i - 1] = w[i]
        BY <3>1, <3>2, <3>4, <3>6
      <4>2. wire'[s] = tail
        BY <1>1, <3>2, <3>3
      <4> QED BY <2>2, <3>1, <3>2, <4>1, <4>2 DEF Replied
    <3> QED BY <3>5, <3>6
  <2> QED BY <2>1, <2>2
<1>5. RoutedInv'
  <2> SUFFICES ASSUME NEW g \in OnStack', g.fn \in {"register", "send"}, to[g.m] \notin dead
               PROVE  \/ Listed(g.m)'
                      \/ g.fn = "send" /\ (g.m \notin Jobs' \/ Popping(conid[g.m])')
    BY DEF RoutedInv
  <2>1. g \in OnStack
    BY DEF Moved
  <2>2. Popping(conid[g.m]) => Popping(conid[g.m])'
    BY <1>2 DEF Popping
  <2>3. Listed(g.m) => Listed(g.m)'
    BY DEF Listed
  <2> QED BY <2>1, <2>2, <2>3 DEF SettledInv, RoutedInv
<1>6. SocketInv'
  BY <1>3 DEF SettledInv, SocketInv
<1>7. WaitInv'
  BY <1>2 DEF SettledInv, WaitInv
<1>8. ASSUME NEW j \in Jobs'
      PROVE  Kept(j)'
  <2>1. j \in Jobs /\ to[j] \in Servers /\ Kept(j)
    BY <1>1, MessageType DEF SettledInv, KeptInv
  <2>2. Popping(conid[j]) => Popping(conid[j])'
    BY <1>2 DEF Popping
  <2>3. Listed(j) => Listed(j)'
    BY DEF Listed
  <2>4. Pending(j) => Pending(j)'
    BY <1>2, <1>4, <2>1 DEF Pending
  <2> QED BY <1>2, <2>1, <2>2, <2>3, <2>4 DEF Kept
<1> QED BY <1>5, <1>6, <1>7, <1>8 DEF SettledInv, KeptInv

LEMMA Client_do_messageSettled ==
  ASSUME Inv, SettledInv, KeepsClients, Client_do_message
  PROVE  SettledInv'
<1>1. PICK top, c, s : top = Top(receiver) /\ c = top.s /\ s = sock[c]
  OBVIOUS
<1>2. /\ At(receiver, "message") /\ receiver \in Threads /\ top.fn = "message"
      /\ TypeOK /\ BottomInv /\ top \in OnStack
  BY <1>1, SettledTop DEF Client_do_message, Threads
<1>3. c \in Servers /\ Clients[c] \in Messages \cup {None} /\ (s # None => s = c)
  <2>1. c \in Servers
    BY <1>1, <1>2, OnInv DEF FrameInv
  <2> QED BY <1>1, <1>2, <2>1 DEF TypeOK, ClientType, SettledInv, SocketInv
<1>4. UNCHANGED <<Jobs, cond, conid, work, dead>>
  BY DEF Client_do_message, jobVars, clientVars
<1>5. PICK gone : gone = {top}
  OBVIOUS
<1>6. \A f \in gone : f.fn \in {"connect", "message"}
  BY <1>2, <1>5
<1>7. CASE Become(receiver, <<>>) /\ UNCHANGED <<wire, link, clientVars>>
  <2>1. Moved({top}, {}) /\ BottomInv'
    BY <1>1, <1>2, <1>7, BecomeNothing
  <2>2. Relieves({top}, {}) /\ CondStep
    BY <1>2, <1>4 DEF Relieves, CondStep
  <2>3. UNCHANGED <<Clients, sock, wire, link>>
    BY <1>7 DEF clientVars
  <2> QED BY <1>4, <2>1, <2>2, <2>3, QuietSettled
<1>8. CASE /\ s # None /\ wire[s] # <<>>
           /\ wire' = [wire EXCEPT ![s] = Tail(@)]
           /\ Become(receiver, Deliver(Head(wire[s])))
           /\ UNCHANGED <<link, clientVars>>
  <2>1. PICK w \in Msgs : w = Head(wire[s])
    BY <1>2, <1>3, <1>8, HeadTailProperties DEF TypeOK, ServerType
  <2>2. PICK m \in Messages \cup {None} : m = Recipient(w.m)
    BY <1>2 DEF Recipient, TypeOK, JobType
  <2>3. UNCHANGED <<Clients, sock>>
    BY <1>8 DEF clientVars
  <2>4. ASSUME NEW come, Moved(gone, come), BottomInv',
               \A f \in come : f.fn \notin {"register", "send"},
               \A j \in Jobs : w = [type |-> "FINISHED", m |-> j] => Told(j)'
        PROVE  SettledInv'
    <3>1. sock[s] # None /\ s \in Servers
      BY <1>1, <1>3, <1>8
    <3> QED BY <1>4, <1>6, <1>8, <2>1, <2>3, <2>4, <3>1, DeliveredSettled
  <2>5. ASSUME NEW j \in Jobs, w = [type |-> "FINISHED", m |-> j]
        PROVE  m = j /\ m # None /\ w.type \notin {"STARTING", "CHECKEDIN"}
    <3>1. j \in Messages /\ j # None
      BY <1>2, MessageType DEF TypeOK, JobType
    <3> QED BY <2>2, <2>5, <3>1 DEF Recipient
  <2>6. CASE m = None \/ w.type = "CHECKEDIN"
    <3>1. Become(receiver, <<>>)
      BY <1>8, <2>1, <2>2, <2>6 DEF Deliver
    <3>2. Moved({top}, {}) /\ BottomInv'
      BY <1>1, <1>2, <3>1, BecomeNothing
    <3>3. PICK come : come = {} /\ Moved(gone, come)
      BY <1>5, <3>2
    <3> QED BY <2>4, <2>5, <2>6, <3>2, <3>3
  <2>7. CASE m # None /\ w.type = "STARTING"
    <3>1. PICK f \in Frames : f = Call("before", m, "unset") /\ f.fn = "before"
      BY <2>7, CallType DEF Fns, States
    <3>2. Become(receiver, <<f>>)
      BY <1>8, <2>1, <2>2, <2>7, <3>1 DEF Deliver
    <3>3. ~Waiter(f)
      BY <3>1 DEF Waiter
    <3>4. Moved({top}, {f}) /\ BottomInv'
      BY <1>1, <1>2, <3>2, <3>3, BecomeOne
    <3>5. PICK come : come = {f} /\ Moved(gone, come)
      BY <1>5, <3>4
    <3> QED BY <2>4, <2>5, <2>7, <3>1, <3>4, <3>5
  <2>8. CASE m # None /\ w.type \notin {"STARTING", "CHECKEDIN"}
    <3>1. PICK f \in Frames : f = Done(m, "ok", TRUE) /\ f.fn = "callback"
      BY <2>8, DoneType DEF States
    <3>2. Become(receiver, <<f>>)
      BY <1>8, <2>1, <2>2, <2>8, <3>1 DEF Deliver
    <3>3. ~Waiter(f)
      BY <3>1 DEF Waiter
    <3>4. Moved({top}, {f}) /\ BottomInv'
      BY <1>1, <1>2, <3>2, <3>3, BecomeOne
    <3>5. PICK come : come = {f} /\ Moved(gone, come)
      BY <1>5, <3>4
    <3>6. f.rm /\ f.m = m
      BY <3>1 DEF Done, Call
    <3>7. Told(m)'
      BY <3>1, <3>4, <3>6 DEF Told, Moved
    <3>8. \A j \in Jobs : w = [type |-> "FINISHED", m |-> j] => Told(j)'
      BY <2>5, <3>7
    <3>9. \A x \in come : x.fn \notin {"register", "send"}
      BY <3>1, <3>5
    <3> QED BY <2>4, <3>4, <3>5, <3>8, <3>9
  <2> QED BY <2>6, <2>7, <2>8
<1>9. CASE /\ Clients[c] # None
           /\ Client_free(receiver, c) /\ Client_pop_locked(c)
           /\ Become(receiver, <<Call("pop", Clients[c], "down")>>)
  <2>1. PICK f \in Frames : f = Call("pop", Clients[c], "down") /\ f.fn = "pop" /\ f.m = Clients[c]
    BY <1>3, <1>9, CallType DEF Fns, States
  <2>2. Moved({top}, {f}) /\ BottomInv'
    <3>1. ~Waiter(f)
      BY <2>1 DEF Waiter
    <3> QED BY <1>1, <1>2, <1>9, <2>1, <3>1, BecomeOne
  <2>3. PICK come : come = {f} /\ Moved(gone, come)
    BY <1>5, <2>2
  <2>4. /\ \A x \in come : x.fn \notin {"register", "send"}
        /\ \E x \in come : x.fn = "pop" /\ x.m = Clients[c]
    BY <2>1, <2>3
  <2> QED BY <1>2, <1>3, <1>4, <1>6, <1>9, <2>2, <2>3, <2>4, RemovedSettled
<1> QED BY <1>1, <1>7, <1>8, <1>9 DEF Client_do_message

(* A thread begins a call. *)
LEMMA PushSettled ==
  ASSUME Inv, SettledInv, NEW t \in Threads, stack[t] = <<>>,
         NEW fs \in Seq(Frames), stack' = [stack EXCEPT ![t] = fs],
         \A k \in DOMAIN fs : fs[k].fn \notin {"register", "send"} /\ (Waiter(fs[k]) => k = Len(fs)),
         UNCHANGED <<Jobs, cond, Clients, conid, work, dead, wire, link, sock>>
  PROVE  SettledInv'
<1>1. PICK come : come = {fs[k] : k \in DOMAIN fs}
  OBVIOUS
<1>2. \A f : f \in come <=> \E k \in DOMAIN fs : f = fs[k]
  BY <1>1
<1>3. TypeOK /\ BottomInv
  BY DEF Inv, SettledInv
<1>4. PICK gone : gone = {} /\ Moved(gone, come) /\ BottomInv'
  BY <1>2, <1>3, PushMoves
<1>5. Relieves(gone, come) /\ CondStep
  BY <1>2, <1>4 DEF Relieves, CondStep
<1> QED BY <1>4, <1>5, QuietSettled

LEMMA ServerSendMessageSettled ==
  ASSUME Inv, SettledInv, NEW t \in Threads, NEW m \in Messages, ServerSendMessage(t, m)
  PROVE  SettledInv'
<1>1. PICK f \in Frames : f = Call("connect", m, "unset") /\ f.fn = "connect"
  BY CallType DEF Fns, States
<1>2. PICK fs \in Seq(Frames) : fs = <<f>>
  BY OneFrame
<1>3. DOMAIN fs = {1} /\ Len(fs) = 1 /\ fs[1] = f
  BY <1>2
<1>4. stack[t] = <<>> /\ stack' = [stack EXCEPT ![t] = fs]
  BY <1>1, <1>2 DEF ServerSendMessage
<1>5. UNCHANGED <<Jobs, cond, Clients, conid, work, dead, wire, link, sock>>
  BY DEF ServerSendMessage, jobVars, clientVars, serverVars
<1> QED BY <1>1, <1>3, <1>4, <1>5, PushSettled

LEMMA receiver_threadSettled ==
  ASSUME Inv, SettledInv, NEW c \in Servers, receiver_thread(c)
  PROVE  SettledInv'
<1>1. Clients[c] \in Messages /\ receiver \in Threads /\ stack[receiver] = <<>>
  BY DEF receiver_thread, Inv, TypeOK, ClientType, Threads
<1>2. PICK f \in Frames : f = [Call("message", Clients[c], "unset") EXCEPT !.s = c] /\ f.fn = "message"
  <2>1. PICK f : f = [Call("message", Clients[c], "unset") EXCEPT !.s = c]
    OBVIOUS
  <2>2. f \in Frames /\ f.fn = "message"
    BY <1>1, <2>1 DEF Frames, Fns, States, Call
  <2> QED BY <2>1, <2>2
<1>3. PICK fs \in Seq(Frames) : fs = <<f>>
  BY OneFrame
<1>4. DOMAIN fs = {1} /\ Len(fs) = 1 /\ fs[1] = f
  BY <1>3
<1>5. stack' = [stack EXCEPT ![receiver] = fs]
  BY <1>2, <1>3 DEF receiver_thread
<1>6. UNCHANGED <<Jobs, cond, Clients, conid, work, dead, wire, link, sock>>
  BY DEF receiver_thread, jobVars, serverVars
<1> QED BY <1>1, <1>2, <1>4, <1>5, <1>6, PushSettled

LEMMA reset_fdactiveSettled ==
  ASSUME Inv, SettledInv, reset_fdactive
  PROVE  SettledInv'
<1> DEFINE broken == {s \in Servers : Clients[s] # None /\ sock[s] = None}
           Loops == {f \in Frames : f.fn \in {"pop", "unlock"}}
<1>1. TypeOK /\ receiver \in Threads /\ stack[receiver] = <<>>
  BY DEF Inv, Threads, reset_fdactive
<1>2. UNCHANGED <<Jobs, cond, Clients, conid, work, dead, wire, link, sock>>
  BY DEF reset_fdactive, jobVars, serverVars
<1>3. CASE UNCHANGED stack
  <2>1. PICK none : none = {}
    OBVIOUS
  <2>2. Moved(none, none) /\ BottomInv'
    BY <1>3, <2>1, StackStays DEF SettledInv
  <2>3. Relieves(none, none) /\ CondStep
    BY <1>2, <2>1 DEF Relieves, CondStep
  <2> QED BY <1>2, <2>2, <2>3, QuietSettled
<1>4. ASSUME NEW order \in Orders(broken), stack' = [stack EXCEPT ![receiver] = Frees(order)]
      PROVE  SettledInv'
  <2>1. Cardinality(broken) \in Nat /\ order \in [1 .. Cardinality(broken) -> broken]
    BY MessageType, FS_Subset, FS_CardinalityType DEF Orders
  <2> DEFINE pops == [i \in DOMAIN order |-> Call("pop", Clients[order[i]], "down")]
  <2>2. ASSUME NEW i \in DOMAIN order
        PROVE  Call("pop", Clients[order[i]], "down") \in Loops
    <3>1. Clients[order[i]] \in Messages
      BY <1>1, <2>1 DEF TypeOK, ClientType
    <3> QED BY <3>1, CallType DEF Fns, States
  <2>3. pops \in [1 .. Cardinality(broken) -> Loops]
    BY <2>1, <2>2
  <2>4. pops \in Seq(Loops)
    BY <2>1, <2>3, SeqDef
  <2> HIDE DEF pops
  <2>5. Append(pops, Call("unlock", None, "unset")) \in Seq(Loops)
    BY <2>4, UnlockType, AppendProperties
  <2>6. PICK fs \in Seq(Loops) : fs = Frees(order)
    BY <2>5 DEF Frees, pops
  <2>7. fs \in Seq(Frames) /\ \A k \in DOMAIN fs : fs[k] \in Loops
    <3>1. Loops \subseteq Frames
      OBVIOUS
    <3> QED BY <2>6, <3>1, SeqMonotonic, ElementOfSeq, LenProperties
  <2>8. \A k \in DOMAIN fs : fs[k].fn \notin {"register", "send"} /\ (Waiter(fs[k]) => k = Len(fs))
    BY <2>7 DEF Waiter
  <2>9. stack' = [stack EXCEPT ![receiver] = fs]
    BY <1>4, <2>6
  <2> QED BY <1>1, <1>2, <2>7, <2>8, <2>9, PushSettled
<1> QED BY <1>3, <1>4 DEF reset_fdactive

(* Steps that touch neither the threads nor the jobs. *)
LEMMA OutsideSettled ==
  ASSUME Inv, SettledInv, UNCHANGED <<stack, Jobs, cond, Clients, conid>>, dead \subseteq dead',
         SocketInv',
         \A j \in Jobs : Listed(j) /\ to[j] \in Servers =>
           /\ j \in work[to[j]] =>
                \/ j \in work'[to[j]] \/ to[j] \in dead'
                \/ kind[j] # "checkin" /\ Replied(j)'
           /\ Replied(j) => Replied(j)'
  PROVE  SettledInv'
<1>1. OnStack' = OnStack
  BY DEF OnStack
<1>2. /\ \A x : Popping(x) => Popping(x)'
      /\ \A j : Unsent(j) => Unsent(j)'
      /\ \A j : Told(j) => Told(j)'
      /\ \A j : Awaited(j) => Awaited(j)'
  BY <1>1 DEF Popping, Unsent, Told, Awaited
<1>3. RoutedInv'
  <2> SUFFICES ASSUME NEW g \in OnStack', g.fn \in {"register", "send"}, to[g.m] \notin dead'
               PROVE  \/ Listed(g.m)'
                      \/ g.fn = "send" /\ (g.m \notin Jobs' \/ Popping(conid[g.m])')
    BY DEF RoutedInv
  <2>1. g \in OnStack /\ to[g.m] \notin dead
    BY <1>1
  <2>2. Popping(conid[g.m]) => Popping(conid[g.m])'
    BY <1>2 DEF Popping
  <2>3. Listed(g.m) => Listed(g.m)'
    BY DEF Listed
  <2> QED BY <2>1, <2>2, <2>3 DEF SettledInv, RoutedInv
<1>4. BottomInv'
  BY DEF SettledInv, BottomInv, Waiter
<1>5. WaitInv'
  BY <1>2 DEF SettledInv, WaitInv
<1>6. ASSUME NEW j \in Jobs'
      PROVE  Kept(j)'
  <2>1. j \in Jobs /\ to[j] \in Servers /\ Kept(j)
    BY MessageType DEF SettledInv, KeptInv, Inv, TypeOK, JobType
  <2>2. Popping(conid[j]) => Popping(conid[j])'
    BY <1>2 DEF Popping
  <2>3. Listed(j) => Listed(j)'
    BY DEF Listed
  <2>4. Listed(j) /\ Pending(j) => Pending(j)'
    BY <1>2, <2>1 DEF Pending
  <2> QED BY <1>2, <2>1, <2>2, <2>3, <2>4 DEF Kept
<1> QED BY <1>3, <1>4, <1>5, <1>6 DEF SettledInv, KeptInv

LEMMA accept_clientSettled ==
  ASSUME Ordinary, Inv, SettledInv, NEW s \in Servers, accept_client(s)
  PROVE  SettledInv'
<1>1. /\ Clients \in [Servers -> Messages \cup {None}] /\ sock \in [Servers -> Servers \cup {None}]
      /\ link \in [Servers -> {"none", "backlog", "open", "closed"}]
      /\ wire \in [Servers -> Seq(Msgs)] /\ Jobs \subseteq Messages
  BY DEF Inv, TypeOK, ClientType, ServerType, JobType
<1>2. UNCHANGED <<stack, Jobs, cond, Clients, conid, dead, work>>
  BY DEF accept_client, jobVars
<1>3. link[s] = "backlog" /\ (sock[s] = None)
  BY <1>1 DEF accept_client, SettledInv, SocketInv
<1>4. \A r \in Servers \ {s} : link'[r] = link[r] /\ wire'[r] = wire[r]
  BY <1>1 DEF accept_client
<1>5. \/ sock' = [sock EXCEPT ![s] = s] /\ link'[s] = "open" /\ wire' = wire
      \/ sock' = sock /\ link'[s] = "closed" /\ wire'[s] = <<>> /\ Clients[s] = None
  BY <1>1, <1>3, MessageType DEF accept_client, Ordinary
<1>6. SocketInv'
  BY <1>1, <1>3, <1>4, <1>5 DEF SettledInv, SocketInv
<1>7. ASSUME NEW j \in Jobs, Listed(j), to[j] \in Servers, Replied(j)
      PROVE  Replied(j)'
  <2>1. CASE to[j] = s
    <3>1. Clients[s] # None
      BY <1>7, <2>1 DEF Listed, Inv, JobInv
    <3> QED BY <1>5, <1>7, <2>1, <3>1 DEF Replied
  <2>2. CASE to[j] # s
    BY <1>4, <1>7, <2>2 DEF Replied
  <2> QED BY <2>1, <2>2
<1> QED BY <1>2, <1>6, <1>7, OutsideSettled

LEMMA select_timeoutSettled ==
  ASSUME Inv, SettledInv, select_timeout
  PROVE  SettledInv'
<1>1. UNCHANGED <<stack, Jobs, cond, Clients, conid, dead, work, link, wire, sock>>
  BY DEF select_timeout, jobVars, serverVars
<1>2. SocketInv'
  BY <1>1 DEF SettledInv, SocketInv
<1>3. \A j \in Jobs : Replied(j) => Replied(j)'
  BY <1>1 DEF Replied
<1> QED BY <1>1, <1>2, <1>3, OutsideSettled

-----------------------------------------------------------------------------
(* Step by step: the servers. *)

(* A reply is lost with the client, not on the wire. *)
LEMMA SendReplied ==
  ASSUME Inv, SettledInv, NEW s \in Servers, NEW type, NEW m, send_reply(s, type, m), UNCHANGED sock
  PROVE  /\ SocketInv'
         /\ \A j : to[j] \in Servers /\ Replied(j) => Replied(j)'
         /\ type = "FINISHED" /\ to[m] = s => Replied(m)'
<1>1. link \in [Servers -> {"none", "backlog", "open", "closed"}] /\ wire \in [Servers -> Seq(Msgs)]
  BY DEF Inv, TypeOK, ServerType
<1>2. PICK msg : msg = [type |-> type, m |-> m]
  OBVIOUS
<1>3. PICK w \in Seq(Msgs) : w = wire[s]
  BY <1>1
<1>4. /\ \A r \in Servers \ {s} : link'[r] = link[r] /\ wire'[r] = wire[r]
      /\ link'[s] = IF link[s] = "open" THEN "open" ELSE "backlog"
      /\ wire'[s] = IF link[s] \in {"none", "closed"} THEN <<msg>> ELSE Append(w, msg)
  BY <1>1, <1>2, <1>3 DEF send_reply
<1>5. SocketInv'
  BY <1>1, <1>4 DEF SettledInv, SocketInv
<1>6. /\ DOMAIN Append(w, msg) = 1 .. Len(w) + 1 /\ Append(w, msg)[Len(w) + 1] = msg
      /\ \A i \in DOMAIN w : i \in DOMAIN Append(w, msg) /\ Append(w, msg)[i] = w[i]
  BY <1>3
<1>7. \E i \in DOMAIN wire'[s] : wire'[s][i] = msg
  <2>1. CASE link[s] \in {"none", "closed"}
    <3>1. 1 \in DOMAIN <<msg>> /\ <<msg>>[1] = msg
      OBVIOUS
    <3> QED BY <1>4, <2>1, <3>1
  <2>2. CASE link[s] \notin {"none", "closed"}
    <3>1. Len(w) + 1 \in DOMAIN Append(w, msg)
      BY <1>3, <1>6
    <3> QED BY <1>4, <1>6, <2>2, <3>1
  <2> QED BY <2>1, <2>2
<1>8. ASSUME NEW j, to[j] \in Servers, Replied(j)
      PROVE  Replied(j)'
  <2>1. CASE to[j] # s
    BY <1>4, <1>8, <2>1 DEF Replied
  <2>2. CASE to[j] = s
    <3>1. PICK i \in DOMAIN w : w[i] = [type |-> "FINISHED", m |-> j]
      BY <1>3, <1>8, <2>2 DEF Replied
    <3>2. link[s] \notin {"none", "closed"}
      BY <1>3, <3>1 DEF SettledInv, SocketInv
    <3>3. i \in DOMAIN wire'[s] /\ wire'[s][i] = w[i]
      BY <1>4, <1>6, <3>2
    <3> QED BY <2>2, <3>1, <3>3 DEF Replied
  <2> QED BY <2>1, <2>2
<1> QED BY <1>2, <1>5, <1>7, <1>8 DEF Replied

LEMMA ServerSettled ==
  ASSUME Inv, SettledInv, NEW s \in Servers, ServerStep(s) \/ lost(s) \/ \E m \in Events : event(s, m)
  PROVE  SettledInv'
<1>1. UNCHANGED <<stack, Jobs, cond, Clients, conid, sock>>
  BY DEF ServerStep, begin, DoSrvMonitor, finish, lost, event, jobVars, clientVars
<1>2. work \in [Servers -> SUBSET Messages]
  BY DEF Inv, TypeOK, ServerType
<1>3. CASE UNCHANGED <<dead, work>> /\ \E type, m : send_reply(s, type, m)
  <2>1. SocketInv' /\ \A j : to[j] \in Servers /\ Replied(j) => Replied(j)'
    BY <1>1, <1>3, SendReplied
  <2> QED BY <1>1, <1>3, <2>1, OutsideSettled
<1>4. CASE UNCHANGED <<dead, work, link, wire>>
  <2>1. SocketInv' /\ \A j : Replied(j) => Replied(j)'
    BY <1>1, <1>4 DEF SettledInv, SocketInv, Replied
  <2> QED BY <1>1, <1>4, <2>1, OutsideSettled
<1>5. ASSUME NEW m \in Messages, finish(s, m)
      PROVE  SettledInv'
  <2>1. /\ UNCHANGED dead /\ kind[m] # "checkin" /\ send_reply(s, "FINISHED", m)
        /\ work' = [work EXCEPT ![s] = @ \ {m}]
    BY <1>5 DEF finish
  <2>2. /\ SocketInv' /\ \A j : to[j] \in Servers /\ Replied(j) => Replied(j)'
        /\ to[m] = s => Replied(m)'
    BY <1>1, <2>1, SendReplied
  <2>3. ASSUME NEW j \in Jobs, to[j] \in Servers, j \in work[to[j]]
        PROVE  j \in work'[to[j]] \/ (kind[j] # "checkin" /\ Replied(j)')
    BY <1>2, <2>1, <2>2, <2>3
  <2> QED BY <1>1, <2>1, <2>2, <2>3, OutsideSettled
<1>6. CASE lost(s)
  <2>1. dead' = dead \cup {s} /\ work' = [work EXCEPT ![s] = {}] /\ UNCHANGED <<link, wire>>
    BY <1>6 DEF lost
  <2>2. SocketInv' /\ \A j : Replied(j) => Replied(j)'
    BY <1>1, <2>1 DEF SettledInv, SocketInv, Replied
  <2>3. \A j \in Jobs : to[j] \in Servers /\ j \in work[to[j]] => j \in work'[to[j]] \/ to[j] \in dead'
    BY <1>2, <2>1
  <2> QED BY <1>1, <2>1, <2>2, <2>3, OutsideSettled
<1> QED BY <1>3, <1>4, <1>5, <1>6 DEF ServerStep, begin, DoSrvMonitor, event

-----------------------------------------------------------------------------
(* The theorem. *)

LEMMA NextSettled ==
  ASSUME Ordinary, Inv, SettledInv, [Next]_vars, [KeepsClients]_vars
  PROVE  SettledInv'
<1>1. CASE UNCHANGED vars
  <2>1. UNCHANGED <<stack, Jobs, cond, Clients, conid, dead, work, link, wire, sock>>
    BY <1>1 DEF vars
  <2>2. SocketInv' /\ \A j : Replied(j) => Replied(j)'
    BY <2>1 DEF SettledInv, SocketInv, Replied
  <2> QED BY <2>1, <2>2, OutsideSettled
<1> SUFFICES ASSUME Next, KeepsClients
             PROVE  SettledInv'
  BY <1>1
<1>2. ASSUME NEW t \in Senders
      PROVE  /\ \A m \in Messages : ServerSendMessage(t, m) => SettledInv'
             /\ \A s \in Servers : ServerDisconnect(t, s) => SettledInv'
             /\ Job_abandon_locked(t) => SettledInv'
  BY ServerSendMessageSettled, ServerDisconnectSettled DEF Threads, Job_abandon_locked, Ordinary
<1>3. ASSUME NEW t \in Threads, ThreadStep(t)
      PROVE  SettledInv'
  <2>1. CASE server_connect(t) \/ Job_register(t) \/ SendArg(t) \/ GetAnswerInfoTS(t)
    BY <2>1, server_connectSettled, Job_registerSettled, SendArgSettled, GetAnswerInfoTSSettled
  <2>2. CASE Job_cleanup(t) \/ Job_callback_done(t) \/ Job_finish(t) \/ free(t)
    BY <2>2, Job_cleanupSettled, Job_callback_doneSettled, Job_finishSettled, freeSettled
  <2>3. CASE Job_pop_by_conid(t) \/ ServerWait(t) \/ Job_wait_and_pop_locked(t) \/ unlock_clients(t)
    BY <2>3, Job_pop_by_conidSettled, ServerWaitSettled, Job_wait_and_pop_lockedSettled,
       unlock_clientsSettled
  <2> QED BY <1>3, <2>1, <2>2, <2>3 DEF ThreadStep
<1>4. ASSUME ReceiverStep
      PROVE  SettledInv'
  BY <1>4, accept_clientSettled, receiver_threadSettled, Client_do_messageSettled,
     Job_callback_beforeSettled, reset_fdactiveSettled, select_timeoutSettled DEF ReceiverStep
<1> QED BY <1>2, <1>3, <1>4, ServerSettled DEF Next

LEMMA InitSettled ==
  ASSUME Init
  PROVE  SettledInv
<1>1. OnStack = {}
  BY DEF Init, OnStack
<1>2. RoutedInv
  BY <1>1 DEF RoutedInv
<1>3. SocketInv /\ BottomInv /\ WaitInv /\ KeptInv
  BY DEF Init, SocketInv, BottomInv, WaitInv, KeptInv
<1> QED BY <1>2, <1>3 DEF SettledInv

(* Nobody is left who has anything to do but the servers. *)
LEMMA SettledHolds ==
  ASSUME Inv, SettledInv
  PROVE  Settled
<1> SUFFICES ASSUME \A t \in Threads : Idle(t),
                    \A s \in Servers : link[s] \notin {"backlog", "open"} \/ ~Readable(s),
                    NEW m \in Jobs
             PROVE  m \in work[to[m]] \/ Unnoticed(to[m])
  BY DEF Settled
<1>1. ASSUME NEW f \in OnStack
      PROVE  f.fn = "asleep" /\ cond[f.m] # "1"
  <2>1. PICK t \in Threads : \E k \in DOMAIN stack[t] : f = stack[t][k]
    BY OnFrames
  <2>2. PICK k \in DOMAIN stack[t] : f = stack[t][k]
    BY <2>1
  <2>3. stack[t] # <<>> /\ At(t, "asleep") /\ cond[Top(t).m] # "1" /\ TypeOK
    BY <2>2 DEF Idle, Inv
  <2>4. 1 \in DOMAIN stack[t] /\ Top(t) = stack[t][1] /\ Top(t).fn = "asleep"
        /\ stack[t] \in Seq(Frames)
    BY <2>3, TopType
  <2>5. Len(stack[t]) = 1
    BY <2>4 DEF SettledInv, BottomInv, Waiter
  <2>6. DOMAIN stack[t] = 1 .. Len(stack[t])
    BY <2>4, LenProperties
  <2>7. k = 1
    BY <2>2, <2>5, <2>6
  <2> QED BY <2>2, <2>3, <2>4, <2>7
<1>2. Listed(m) /\ Pending(m)
  BY <1>1 DEF SettledInv, KeptInv, Kept, Popping, Unsent
<1>3. /\ m \in Messages /\ to[m] \in Servers /\ conid[m] # None
      /\ link[to[m]] \in {"none", "backlog", "open", "closed"}
  BY MessageType DEF Inv, TypeOK, JobType, JobInv, ServerType
<1>4. CASE to[m] \in dead
  BY <1>2, <1>3, <1>4 DEF Readable, Unnoticed, Listed
<1>5. ~Replied(m)
  BY <1>3 DEF Replied, Readable, SettledInv, SocketInv
<1>6. ~Told(m)
  BY <1>1 DEF Told
<1>7. cond[m] # "1"
  BY <1>1 DEF SettledInv, WaitInv, Awaited
<1> QED BY <1>2, <1>4, <1>5, <1>6, <1>7 DEF Pending

(***************************************************************************)
(* When no thread and no socket has anything to do, every job left in the   *)
(* list is at work on its server, or its server went away before it opened  *)
(* a reply socket to the present client (Settled): no reply, failed         *)
(* handshake, lost server or ServerDisconnect leaves a job behind, as long  *)
(* as clients are kept while messages are on their way (ClientsKept),       *)
(* threads in ServerWait are not cancelled, servers have addresses of their *)
(* own and callbacks do not wait (Ordinary).                                *)
(***************************************************************************)
THEOREM NoJobForgotten ==
  ASSUME Ordinary
  PROVE  Spec /\ ClientsKept => []Settled
<1>1. Init => SettledInv
  BY InitSettled
<1>2. Inv /\ SettledInv /\ [Next]_vars /\ [KeepsClients]_vars => SettledInv'
  BY NextSettled
<1>3. Inv /\ SettledInv => Settled
  BY SettledHolds
<1> QED BY <1>1, <1>2, <1>3, InvHolds, PTL DEF Spec, ClientsKept
================================================================================
