---------------------------- MODULE JobTable_proofs ----------------------------
(***************************************************************************)
(* For any set of messages, servers and threads: JobTable is type correct,  *)
(* its lists hold nothing that was freed, and no completion callback is     *)
(* called twice.                                                            *)
(*                                                                          *)
(* The argument follows a message from hand to hand.  Until it is           *)
(* registered it is either not sent yet or in one frame of one thread, the  *)
(* top one (Inv of StackInv); once registered it can be called back while   *)
(* its job is armed, and is then not called yet (JobInv).                   *)
(***************************************************************************)
EXTENDS JobTable, TLAPS, SequenceTheorems, FiniteSetTheorems

(* The frames in which a message is not registered yet. *)
Token(f) == f.fn \in {"connect", "register"}

(* What holds of a frame, wherever it is in a stack. *)
FrameInv(f) ==
  /\ f.fn = "message" => f.s \in Servers
  /\ f.fn = "free" => f.m \in known \ Jobs
  /\ Token(f) => f.m \notin todo /\ f.m \notin known /\ calls[f.m] = 0
  /\ f.fn = "register" => conid[f.m] # None

StackInv ==
  /\ \A t \in Threads : \A k \in DOMAIN stack[t] :
       FrameInv(stack[t][k]) /\ (Token(stack[t][k]) => k = 1)
  /\ \A t, u \in Threads :
       /\ stack[t] # <<>> /\ stack[u] # <<>>
       /\ Token(stack[t][1]) /\ Token(stack[u][1])
       /\ stack[t][1].m = stack[u][1].m
       => t = u

JobInv ==
  /\ Jobs \subseteq known /\ armed \subseteq known
  /\ freed \subseteq known \ Jobs
  /\ \A m \in Messages : cond[m] # "NULL" => m \in known
  /\ \A m \in known : conid[m] # None /\ m \notin todo
  /\ \A m \in todo : calls[m] = 0
  /\ \A m \in armed : kind[m] = "action" => calls[m] = 0
  /\ MonJob # None => kind[MonJob] = "checkin"

(* Every closed socket in fdactive, and every time it was built anew, comes *)
(* from a ServerDisconnect.                                                 *)
StaleInv ==
  /\ (IF badfd THEN 1 + rep ELSE rep) <= disconnects
  /\ disconnects < 2 => stale = {}

Inv == TypeOK /\ StackInv /\ JobInv /\ StaleInv

-----------------------------------------------------------------------------
(* Frames. *)

(* The fields of a frame. *)
LEMMA FrameFields ==
  ASSUME NEW f \in Frames
  PROVE  /\ f.fn \in Fns /\ f.st \in States /\ f.rm \in BOOLEAN
         /\ f.s \in Servers \cup {None} /\ f.m \in Messages \cup {None}
         /\ f.fn # "unlock" => f.m \in Messages
BY DEF Frames, Fns, States

(* Call makes frames, but for the one without a message. *)
LEMMA CallType ==
  ASSUME NEW fn \in Fns \ {"unlock"}, NEW m \in Messages, NEW st \in States
  PROVE  /\ Call(fn, m, st) \in Frames
         /\ Call(fn, m, st).fn = fn /\ Call(fn, m, st).m = m
BY DEF Frames, Call

LEMMA DoneType ==
  ASSUME NEW m \in Messages, NEW st \in States, NEW rm \in BOOLEAN
  PROVE  Done(m, st, rm) \in Frames /\ Done(m, st, rm).fn = "callback"
BY DEF Frames, Fns, Done, Call

LEMMA UnlockType ==
  Call("unlock", None, "unset") \in Frames /\ Call("unlock", None, "unset").fn = "unlock"
BY DEF Frames, Call

(* The thread of Top(t) has a stack. *)
LEMMA TopType ==
  ASSUME TypeOK, NEW t \in Threads, NEW fn, At(t, fn)
  PROVE  /\ stack[t] \in Seq(Frames) /\ stack[t] # <<>>
         /\ 1 \in DOMAIN stack[t] /\ Top(t) = stack[t][1]
         /\ Top(t) \in Frames /\ Top(t).fn = fn
<1>1. stack[t] \in Seq(Frames) /\ stack[t] # <<>> /\ Top(t).fn = fn
  BY DEF TypeOK, StackType, At, Top
<1>2. Len(stack[t]) \in Nat \ {0} /\ DOMAIN stack[t] = 1 .. Len(stack[t])
  BY <1>1, EmptySeq, LenProperties
<1>3. Top(t) = stack[t][1] /\ Top(t) \in Frames
  BY <1>1, HeadTailProperties DEF Top
<1> QED BY <1>1, <1>2, <1>3

-----------------------------------------------------------------------------
(* Stacks. *)

(***************************************************************************)
(* A thread replaces its top frame, if it has one, by others.  What has to  *)
(* be shown of a step is what it makes of the new frames, of the jobs that  *)
(* are known and gone, and of the messages other threads are about to send. *)
(***************************************************************************)
NewFrames(t, fs) ==
  \A k \in DOMAIN fs :
    /\ FrameInv(fs[k])'
    /\ Token(fs[k]) =>
         /\ k = 1
         /\ \A u \in Threads \ {t} :
              stack[u] # <<>> /\ Token(stack[u][1]) => stack[u][1].m # fs[k].m

OldFrames(t) ==
  /\ known \ Jobs \subseteq known' \ Jobs'
  /\ \A u \in Threads \ {t} :
       stack[u] # <<>> /\ Token(stack[u][1]) =>
         LET m == stack[u][1].m IN
         m \notin todo' /\ m \notin known' /\ calls'[m] = 0 /\ conid'[m] = conid[m]

LEMMA StackStep ==
  ASSUME TypeOK, StackInv,
         NEW t \in Threads, NEW fs \in Seq(Frames), NEW rest \in Seq(Frames),
         \A j \in DOMAIN rest : j + 1 \in DOMAIN stack[t] /\ rest[j] = stack[t][j + 1],
         stack' = [stack EXCEPT ![t] = fs \o rest],
         NewFrames(t, fs), OldFrames(t)
  PROVE  stack' \in [Threads -> Seq(Frames)] /\ StackInv'
<1> DEFINE new == fs \o rest
<1>1. stack \in [Threads -> Seq(Frames)]
  BY DEF TypeOK, StackType
<1>2. /\ new \in Seq(Frames)
      /\ DOMAIN fs = 1 .. Len(fs) /\ Len(fs) \in Nat
      /\ DOMAIN rest = 1 .. Len(rest) /\ Len(rest) \in Nat
      /\ DOMAIN new = 1 .. Len(fs) + Len(rest)
      /\ \A i \in DOMAIN new : new[i] = IF i <= Len(fs) THEN fs[i] ELSE rest[i - Len(fs)]
  <2>1. new \in Seq(Frames) /\ Len(new) = Len(fs) + Len(rest)
    BY ConcatProperties
  <2>2. DOMAIN new = 1 .. Len(new) /\ DOMAIN fs = 1 .. Len(fs) /\ DOMAIN rest = 1 .. Len(rest)
    BY <2>1, LenProperties
  <2>3. Len(fs) \in Nat /\ Len(rest) \in Nat
    BY LenProperties
  <2> QED BY <2>1, <2>2, <2>3, ConcatProperties
<1>3. stack' \in [Threads -> Seq(Frames)]
  BY <1>1, <1>2
<1>4. /\ stack'[t] = new
      /\ \A u \in Threads \ {t} : stack'[u] = stack[u]
  BY <1>1
<1> HIDE DEF new
<1>5. ASSUME NEW k \in DOMAIN new
      PROVE  \/ k \in DOMAIN fs /\ new[k] = fs[k]
             \/ \E i \in DOMAIN stack[t] : i # 1 /\ new[k] = stack[t][i]
  <2>1. CASE k <= Len(fs)
    BY <1>2, <2>1
  <2>2. CASE k > Len(fs)
    <3>1. k - Len(fs) \in DOMAIN rest /\ new[k] = rest[k - Len(fs)] /\ k - Len(fs) + 1 # 1
      BY <1>2, <2>2
    <3> QED BY <3>1
  <2> QED BY <1>2, <2>1, <2>2
<1>6. ASSUME NEW f, NEW u \in Threads, NEW k \in DOMAIN stack[u], f = stack[u][k], u = t => k # 1
      PROVE  FrameInv(f)' /\ (u = t => ~Token(f))
  <2>1. FrameInv(f) /\ (Token(f) => k = 1)
    BY <1>6 DEF StackInv
  <2>2. u = t => ~Token(f)
    BY <1>6, <2>1
  <2>3. Token(f) => f.m \notin todo' /\ f.m \notin known' /\ calls'[f.m] = 0
                    /\ conid'[f.m] = conid[f.m]
    <3> SUFFICES ASSUME Token(f)
                 PROVE  f.m \notin todo' /\ f.m \notin known' /\ calls'[f.m] = 0
                        /\ conid'[f.m] = conid[f.m]
      OBVIOUS
    <3>1. u \in Threads \ {t} /\ k = 1
      BY <2>1, <2>2
    <3>2. stack[u] # <<>>
      BY <3>1
    <3> QED BY <1>6, <3>1, <3>2 DEF OldFrames
  <2>4. f.fn = "free" => f.m \in known' \ Jobs'
    BY <2>1 DEF FrameInv, OldFrames
  <2> QED BY <2>1, <2>2, <2>3, <2>4 DEF FrameInv, Token
<1>7. ASSUME NEW u \in Threads, NEW k \in DOMAIN stack'[u]
      PROVE  (FrameInv(stack[u][k]) /\ (Token(stack[u][k]) => k = 1))'
  <2>1. PICK f : f = stack'[u][k]
    OBVIOUS
  <2>2. FrameInv(f)' /\ (Token(f) => k = 1)
    <3>1. CASE u = t /\ k \in DOMAIN fs /\ new[k] = fs[k]
      BY <1>4, <2>1, <3>1 DEF NewFrames
    <3>2. CASE u = t /\ \E i \in DOMAIN stack[t] : i # 1 /\ new[k] = stack[t][i]
      BY <1>4, <1>6, <2>1, <3>2
    <3>3. CASE u # t
      <4>1. k \in DOMAIN stack[u] /\ f = stack[u][k]
        BY <1>4, <2>1, <3>3
      <4>2. Token(f) => k = 1
        BY <4>1 DEF StackInv
      <4> QED BY <1>6, <3>3, <4>1, <4>2
    <3> QED BY <1>4, <1>5, <3>1, <3>2, <3>3
  <2> QED BY <2>1, <2>2 DEF FrameInv, Token
<1>8. (* The top frame of t, if it has a token, is new. *)
      stack'[t] # <<>> /\ Token(stack'[t][1]) => 1 \in DOMAIN fs /\ stack'[t][1] = fs[1]
  <2> SUFFICES ASSUME stack'[t] # <<>>, Token(stack'[t][1])
               PROVE  1 \in DOMAIN fs /\ stack'[t][1] = fs[1]
    OBVIOUS
  <2>1. 1 \in DOMAIN new
    BY <1>2, <1>4, EmptySeq, LenProperties
  <2>2. ASSUME NEW i \in DOMAIN stack[t], i # 1, new[1] = stack[t][i]
        PROVE  FALSE
    BY <1>4, <1>6, <2>2
  <2> QED BY <1>4, <1>5, <2>1, <2>2
<1>9. ASSUME NEW u \in Threads, NEW v \in Threads,
             stack'[u] # <<>>, stack'[v] # <<>>,
             Token(stack'[u][1]), Token(stack'[v][1]),
             stack'[u][1].m = stack'[v][1].m
      PROVE  u = v
  <2>1. ASSUME NEW x \in Threads \ {t},
               stack[x] # <<>>, Token(stack[x][1]), stack[x][1].m = stack'[t][1].m,
               stack'[t] # <<>>, Token(stack'[t][1])
        PROVE  FALSE
    BY <1>8, <2>1 DEF NewFrames
  <2>2. CASE u = t /\ v # t
    BY <1>4, <1>9, <2>1, <2>2
  <2>3. CASE v = t /\ u # t
    BY <1>4, <1>9, <2>1, <2>3
  <2>4. CASE u # t /\ v # t
    BY <1>4, <1>9, <2>4 DEF StackInv
  <2> QED BY <2>2, <2>3, <2>4
<1> QED BY <1>3, <1>7, <1>9 DEF StackInv, Token

(* A thread that has a frame replaces it. *)
LEMMA BecomeStep ==
  ASSUME TypeOK, StackInv, NEW t \in Threads, NEW fn, At(t, fn),
         NEW fs \in Seq(Frames), Become(t, fs), NewFrames(t, fs), OldFrames(t)
  PROVE  stack' \in [Threads -> Seq(Frames)] /\ StackInv'
<1>1. stack[t] \in Seq(Frames) /\ stack[t] # <<>> /\ stack \in [Threads -> Seq(Frames)]
  BY TopType DEF TypeOK, StackType
<1>2. /\ Tail(stack[t]) \in Seq(Frames)
      /\ Len(Tail(stack[t])) = Len(stack[t]) - 1
      /\ \A j \in 1 .. Len(Tail(stack[t])) : Tail(stack[t])[j] = stack[t][j + 1]
  BY <1>1, HeadTailProperties
<1>3. /\ DOMAIN stack[t] = 1 .. Len(stack[t]) /\ Len(stack[t]) \in Nat
      /\ DOMAIN Tail(stack[t]) = 1 .. Len(Tail(stack[t]))
  BY <1>1, <1>2, LenProperties
<1>4. \A j \in DOMAIN Tail(stack[t]) :
        j + 1 \in DOMAIN stack[t] /\ Tail(stack[t])[j] = stack[t][j + 1]
  BY <1>2, <1>3
<1>5. stack' = [stack EXCEPT ![t] = fs \o Tail(stack[t])]
  BY <1>1 DEF Become
<1> QED BY <1>2, <1>4, <1>5, StackStep

(* A thread that has none begins a call. *)
LEMMA PushStep ==
  ASSUME TypeOK, StackInv, NEW t \in Threads,
         NEW fs \in Seq(Frames), stack' = [stack EXCEPT ![t] = fs],
         NewFrames(t, fs), OldFrames(t)
  PROVE  stack' \in [Threads -> Seq(Frames)] /\ StackInv'
<1>1. <<>> \in Seq(Frames) /\ fs \o <<>> = fs
  BY EmptySeq, ConcatEmptySeq
<1>2. \A j \in DOMAIN <<>> : j + 1 \in DOMAIN stack[t] /\ <<>>[j] = stack[t][j + 1]
  OBVIOUS
<1> QED BY <1>1, <1>2, StackStep

(* Frames nothing has to be known about. *)
Plain ==
  {f \in Frames : ~Token(f) /\ f.fn # "free" /\ (f.fn = "message" => f.s \in Servers)}

LEMMA PlainFrames ==
  ASSUME NEW t \in Threads, NEW fs \in Seq(Plain)
  PROVE  fs \in Seq(Frames) /\ NewFrames(t, fs)
<1>1. fs \in Seq(Frames)
  BY SeqMonotonic DEF Plain
<1>2. \A k \in DOMAIN fs : fs[k] \in Plain
  BY ElementOfSeq, LenProperties
<1> QED BY <1>1, <1>2 DEF NewFrames, FrameInv, Plain, Token

LEMMA PlainCall ==
  ASSUME NEW fn \in Fns \ {"unlock", "free", "connect", "register", "message"},
         NEW m \in Messages, NEW st \in States
  PROVE  Call(fn, m, st) \in Plain
BY CallType DEF Plain, Token

LEMMA PlainDone ==
  ASSUME NEW m \in Messages, NEW st \in States, NEW rm \in BOOLEAN
  PROVE  Done(m, st, rm) \in Plain
BY DoneType DEF Plain, Token

LEMMA PlainUnlock == Call("unlock", None, "unset") \in Plain
BY UnlockType DEF Plain, Token

LEMMA OnePlain ==
  ASSUME NEW f \in Plain
  PROVE  <<f>> \in Seq(Plain)
OBVIOUS

LEMMA PlainAfterSend ==
  ASSUME NEW m \in Messages
  PROVE  AfterSend(m) \in Seq(Plain)
<1>1. Call("wait", m, "unset") \in Plain
  BY PlainCall DEF Fns, States
<1> QED BY <1>1 DEF AfterSend

(* Nobody is told of a message that is about to be sent. *)
LEMMA OldFramesKept ==
  ASSUME TypeOK, StackInv, NEW t \in Threads,
         Jobs' \subseteq Jobs, todo' \subseteq todo,
         UNCHANGED <<known, calls, conid>>
  PROVE  OldFrames(t)
<1> SUFFICES ASSUME NEW u \in Threads \ {t}, stack[u] # <<>>, Token(stack[u][1])
             PROVE  LET m == stack[u][1].m IN
                    m \notin todo' /\ m \notin known' /\ calls'[m] = 0 /\ conid'[m] = conid[m]
  BY DEF OldFrames
<1>1. 1 \in DOMAIN stack[u]
  BY EmptySeq, LenProperties DEF TypeOK, StackType
<1>2. FrameInv(stack[u][1])
  BY <1>1 DEF StackInv
<1> QED BY <1>2 DEF FrameInv

-----------------------------------------------------------------------------
(* What is not changed keeps its type. *)
LEMMA KeptTypes ==
  ASSUME TypeOK
  PROVE  /\ UNCHANGED programVars => ProgramType'
         /\ UNCHANGED stack => StackType'
         /\ UNCHANGED jobVars => JobType'
         /\ UNCHANGED clientVars => ClientType'
         /\ UNCHANGED serverVars => ServerType'
BY DEF TypeOK, ProgramType, StackType, JobType, ClientType, ServerType, programVars, jobVars,
       clientVars, serverVars

-----------------------------------------------------------------------------
(* The steps of a thread. *)

LEMMA SendArgInv ==
  ASSUME Inv, NEW t \in Threads, SendArg(t)
  PROVE  Inv'
<1> DEFINE m == Top(t).m
<1>1. m \in Messages /\ TypeOK /\ StackInv
  BY TopType, FrameFields DEF SendArg, Inv
<1>2. PICK fs \in Seq(Plain) : Become(t, fs)
  <2>1. <<Call("answer", m, "unset")>> \in Seq(Plain)
    BY <1>1, PlainCall DEF Fns, States
  <2>2. <<Call("cleanup", m, "down")>> \o AfterSend(m) \in Seq(Plain)
    BY <1>1, PlainCall, PlainAfterSend, ConcatProperties DEF Fns, States
  <2> QED BY <2>1, <2>2 DEF SendArg
<1>3. stack' \in [Threads -> Seq(Frames)] /\ StackInv'
  <2>1. OldFrames(t)
    BY <1>1, OldFramesKept DEF SendArg, programVars, jobVars, clientVars
  <2> QED BY <1>1, <1>2, <2>1, PlainFrames, BecomeStep DEF SendArg
<1>4. ProgramType' /\ JobType' /\ ClientType' /\ ServerType'
  <2>1. ProgramType' /\ JobType' /\ ClientType'
    BY <1>1, KeptTypes DEF SendArg
  <2>2. dead' \subseteq Servers /\ work' \in [Servers -> SUBSET Messages]
    <3> DEFINE s == to[m]
    <3>1. s \in Servers /\ dead \subseteq Servers /\ work \in [Servers -> SUBSET Messages]
      BY <1>1, MessageType DEF TypeOK, ServerType
    <3>2. CASE dead' = dead \cup {s} /\ work' = [work EXCEPT ![s] = {}]
      BY <3>1, <3>2
    <3>3. CASE dead' = dead /\ work' = [work EXCEPT ![s] = @ \cup {m}]
      <4>1. work[s] \cup {m} \in SUBSET Messages
        BY <1>1, <3>1
      <4> QED BY <3>1, <3>3, <4>1
    <3>4. CASE dead' = dead /\ work' = work
      BY <3>1, <3>4
    <3> QED BY <3>2, <3>3, <3>4 DEF SendArg
  <2> QED BY <1>1, <2>1, <2>2 DEF SendArg, TypeOK, ServerType
<1>5. JobInv' /\ StaleInv'
  BY DEF Inv, JobInv, StaleInv, SendArg, programVars, jobVars, clientVars
<1> QED BY <1>3, <1>4, <1>5 DEF Inv, TypeOK, StackType

LEMMA GetAnswerInfoTSInv ==
  ASSUME Inv, NEW t \in Threads, GetAnswerInfoTS(t)
  PROVE  Inv'
<1> DEFINE m == Top(t).m
<1>1. m \in Messages /\ TypeOK /\ StackInv
  BY TopType, FrameFields DEF GetAnswerInfoTS, Inv
<1>2. PICK fs \in Seq(Plain) : Become(t, fs)
  <2>1. AfterSend(m) \in Seq(Plain) /\ <<Call("cleanup", m, "ok")>> \in Seq(Plain)
    BY <1>1, PlainCall, PlainAfterSend DEF Fns, States
  <2>2. <<Call("cleanup", m, "down")>> \o AfterSend(m) \in Seq(Plain)
    BY <1>1, PlainCall, PlainAfterSend, ConcatProperties DEF Fns, States
  <2> QED BY <2>1, <2>2 DEF GetAnswerInfoTS
<1>3. stack' \in [Threads -> Seq(Frames)] /\ StackInv'
  <2>1. OldFrames(t)
    BY <1>1, OldFramesKept DEF GetAnswerInfoTS, programVars, jobVars, clientVars
  <2> QED BY <1>1, <1>2, <2>1, PlainFrames, BecomeStep DEF GetAnswerInfoTS
<1>4. ProgramType' /\ JobType' /\ ClientType' /\ ServerType'
  BY <1>1, KeptTypes DEF GetAnswerInfoTS
<1>5. JobInv' /\ StaleInv'
  BY DEF Inv, JobInv, StaleInv, GetAnswerInfoTS, programVars, jobVars, clientVars
<1> QED BY <1>3, <1>4, <1>5 DEF Inv, TypeOK, StackType

(* What only takes jobs out of the list. *)
LEMMA JobsRemoved ==
  ASSUME JobInv, Jobs' \subseteq Jobs,
         freed' \subseteq freed \cup (Jobs \ Jobs') \/ freed' \subseteq freed \cup (known \ Jobs'),
         \A m \in Messages : cond'[m] # "NULL" => m \in known,
         UNCHANGED <<MonJob, armed, known, calls, todo, conid>>
  PROVE  JobInv'
BY DEF JobInv

LEMMA Job_finishInv ==
  ASSUME Inv, NEW t \in Threads, Job_finish(t)
  PROVE  Inv'
<1> DEFINE m == Top(t).m
<1>1. m \in Messages /\ TypeOK /\ StackInv /\ JobInv
  BY TopType, FrameFields DEF Job_finish, Inv
<1>2. stack' \in [Threads -> Seq(Frames)] /\ StackInv'
  <2>1. OldFrames(t)
    BY <1>1, OldFramesKept DEF Job_finish, programVars, jobVars, clientVars
  <2>2. <<>> \in Seq(Plain)
    BY EmptySeq
  <2> QED BY <1>1, <2>1, <2>2, PlainFrames, BecomeStep DEF Job_finish
<1>3. JobType'
  BY <1>1 DEF Job_finish, TypeOK, JobType
<1>4. ProgramType' /\ ClientType' /\ ServerType'
  BY <1>1, KeptTypes DEF Job_finish
<1>5. JobInv'
  <2>1. \A n \in Messages : cond'[n] # "NULL" => n \in known
    BY <1>1 DEF Job_finish, TypeOK, JobType, JobInv
  <2>2. Jobs' \subseteq Jobs /\ freed' \subseteq freed \cup (Jobs \ Jobs')
    BY <1>1 DEF Job_finish
  <2> QED BY <1>1, <2>1, <2>2, JobsRemoved DEF Job_finish, programVars, clientVars
<1>6. StaleInv'
  BY DEF Inv, StaleInv, Job_finish, programVars, clientVars
<1> QED BY <1>2, <1>3, <1>4, <1>5, <1>6 DEF Inv, TypeOK, StackType

LEMMA freeInv ==
  ASSUME Inv, NEW t \in Threads, free(t)
  PROVE  Inv'
<1> DEFINE m == Top(t).m
<1>1. m \in Messages /\ TypeOK /\ StackInv /\ JobInv
  BY TopType, FrameFields DEF free, Inv
<1>2. stack' \in [Threads -> Seq(Frames)] /\ StackInv'
  <2>1. OldFrames(t)
    BY <1>1, OldFramesKept DEF free, programVars, jobVars, clientVars
  <2>2. <<>> \in Seq(Plain)
    BY EmptySeq
  <2> QED BY <1>1, <2>1, <2>2, PlainFrames, BecomeStep DEF free
<1>3. JobType'
  BY <1>1 DEF free, TypeOK, JobType
<1>4. ProgramType' /\ ClientType' /\ ServerType'
  BY <1>1, KeptTypes DEF free
<1>5. JobInv'
  <2>1. m \in known \ Jobs
    BY <1>1, TopType DEF StackInv, FrameInv, free
  <2> QED BY <1>1, <2>1, JobsRemoved DEF free, programVars, clientVars, JobInv
<1>6. StaleInv'
  BY DEF Inv, StaleInv, free, programVars, clientVars
<1> QED BY <1>2, <1>3, <1>4, <1>5, <1>6 DEF Inv, TypeOK, StackType

LEMMA ServerWaitInv ==
  ASSUME Inv, NEW t \in Threads, ServerWait(t)
  PROVE  Inv'
<1> DEFINE m == Top(t).m
<1>1. m \in Messages /\ TypeOK /\ StackInv /\ JobInv
  BY TopType, FrameFields DEF ServerWait, Inv
<1>2. stack' \in [Threads -> Seq(Frames)] /\ StackInv'
  <2>1. OldFrames(t)
    BY <1>1, OldFramesKept DEF ServerWait, programVars, jobVars, clientVars
  <2>2. <<>> \in Seq(Plain) /\ <<Call("asleep", m, "unset")>> \in Seq(Plain)
    BY <1>1, EmptySeq, PlainCall DEF Fns, States
  <2>3. PICK fs \in Seq(Plain) : Become(t, fs)
    BY <2>2 DEF ServerWait
  <2> QED BY <1>1, <2>1, <2>3, PlainFrames, BecomeStep DEF ServerWait
<1>3. JobType'
  BY <1>1 DEF ServerWait, TypeOK, JobType
<1>4. ProgramType' /\ ClientType' /\ ServerType'
  BY <1>1, KeptTypes DEF ServerWait
<1>5. JobInv'
  <2>1. \A n \in Messages : cond'[n] # "NULL" => n \in known
    BY <1>1 DEF ServerWait, TypeOK, JobType, JobInv
  <2>2. Jobs' \subseteq Jobs /\ freed' \subseteq freed \cup (Jobs \ Jobs')
    BY <1>1 DEF ServerWait
  <2> QED BY <1>1, <2>1, <2>2, JobsRemoved DEF ServerWait, programVars, clientVars
<1>6. StaleInv'
  BY DEF Inv, StaleInv, ServerWait, programVars, clientVars
<1> QED BY <1>2, <1>3, <1>4, <1>5, <1>6 DEF Inv, TypeOK, StackType

LEMMA Job_wait_and_pop_lockedInv ==
  ASSUME Inv, NEW t \in Threads, Job_wait_and_pop_locked(t)
  PROVE  Inv'
<1> DEFINE m == Top(t).m
<1>1. m \in Messages /\ TypeOK /\ StackInv /\ JobInv
  BY TopType, FrameFields DEF Job_wait_and_pop_locked, Inv
<1>2. stack' \in [Threads -> Seq(Frames)] /\ StackInv'
  <2>1. OldFrames(t)
    BY <1>1, OldFramesKept DEF Job_wait_and_pop_locked, programVars, jobVars, clientVars
  <2>2. <<>> \in Seq(Plain)
    BY EmptySeq
  <2> QED BY <1>1, <2>1, <2>2, PlainFrames, BecomeStep DEF Job_wait_and_pop_locked
<1>3. JobType'
  BY <1>1 DEF Job_wait_and_pop_locked, TypeOK, JobType
<1>4. ProgramType' /\ ClientType' /\ ServerType'
  BY <1>1, KeptTypes DEF Job_wait_and_pop_locked
<1>5. JobInv'
  <2>1. \A n \in Messages : cond'[n] # "NULL" => n \in known
    BY <1>1 DEF Job_wait_and_pop_locked, TypeOK, JobType, JobInv
  <2>2. Jobs' \subseteq Jobs /\ freed' \subseteq freed \cup (known \ Jobs')
    BY <1>1 DEF Job_wait_and_pop_locked, JobInv
  <2> QED BY <1>1, <2>1, <2>2, JobsRemoved DEF Job_wait_and_pop_locked, programVars, clientVars
<1>6. StaleInv'
  BY DEF Inv, StaleInv, Job_wait_and_pop_locked, programVars, clientVars
<1> QED BY <1>2, <1>3, <1>4, <1>5, <1>6 DEF Inv, TypeOK, StackType

LEMMA Job_abandon_lockedInv ==
  ASSUME Inv, NEW t \in Threads, Job_abandon_locked(t)
  PROVE  Inv'
<1> DEFINE m == Top(t).m
<1>1. m \in Messages /\ TypeOK /\ StackInv /\ JobInv
  BY TopType, FrameFields DEF Job_abandon_locked, Inv
<1>2. stack' \in [Threads -> Seq(Frames)] /\ StackInv'
  <2>1. OldFrames(t)
    BY <1>1, OldFramesKept DEF Job_abandon_locked, programVars, jobVars, clientVars
  <2>2. <<>> \in Seq(Plain)
    BY EmptySeq
  <2> QED BY <1>1, <2>1, <2>2, PlainFrames, BecomeStep DEF Job_abandon_locked
<1>3. JobType'
  BY <1>1 DEF Job_abandon_locked, TypeOK, JobType
<1>4. ProgramType' /\ ClientType' /\ ServerType'
  BY <1>1, KeptTypes DEF Job_abandon_locked
<1>5. JobInv'
  <2>1. \A n \in Messages : cond'[n] # "NULL" => n \in known
    BY <1>1 DEF Job_abandon_locked, TypeOK, JobType, JobInv
  <2> QED BY <1>1, <2>1, JobsRemoved DEF Job_abandon_locked, programVars, clientVars
<1>6. StaleInv'
  BY DEF Inv, StaleInv, Job_abandon_locked, programVars, clientVars
<1> QED BY <1>2, <1>3, <1>4, <1>5, <1>6 DEF Inv, TypeOK, StackType

LEMMA unlock_clientsInv ==
  ASSUME Inv, NEW t \in Threads, unlock_clients(t)
  PROVE  Inv'
<1>1. TypeOK /\ StackInv
  BY DEF Inv
<1>2. stack' \in [Threads -> Seq(Frames)] /\ StackInv'
  <2>1. OldFrames(t)
    BY <1>1, OldFramesKept DEF unlock_clients, programVars, jobVars
  <2>2. <<>> \in Seq(Plain)
    BY EmptySeq
  <2> QED BY <1>1, <2>1, <2>2, PlainFrames, BecomeStep DEF unlock_clients
<1>3. ClientType'
  BY <1>1 DEF unlock_clients, TypeOK, ClientType
<1>4. ProgramType' /\ JobType' /\ ServerType'
  BY <1>1, KeptTypes DEF unlock_clients
<1>5. JobInv' /\ StaleInv'
  BY DEF Inv, JobInv, StaleInv, unlock_clients, programVars, jobVars
<1> QED BY <1>2, <1>3, <1>4, <1>5 DEF Inv, TypeOK, StackType

(* A job is popped, called back and freed; then the loop goes on. *)
LEMMA PopFrames ==
  ASSUME Inv, NEW j \in Jobs, NEW f \in Plain, NEW st \in States, NEW t \in Threads,
         Jobs' = Jobs \ {j}, UNCHANGED known
  PROVE  LET fs == <<Done(j, st, FALSE), Call("free", j, st), f>> IN
         fs \in Seq(Frames) /\ NewFrames(t, fs)
<1> DEFINE fs == <<Done(j, st, FALSE), Call("free", j, st), f>>
<1>1. j \in Messages /\ j \in known
  BY DEF Inv, TypeOK, JobType, JobInv
<1>2. Done(j, st, FALSE) \in Plain
  BY <1>1, PlainDone
<1>3. Call("free", j, st) \in Frames /\ Call("free", j, st).fn = "free" /\ Call("free", j, st).m = j
  BY <1>1, CallType DEF Fns
<1>4. ASSUME NEW x \in Frames, NEW y \in Frames, NEW z \in Frames
      PROVE  <<x, y, z>> \in Seq(Frames) /\ DOMAIN <<x, y, z>> = {1, 2, 3}
  BY <1>4
<1>5. fs \in Seq(Frames) /\ DOMAIN fs = {1, 2, 3}
  <2>1. Done(j, st, FALSE) \in Frames /\ f \in Frames
    BY <1>2 DEF Plain
  <2> QED BY <1>3, <1>4, <2>1
<1>6. ASSUME NEW k \in DOMAIN fs
      PROVE  FrameInv(fs[k])' /\ ~Token(fs[k])
  <2>1. CASE k = 2
    <3>1. fs[k] = Call("free", j, st)
      BY <2>1
    <3> QED BY <1>1, <1>3, <3>1 DEF FrameInv, Token
  <2>2. CASE k = 1
    <3>1. fs[k] \in Plain
      BY <1>2, <2>2
    <3> QED BY <3>1 DEF FrameInv, Plain, Token
  <2>3. CASE k = 3
    <3>1. fs[k] \in Plain
      BY <2>3
    <3> QED BY <3>1 DEF FrameInv, Plain, Token
  <2> QED BY <1>5, <2>1, <2>2, <2>3
<1> QED BY <1>5, <1>6 DEF NewFrames

LEMMA Job_cleanupInv ==
  ASSUME Inv, NEW t \in Threads, Job_cleanup(t)
  PROVE  Inv'
<1> DEFINE m == Top(t).m
           st == Top(t).st
<1>1. m \in Messages /\ st \in States /\ TypeOK /\ StackInv /\ JobInv
  BY TopType, FrameFields DEF Job_cleanup, Inv
<1>2. stack' \in [Threads -> Seq(Frames)] /\ StackInv'
  <2>1. OldFrames(t)
    BY <1>1, OldFramesKept DEF Job_cleanup, programVars
  <2>2. CASE Become(t, <<>>)
    <3>1. <<>> \in Seq(Plain)
      BY EmptySeq
    <3> QED BY <1>1, <2>1, <2>2, <3>1, PlainFrames, BecomeStep DEF Job_cleanup
  <2>3. CASE /\ m \in Jobs /\ Jobs' = Jobs \ {m}
             /\ Become(t, <<Done(m, st, FALSE), Call("free", m, st), Call("pop", conid[m], st)>>)
    <3>1. conid[m] \in Messages
      BY <1>1, <2>3 DEF JobInv, TypeOK, ClientType
    <3>2. Call("pop", conid[m], st) \in Plain
      BY <1>1, <3>1, PlainCall DEF Fns
    <3> QED BY <1>1, <2>1, <2>3, <3>2, PopFrames, BecomeStep DEF Job_cleanup
  <2> QED BY <2>2, <2>3 DEF Job_cleanup
<1>3. JobType' /\ ClientType'
  BY <1>1 DEF Job_cleanup, DisconnectFromMds, TypeOK, JobType, ClientType
<1>4. ProgramType' /\ ServerType'
  BY <1>1, KeptTypes DEF Job_cleanup
<1>5. JobInv'
  BY <1>1, JobsRemoved DEF Job_cleanup, programVars, JobInv
<1>6. StaleInv'
  BY DEF Inv, StaleInv, Job_cleanup, programVars
<1> QED BY <1>2, <1>3, <1>4, <1>5, <1>6 DEF Inv, TypeOK, StackType

LEMMA Job_pop_by_conidInv ==
  ASSUME Inv, NEW t \in Threads, Job_pop_by_conid(t)
  PROVE  Inv'
<1> DEFINE st == Top(t).st
<1>1. Top(t).m \in Messages /\ st \in States /\ TypeOK /\ StackInv /\ JobInv
  BY TopType, FrameFields DEF Job_pop_by_conid, Inv
<1>2. stack' \in [Threads -> Seq(Frames)] /\ StackInv'
  <2>1. OldFrames(t)
    BY <1>1, OldFramesKept DEF Job_pop_by_conid, programVars, clientVars
  <2>2. CASE Become(t, <<>>)
    <3>1. <<>> \in Seq(Plain)
      BY EmptySeq
    <3> QED BY <1>1, <2>1, <2>2, <3>1, PlainFrames, BecomeStep DEF Job_pop_by_conid
  <2>3. ASSUME NEW j \in Jobs, Jobs' = Jobs \ {j},
               Become(t, <<Done(j, st, FALSE), Call("free", j, st), Top(t)>>)
        PROVE  stack' \in [Threads -> Seq(Frames)] /\ StackInv'
    <3>1. Top(t) \in Plain
      BY TopType DEF Job_pop_by_conid, Plain, Token, Inv
    <3>2. PICK fs : fs = <<Done(j, st, FALSE), Call("free", j, st), Top(t)>>
      OBVIOUS
    <3>3. fs \in Seq(Frames) /\ NewFrames(t, fs)
      <4>1. UNCHANGED known
        BY DEF Job_pop_by_conid
      <4> QED BY <1>1, <2>3, <3>1, <3>2, <4>1, PopFrames
    <3> QED BY <1>1, <2>1, <2>3, <3>2, <3>3, BecomeStep DEF Job_pop_by_conid
  <2> QED BY <2>2, <2>3 DEF Job_pop_by_conid
<1>3. JobType'
  BY <1>1 DEF Job_pop_by_conid, TypeOK, JobType
<1>4. ProgramType' /\ ClientType' /\ ServerType'
  BY <1>1, KeptTypes DEF Job_pop_by_conid
<1>5. JobInv'
  BY <1>1, JobsRemoved DEF Job_pop_by_conid, programVars, clientVars, JobInv
<1>6. StaleInv'
  BY DEF Inv, StaleInv, Job_pop_by_conid, programVars, clientVars
<1> QED BY <1>2, <1>3, <1>4, <1>5, <1>6 DEF Inv, TypeOK, StackType

-----------------------------------------------------------------------------
(* The list of clients and the receiver. *)

LEMMA ClientFreed ==
  ASSUME TypeOK, NEW t \in Threads, NEW s \in Servers,
         Client_free(t, s), Client_pop_locked(s)
  PROVE  /\ Clients' \in [Servers -> Messages \cup {None}]
         /\ sock' \in [Servers -> Servers \cup {None}]
         /\ stale' \subseteq stale /\ stale' \subseteq Servers
         /\ openIn' \in [Messages -> Threads \cup {None}]
         /\ link' \in [Servers -> {"none", "backlog", "open", "closed"}]
         /\ wire' \in [Servers -> Seq(Msgs)]
         /\ badfd' \in BOOLEAN /\ (t = receiver => badfd' = badfd)
<1>1. /\ Clients' \in [Servers -> Messages \cup {None}]
      /\ sock' \in [Servers -> Servers \cup {None}]
      /\ stale' \subseteq stale /\ stale' \subseteq Servers
  BY DEF Client_pop_locked, TypeOK, ClientType
<1>2. openIn' \in [Messages -> Threads \cup {None}]
  BY DEF Client_free, DisconnectFromMds, TypeOK, ClientType
<1>3. link' \in [Servers -> {"none", "backlog", "open", "closed"}]
  BY DEF Client_free, TypeOK, ServerType
<1>4. wire' \in [Servers -> Seq(Msgs)]
  <2>1. <<>> \in Seq(Msgs) /\ wire \in [Servers -> Seq(Msgs)]
    BY EmptySeq DEF TypeOK, ServerType
  <2> QED BY <2>1 DEF Client_free
<1>5. badfd' \in BOOLEAN /\ (t = receiver => badfd' = badfd)
  BY DEF Client_free, TypeOK, ClientType
<1> QED BY <1>1, <1>2, <1>3, <1>4, <1>5

LEMMA ServerDisconnectInv ==
  ASSUME Inv, NEW t \in Threads, NEW s \in Servers, ServerDisconnect(t, s)
  PROVE  Inv'
<1>1. TypeOK /\ StackInv /\ Clients[s] \in Messages
  BY DEF ServerDisconnect, Inv, TypeOK, ClientType
<1>2. stack' \in [Threads -> Seq(Frames)] /\ StackInv'
  <2>1. OldFrames(t)
    BY <1>1, OldFramesKept DEF ServerDisconnect, jobVars
  <2>2. <<Call("pop", Clients[s], "down"), Call("unlock", None, "unset")>> \in Seq(Plain)
    BY <1>1, PlainCall, PlainUnlock DEF Fns, States
  <2> QED BY <1>1, <2>1, <2>2, PlainFrames, PushStep DEF ServerDisconnect
<1>3. ProgramType'
  BY <1>1, MessageType DEF ServerDisconnect, TypeOK, ProgramType
<1>4. ClientType' /\ ServerType'
  BY <1>1, ClientFreed DEF ServerDisconnect, TypeOK, ClientType, ServerType
<1>5. JobType'
  BY <1>1, KeptTypes DEF ServerDisconnect
<1>6. JobInv'
  BY DEF Inv, JobInv, ServerDisconnect, jobVars
<1>7. StaleInv'
  <2>1. disconnects \in Nat /\ rep \in {0, 1} /\ badfd' \in BOOLEAN /\ badfd \in BOOLEAN
    BY <1>1, <1>4, MessageType DEF TypeOK, ProgramType, ClientType
  <2>2. disconnects' = disconnects + 1 /\ rep' = rep /\ stale' \subseteq stale
    BY <1>1, ClientFreed DEF ServerDisconnect
  <2> QED BY <2>1, <2>2 DEF Inv, StaleInv
<1> QED BY <1>2, <1>3, <1>4, <1>5, <1>6, <1>7 DEF Inv, TypeOK, StackType

LEMMA accept_clientInv ==
  ASSUME Inv, NEW s \in Servers, accept_client(s)
  PROVE  Inv'
<1>1. TypeOK
  BY DEF Inv
<1>2. ClientType'
  BY <1>1 DEF accept_client, TypeOK, ClientType
<1>3. ServerType'
  <2>1. <<>> \in Seq(Msgs) /\ wire \in [Servers -> Seq(Msgs)]
    BY <1>1, EmptySeq DEF TypeOK, ServerType
  <2>2. wire' \in [Servers -> Seq(Msgs)]
    BY <2>1 DEF accept_client
  <2>3. link' \in [Servers -> {"none", "backlog", "open", "closed"}]
    BY <1>1 DEF accept_client, TypeOK, ServerType
  <2> QED BY <1>1, <2>2, <2>3 DEF accept_client, TypeOK, ServerType
<1>4. ProgramType' /\ StackType' /\ JobType'
  BY <1>1, KeptTypes DEF accept_client
<1>5. StackInv' /\ JobInv'
  BY DEF Inv, StackInv, FrameInv, Token, JobInv, accept_client, programVars, jobVars
<1>6. StaleInv'
  <2>1. disconnects \in Nat
    BY <1>1, MessageType DEF TypeOK, ProgramType
  <2> QED BY <2>1 DEF Inv, StaleInv, accept_client, programVars
<1> QED BY <1>2, <1>3, <1>4, <1>5, <1>6 DEF Inv, TypeOK

LEMMA receiver_threadInv ==
  ASSUME Inv, NEW c \in Servers, receiver_thread(c)
  PROVE  Inv'
<1>1. TypeOK /\ StackInv /\ Clients[c] \in Messages /\ receiver \in Threads
  BY DEF receiver_thread, Inv, TypeOK, ClientType, Threads
<1>2. stack' \in [Threads -> Seq(Frames)] /\ StackInv'
  <2>1. OldFrames(receiver)
    BY <1>1, OldFramesKept DEF receiver_thread, jobVars, programVars
  <2>2. <<[Call("message", Clients[c], "unset") EXCEPT !.s = c]>> \in Seq(Plain)
    <3>1. [Call("message", Clients[c], "unset") EXCEPT !.s = c] \in Plain
      BY <1>1 DEF Plain, Frames, Fns, States, Call, Token
    <3> QED BY <3>1
  <2> QED BY <1>1, <2>1, <2>2, PlainFrames, PushStep DEF receiver_thread
<1>3. ClientType'
  BY <1>1 DEF receiver_thread, TypeOK, ClientType
<1>4. ProgramType' /\ JobType' /\ ServerType'
  BY <1>1, KeptTypes DEF receiver_thread
<1>5. JobInv'
  BY DEF Inv, JobInv, receiver_thread, programVars, jobVars
<1>6. StaleInv'
  <2>1. disconnects \in Nat
    BY <1>1, MessageType DEF TypeOK, ProgramType
  <2> QED BY <2>1 DEF Inv, StaleInv, receiver_thread, programVars
<1> QED BY <1>2, <1>3, <1>4, <1>5, <1>6 DEF Inv, TypeOK, StackType

LEMMA DeliverType ==
  ASSUME TypeOK, NEW msg \in Msgs
  PROVE  Deliver(msg) \in Seq(Plain)
<1>1. Recipient(msg.m) \in Messages \cup {None}
  BY DEF Recipient, TypeOK, JobType
<1>2. <<>> \in Seq(Plain)
  BY EmptySeq
<1>3. ASSUME NEW m \in Messages
      PROVE  <<Call("before", m, "unset")>> \in Seq(Plain) /\ <<Done(m, "ok", TRUE)>> \in Seq(Plain)
  <2>1. Call("before", m, "unset") \in Plain /\ Done(m, "ok", TRUE) \in Plain
    BY PlainCall, PlainDone DEF Fns, States
  <2> QED BY <2>1, OnePlain
<1> QED BY <1>1, <1>2, <1>3 DEF Deliver

LEMMA Client_do_messageInv ==
  ASSUME Inv, Client_do_message
  PROVE  Inv'
<1> DEFINE c == Top(receiver).s
           s == sock[c]
<1>1. TypeOK /\ StackInv /\ receiver \in Threads /\ At(receiver, "message")
  BY DEF Client_do_message, Inv, Threads
<1>2. c \in Servers
  BY <1>1, TopType DEF StackInv, FrameInv
<1>3. s \in Servers \cup {None} /\ Clients[c] \in Messages \cup {None}
  BY <1>1, <1>2 DEF TypeOK, ClientType
<1>4. UNCHANGED <<programVars, jobVars, conid>> /\ UNCHANGED <<dead, work, begun, finished, events>>
  BY DEF Client_do_message, clientVars
<1>5. PICK fs \in Seq(Plain) : Become(receiver, fs)
  <2>1. CASE Become(receiver, <<>>)
    BY <2>1, EmptySeq
  <2>2. CASE s # None /\ wire[s] # <<>> /\ Become(receiver, Deliver(Head(wire[s])))
    <3>1. Head(wire[s]) \in Msgs
      BY <1>1, <1>3, <2>2, HeadTailProperties DEF TypeOK, ServerType
    <3> QED BY <1>1, <2>2, <3>1, DeliverType
  <2>3. CASE Clients[c] # None /\ Become(receiver, <<Call("pop", Clients[c], "down")>>)
    <3>1. <<Call("pop", Clients[c], "down")>> \in Seq(Plain)
      BY <1>3, <2>3, PlainCall DEF Fns, States
    <3> QED BY <2>3, <3>1
  <2> QED BY <2>1, <2>2, <2>3 DEF Client_do_message
<1>6. stack' \in [Threads -> Seq(Frames)] /\ StackInv'
  <2>1. OldFrames(receiver)
    BY <1>1, <1>4, OldFramesKept DEF programVars, jobVars
  <2> QED BY <1>1, <1>5, <2>1, PlainFrames, BecomeStep
<1>7. ProgramType' /\ JobType'
  BY <1>1, <1>4, KeptTypes
<1>8. JobInv'
  BY <1>4 DEF Inv, JobInv, programVars, jobVars
<1>9. ClientType' /\ ServerType' /\ StaleInv'
  <2>1. CASE UNCHANGED clientVars /\ UNCHANGED <<wire, link>>
    <3>1. UNCHANGED serverVars
      BY <1>4, <2>1 DEF serverVars
    <3> QED BY <1>1, <1>4, <2>1, <3>1, KeptTypes DEF Inv, StaleInv, clientVars, programVars
  <2>2. CASE /\ s # None /\ wire[s] # <<>>
             /\ wire' = [wire EXCEPT ![s] = Tail(@)]
             /\ UNCHANGED link /\ UNCHANGED clientVars
    <3>1. ClientType' /\ StaleInv'
      BY <1>1, <1>4, <2>2, KeptTypes DEF Inv, StaleInv, clientVars, programVars
    <3>2. Tail(wire[s]) \in Seq(Msgs)
      BY <1>1, <1>3, <2>2, HeadTailProperties DEF TypeOK, ServerType
    <3>3. wire' \in [Servers -> Seq(Msgs)]
      BY <1>1, <2>2, <3>2 DEF TypeOK, ServerType
    <3> QED BY <1>1, <1>4, <2>2, <3>1, <3>3 DEF TypeOK, ServerType
  <2>3. CASE /\ Client_free(receiver, c) /\ Client_pop_locked(c)
             /\ UNCHANGED <<clientsMutex, conid, rep>>
    <3>1. ClientType' /\ ServerType' /\ stale' \subseteq stale /\ badfd' = badfd
      BY <1>1, <1>2, <1>4, <2>3, ClientFreed DEF TypeOK, ClientType, ServerType
    <3> QED BY <1>4, <2>3, <3>1 DEF Inv, StaleInv, programVars
  <2> QED BY <2>1, <2>2, <2>3 DEF Client_do_message
<1> QED BY <1>6, <1>7, <1>8, <1>9 DEF Inv, TypeOK, StackType

LEMMA Job_callback_beforeInv ==
  ASSUME Inv, Job_callback_before
  PROVE  Inv'
<1>1. TypeOK /\ StackInv /\ receiver \in Threads
  BY DEF Inv, Threads
<1>2. stack' \in [Threads -> Seq(Frames)] /\ StackInv'
  <2>1. OldFrames(receiver)
    BY <1>1, OldFramesKept DEF Job_callback_before, programVars, jobVars, clientVars
  <2>2. <<>> \in Seq(Plain)
    BY EmptySeq
  <2> QED BY <1>1, <2>1, <2>2, PlainFrames, BecomeStep DEF Job_callback_before
<1>3. ProgramType' /\ JobType' /\ ClientType' /\ ServerType'
  BY <1>1, KeptTypes DEF Job_callback_before
<1>4. JobInv' /\ StaleInv'
  BY DEF Inv, JobInv, StaleInv, Job_callback_before, programVars, jobVars, clientVars
<1> QED BY <1>2, <1>3, <1>4 DEF Inv, TypeOK, StackType

(* reset_fdactive frees the clients one by one, then releases the mutex. *)
LEMMA FreesType ==
  ASSUME TypeOK, NEW S \in SUBSET Servers, \A s \in S : Clients[s] # None,
         NEW order \in Orders(S)
  PROVE  Frees(order) \in Seq(Plain)
<1>1. Cardinality(S) \in Nat
  BY MessageType, FS_Subset, FS_CardinalityType
<1>2. order \in [1 .. Cardinality(S) -> S]
  BY DEF Orders
<1> DEFINE pops == [i \in DOMAIN order |-> Call("pop", Clients[order[i]], "down")]
<1>3. ASSUME NEW i \in 1 .. Cardinality(S)
      PROVE  Call("pop", Clients[order[i]], "down") \in Plain
  <2>1. order[i] \in S /\ Clients[order[i]] \in Messages
    BY <1>2 DEF TypeOK, ClientType
  <2> QED BY <2>1, PlainCall DEF Fns, States
<1>4. pops \in [1 .. Cardinality(S) -> Plain]
  BY <1>2, <1>3
<1>5. pops \in Seq(Plain)
  BY <1>1, <1>4, SeqDef
<1> HIDE DEF pops
<1>6. Append(pops, Call("unlock", None, "unset")) \in Seq(Plain)
  BY <1>5, PlainUnlock, AppendProperties
<1> QED BY <1>6 DEF Frees, pops

LEMMA reset_fdactiveInv ==
  ASSUME Inv, reset_fdactive
  PROVE  Inv'
<1> DEFINE broken == {s \in Servers : Clients[s] # None /\ sock[s] = None}
<1>1. TypeOK /\ StackInv /\ receiver \in Threads
  BY DEF Inv, Threads
<1>2. stack' \in [Threads -> Seq(Frames)] /\ StackInv'
  <2>1. CASE UNCHANGED stack
    BY <1>1, <2>1 DEF TypeOK, StackType, reset_fdactive, programVars, jobVars, StackInv, FrameInv,
                      Token
  <2>2. ASSUME NEW order \in Orders(broken),
               stack' = [stack EXCEPT ![receiver] = Frees(order)]
        PROVE  stack' \in [Threads -> Seq(Frames)] /\ StackInv'
    <3>1. OldFrames(receiver)
      BY <1>1, OldFramesKept DEF reset_fdactive, programVars, jobVars
    <3>2. Frees(order) \in Seq(Plain)
      BY <1>1, FreesType
    <3> QED BY <1>1, <2>2, <3>1, <3>2, PlainFrames, PushStep
  <2> QED BY <2>1, <2>2 DEF reset_fdactive
<1>3. ClientType'
  <2>1. openIn' \in [Messages -> Threads \cup {None}]
    BY <1>1 DEF reset_fdactive, DisconnectAll, TypeOK, ClientType
  <2> QED BY <1>1, <2>1 DEF reset_fdactive, TypeOK, ClientType
<1>4. ProgramType' /\ JobType' /\ ServerType'
  BY <1>1, KeptTypes DEF reset_fdactive
<1>5. JobInv'
  BY DEF Inv, JobInv, reset_fdactive, programVars, jobVars
<1>6. StaleInv'
  <2>1. disconnects \in Nat /\ rep \in {0, 1}
    BY <1>1, MessageType DEF TypeOK, ProgramType, ClientType
  <2> QED BY <2>1 DEF Inv, StaleInv, reset_fdactive, programVars
<1> QED BY <1>2, <1>3, <1>4, <1>5, <1>6 DEF Inv, TypeOK, StackType

(* Steps that touch neither the threads nor the jobs. *)
LEMMA OtherStep ==
  ASSUME StackInv, JobInv, UNCHANGED <<stack, todo, jobVars, conid>>
  PROVE  StackInv' /\ JobInv'
BY DEF StackInv, FrameInv, Token, JobInv, jobVars

LEMMA select_timeoutInv ==
  ASSUME Inv, select_timeout
  PROVE  Inv'
<1>1. TypeOK
  BY DEF Inv
<1>2. ClientType'
  BY <1>1 DEF select_timeout, TypeOK, ClientType
<1>3. ProgramType' /\ StackType' /\ JobType' /\ ServerType'
  BY <1>1, KeptTypes DEF select_timeout
<1>4. StackInv' /\ JobInv'
  BY OtherStep DEF Inv, select_timeout, programVars
<1>5. StaleInv'
  <2>1. disconnects \in Nat
    BY <1>1, MessageType DEF TypeOK, ProgramType
  <2> QED BY <2>1 DEF Inv, StaleInv, select_timeout, programVars
<1> QED BY <1>2, <1>3, <1>4, <1>5 DEF Inv, TypeOK

-----------------------------------------------------------------------------
(* The servers. *)

LEMMA SendReplyType ==
  ASSUME TypeOK, NEW s \in Servers, NEW type \in {"STARTING", "FINISHED", "CHECKEDIN"},
         NEW m \in Messages \cup {None}, send_reply(s, type, m)
  PROVE  /\ link' \in [Servers -> {"none", "backlog", "open", "closed"}]
         /\ wire' \in [Servers -> Seq(Msgs)]
<1> DEFINE msg == [type |-> type, m |-> m]
<1>1. msg \in Msgs
  BY DEF Msgs
<1> HIDE DEF msg
<1>2. wire \in [Servers -> Seq(Msgs)] /\ wire[s] \in Seq(Msgs)
  BY DEF TypeOK, ServerType
<1>3. <<msg>> \in Seq(Msgs)
  BY <1>1
<1>4. Append(wire[s], msg) \in Seq(Msgs)
  BY <1>1, <1>2, AppendProperties
<1>5. wire' = [wire EXCEPT ![s] = IF link[s] \in {"none", "closed"} THEN <<msg>>
                                  ELSE Append(wire[s], msg)]
  BY <1>2 DEF send_reply, msg
<1>6. wire' \in [Servers -> Seq(Msgs)]
  BY <1>2, <1>3, <1>4, <1>5
<1> QED BY <1>6 DEF send_reply, TypeOK, ServerType

LEMMA ServerInv ==
  ASSUME Inv, NEW s \in Servers, ServerStep(s) \/ lost(s) \/ \E m \in Events : event(s, m)
  PROVE  Inv'
<1>1. TypeOK
  BY DEF Inv
<1>2. UNCHANGED <<programVars, stack, jobVars, clientVars>>
  BY DEF ServerStep, begin, DoSrvMonitor, finish, lost, event
<1>3. ServerType'
  <2>1. ASSUME NEW m \in Messages, begin(s, m)
        PROVE  ServerType'
    <3>1. ASSUME NEW type \in {"STARTING", "CHECKEDIN"}, send_reply(s, type, m)
          PROVE  ServerType'
      BY <1>1, <2>1, <3>1, SendReplyType DEF begin, DoSrvMonitor, TypeOK, ServerType
    <3>2. CASE UNCHANGED <<link, wire>>
      BY <1>1, <2>1, <3>2 DEF begin, DoSrvMonitor, TypeOK, ServerType
    <3> QED BY <2>1, <3>1, <3>2 DEF begin, DoSrvMonitor
  <2>2. ASSUME NEW m \in Messages, finish(s, m)
        PROVE  ServerType'
    BY <1>1, <2>2, SendReplyType DEF finish, TypeOK, ServerType
  <2>3. ASSUME NEW m \in Events, event(s, m)
        PROVE  ServerType'
    <3>1. m \in Messages \cup {None} /\ MaxEvents \in Nat
      BY MessageType
    <3> QED BY <1>1, <2>3, <3>1, SendReplyType DEF event, TypeOK, ServerType
  <2>4. CASE lost(s)
    BY <1>1, <2>4, MessageType DEF lost, TypeOK, ServerType
  <2> QED BY <2>1, <2>2, <2>3, <2>4 DEF ServerStep
<1>4. ProgramType' /\ StackType' /\ JobType' /\ ClientType'
  BY <1>1, <1>2, KeptTypes
<1>5. StackInv' /\ JobInv'
  BY <1>2, OtherStep DEF Inv, programVars, clientVars
<1>6. StaleInv'
  BY <1>2 DEF Inv, StaleInv, programVars, clientVars
<1> QED BY <1>3, <1>4, <1>5, <1>6 DEF Inv, TypeOK

-----------------------------------------------------------------------------
(* The steps that take a message from hand to hand. *)

(* The message a thread is about to send is in nobody else's hands. *)
LEMMA TopToken ==
  ASSUME Inv, NEW t \in Threads, NEW fn \in {"connect", "register"}, At(t, fn)
  PROVE  LET m == Top(t).m IN
         /\ m \in Messages \ todo /\ m \notin known /\ calls[m] = 0
         /\ fn = "register" => conid[m] # None
         /\ \A u \in Threads \ {t} :
              stack[u] # <<>> /\ Token(stack[u][1]) => stack[u][1].m # m
<1>1. Top(t) = stack[t][1] /\ 1 \in DOMAIN stack[t] /\ stack[t] # <<>> /\ Token(stack[t][1])
  BY TopType DEF Inv, Token
<1>2. Top(t).m \in Messages /\ Top(t).fn = fn
  BY TopType, FrameFields DEF Inv
<1>3. FrameInv(stack[t][1])
  BY <1>1 DEF Inv, StackInv
<1> QED BY <1>1, <1>2, <1>3 DEF Inv, StackInv, FrameInv

(* Of a message that is about to be sent, its thread knows this. *)
LEMMA TokenKnown ==
  ASSUME Inv, NEW u \in Threads, stack[u] # <<>>, Token(stack[u][1])
  PROVE  /\ stack[u][1].m \in Messages \ todo
         /\ stack[u][1].m \notin known /\ calls[stack[u][1].m] = 0
<1>1. At(u, stack[u][1].fn)
  BY HeadTailProperties DEF At, Inv, TypeOK, StackType
<1>2. Top(u) = stack[u][1]
  BY <1>1, TopType DEF Inv
<1>3. stack[u][1].fn \in {"connect", "register"}
  BY DEF Token
<1> QED BY <1>1, <1>2, <1>3, TopToken

(* A message nobody has sent yet. *)
LEMMA ConnectFrame ==
  ASSUME Inv, NEW t \in Threads, NEW m \in todo, m \notin todo',
         UNCHANGED known, calls'[m] = calls[m], NEW rest \in Seq(Plain)
  PROVE  LET fs == <<Call("connect", m, "unset")>> \o rest IN
         fs \in Seq(Frames) /\ NewFrames(t, fs)
<1> DEFINE f == Call("connect", m, "unset")
           fs == <<f>> \o rest
<1>1. m \in Messages /\ m \notin known /\ calls[m] = 0
  BY DEF Inv, TypeOK, ProgramType, JobInv
<1>2. f \in Frames /\ f.fn = "connect" /\ f.m = m
  BY <1>1, CallType DEF Fns, States
<1> HIDE DEF f
<1>3. /\ <<f>> \in Seq(Frames) /\ Len(<<f>>) = 1 /\ <<f>>[1] = f
      /\ rest \in Seq(Frames) /\ \A k \in 1 .. Len(rest) : rest[k] \in Plain
  <2>1. rest \in Seq(Frames)
    BY SeqMonotonic DEF Plain
  <2>2. \A k \in 1 .. Len(rest) : rest[k] \in Plain
    BY ElementOfSeq
  <2> QED BY <1>2, <2>1, <2>2
<1>4. fs \in Seq(Frames) /\ DOMAIN fs = 1 .. Len(rest) + 1 /\ Len(rest) \in Nat
  <2>1. fs \in Seq(Frames) /\ Len(fs) = Len(<<f>>) + Len(rest) /\ Len(rest) \in Nat
    BY <1>3, ConcatProperties, LenProperties
  <2> QED BY <1>3, <2>1, LenProperties
<1>5. fs[1] = f /\ \A k \in 2 .. Len(rest) + 1 : fs[k] \in Plain
  <2>1. \A k \in 1 .. Len(rest) + 1 : fs[k] = IF k <= 1 THEN <<f>>[k] ELSE rest[k - 1]
    BY <1>3, <1>4, ConcatProperties
  <2> QED BY <1>3, <1>4, <2>1
<1> HIDE DEF fs
<1>6. ASSUME NEW u \in Threads \ {t}, stack[u] # <<>>, Token(stack[u][1])
      PROVE  stack[u][1].m # m
  BY <1>6, TokenKnown
<1>7. ASSUME NEW k \in DOMAIN fs
      PROVE  /\ FrameInv(fs[k])'
             /\ Token(fs[k]) => k = 1 /\ \A u \in Threads \ {t} :
                  stack[u] # <<>> /\ Token(stack[u][1]) => stack[u][1].m # fs[k].m
  <2>1. CASE k = 1
    BY <1>1, <1>2, <1>5, <1>6, <2>1 DEF FrameInv, Token
  <2>2. CASE k # 1
    <3>1. fs[k] \in Plain
      BY <1>4, <1>5, <2>2
    <3> QED BY <3>1 DEF FrameInv, Token, Plain
  <2> QED BY <2>1, <2>2
<1> QED BY <1>4, <1>7 DEF NewFrames, fs, f

LEMMA ServerSendMessageInv ==
  ASSUME Inv, NEW t \in Threads, NEW m \in Messages, ServerSendMessage(t, m)
  PROVE  Inv'
<1>1. TypeOK /\ StackInv
  BY DEF Inv
<1>2. stack' \in [Threads -> Seq(Frames)] /\ StackInv'
  <2>1. OldFrames(t)
    BY <1>1, OldFramesKept DEF ServerSendMessage, jobVars, clientVars
  <2>2. PICK fs : fs = <<Call("connect", m, "unset")>>
    OBVIOUS
  <2>3. fs = <<Call("connect", m, "unset")>> \o <<>> /\ <<>> \in Seq(Plain)
    <3>1. Call("connect", m, "unset") \in Frames
      BY CallType DEF Fns, States
    <3>2. fs \in Seq(Frames) /\ <<>> \in Seq(Plain)
      BY <2>2, <3>1, EmptySeq
    <3> QED BY <2>2, <3>2, ConcatEmptySeq
  <2>4. fs \in Seq(Frames) /\ NewFrames(t, fs)
    BY <2>3, ConnectFrame DEF ServerSendMessage, jobVars
  <2> QED BY <1>1, <2>1, <2>2, <2>4, PushStep DEF ServerSendMessage
<1>3. ProgramType'
  BY <1>1 DEF ServerSendMessage, TypeOK, ProgramType
<1>4. JobType' /\ ClientType' /\ ServerType'
  BY <1>1, KeptTypes DEF ServerSendMessage
<1>5. JobInv' /\ StaleInv'
  BY DEF Inv, JobInv, StaleInv, ServerSendMessage, jobVars, clientVars
<1> QED BY <1>2, <1>3, <1>4, <1>5 DEF Inv, TypeOK, StackType

LEMMA Job_registerInv ==
  ASSUME Inv, NEW t \in Threads, Job_register(t)
  PROVE  Inv'
<1> DEFINE m == Top(t).m
<1>1. TypeOK /\ StackInv /\ JobInv
  BY DEF Inv
<1>2. /\ m \in Messages \ todo /\ m \notin known /\ calls[m] = 0 /\ conid[m] # None
      /\ \A u \in Threads \ {t} :
           stack[u] # <<>> /\ Token(stack[u][1]) => stack[u][1].m # m
  BY TopToken DEF Job_register
<1>3. stack' \in [Threads -> Seq(Frames)] /\ StackInv'
  <2>1. OldFrames(t)
    <3>1. \A u \in Threads \ {t} :
            stack[u] # <<>> /\ Token(stack[u][1]) =>
              LET n == stack[u][1].m IN n \notin todo /\ n \notin known /\ n # m /\ calls[n] = 0
      BY <1>2, TokenKnown
    <3> QED BY <1>2, <3>1 DEF OldFrames, Job_register, programVars, clientVars
  <2>2. <<Call("send", m, "unset")>> \in Seq(Plain)
    BY <1>2, PlainCall, OnePlain DEF Fns, States
  <2> QED BY <1>1, <2>1, <2>2, PlainFrames, BecomeStep DEF Job_register
<1>4. JobType'
  BY <1>1, <1>2 DEF Job_register, TypeOK, JobType
<1>5. ProgramType' /\ ClientType' /\ ServerType'
  BY <1>1, KeptTypes DEF Job_register
<1>6. JobInv'
  <2>1. \A n \in Messages : cond'[n] # "NULL" => n \in known'
    BY <1>1, <1>2 DEF Job_register, JobInv, TypeOK, JobType
  <2>2. freed' \subseteq known' \ Jobs' /\ Jobs' \subseteq known' /\ armed' \subseteq known'
    BY <1>1, <1>2 DEF Job_register, JobInv
  <2>3. \A n \in known' : conid'[n] # None /\ n \notin todo'
    BY <1>1, <1>2 DEF Job_register, JobInv, programVars, clientVars
  <2>4. \A n \in armed' : kind[n] = "action" => calls'[n] = 0
    BY <1>1, <1>2 DEF Job_register, JobInv
  <2>5. MonJob' # None => kind[MonJob'] = "checkin"
    BY <1>1, <1>2 DEF Job_register, JobInv
  <2> QED BY <1>1, <2>1, <2>2, <2>3, <2>4, <2>5 DEF Job_register, JobInv, programVars
<1>7. StaleInv'
  BY DEF Inv, StaleInv, Job_register, programVars, clientVars
<1> QED BY <1>3, <1>4, <1>5, <1>6, <1>7 DEF Inv, TypeOK, StackType

(* The callback of m, which may send another message. *)
LEMMA CallbackFrames ==
  ASSUME Inv, NEW t \in Threads, NEW m \in Messages \ todo, CallbackTakes(m),
         UNCHANGED known, calls' = [calls EXCEPT ![m] = @ + 1], NEW rest \in Seq(Plain)
  PROVE  CallbackSends(m) \o rest \in Seq(Frames) /\ NewFrames(t, CallbackSends(m) \o rest)
<1>1. CASE next[m] \in todo
  <2>1. next[m] # m /\ next[m] \notin todo' /\ calls'[next[m]] = calls[next[m]]
    BY <1>1 DEF CallbackTakes, Inv, TypeOK, ProgramType, JobType
  <2>2. PICK n : n = next[m]
    OBVIOUS
  <2> QED BY <1>1, <2>1, <2>2, ConnectFrame DEF CallbackSends
<1>2. CASE next[m] \notin todo
  <2>1. CallbackSends(m) \o rest = rest
    BY <1>2, ConcatEmptySeq DEF CallbackSends
  <2> QED BY <2>1, PlainFrames
<1> QED BY <1>1, <1>2

LEMMA CallbackOldFrames ==
  ASSUME Inv, NEW t \in Threads, NEW m \in Messages, CallbackTakes(m),
         UNCHANGED <<known, Jobs, conid>>, calls' = [calls EXCEPT ![m] = @ + 1],
         \A u \in Threads \ {t} : stack[u] # <<>> /\ Token(stack[u][1]) => stack[u][1].m # m
  PROVE  OldFrames(t)
<1>1. \A u \in Threads \ {t} :
        stack[u] # <<>> /\ Token(stack[u][1]) =>
          LET n == stack[u][1].m IN
          n \in Messages /\ n \notin todo /\ n \notin known /\ n # m /\ calls[n] = 0
  BY TokenKnown
<1> QED BY <1>1 DEF OldFrames, CallbackTakes, Inv, TypeOK, JobType

LEMMA Job_callback_doneInv ==
  ASSUME Inv, NEW t \in Threads, Job_callback_done(t)
  PROVE  Inv'
<1> DEFINE m == Top(t).m
           rest == IF Top(t).rm /\ m # MonJob THEN <<Call("finish", m, "unset")>> ELSE <<>>
<1>1. TypeOK /\ StackInv /\ JobInv /\ m \in Messages /\ Top(t).st \in States
  BY TopType, FrameFields DEF Job_callback_done, Inv
<1>2. rest \in Seq(Plain)
  BY <1>1, PlainCall, OnePlain, EmptySeq DEF Fns, States
<1> HIDE DEF rest
<1>3. CASE m \in armed
  <2>1. m \in known /\ m \notin todo
    BY <1>1, <1>3 DEF JobInv
  <2>2. /\ CallbackTakes(m) /\ UNCHANGED <<known, Jobs, conid>>
        /\ calls' = [calls EXCEPT ![m] = @ + 1]
        /\ Become(t, CallbackSends(m) \o rest)
    BY <1>3 DEF Job_callback_done, clientVars, rest
  <2>3. OldFrames(t)
    BY <1>1, <2>1, <2>2, TokenKnown, CallbackOldFrames
  <2>4. CallbackSends(m) \o rest \in Seq(Frames) /\ NewFrames(t, CallbackSends(m) \o rest)
    BY <1>1, <1>2, <2>1, <2>2, CallbackFrames
  <2>5. stack' \in [Threads -> Seq(Frames)] /\ StackInv'
    <3>1. PICK fs : fs = CallbackSends(m) \o rest
      OBVIOUS
    <3>2. fs \in Seq(Frames) /\ NewFrames(t, fs) /\ Become(t, fs)
      BY <2>2, <2>4, <3>1
    <3> QED BY <1>1, <2>3, <3>2, BecomeStep DEF Job_callback_done
  <2>6. ProgramType'
    BY <1>1, <2>2 DEF CallbackTakes, Job_callback_done, TypeOK, ProgramType
  <2>7. JobType'
    BY <1>1, <2>2 DEF Job_callback_done, TypeOK, JobType
  <2>8. ClientType' /\ ServerType'
    BY <1>1, KeptTypes DEF Job_callback_done
  <2>9. JobInv'
    <3>1. todo' \subseteq todo
      BY <2>2 DEF CallbackTakes
    <3>2. \A n \in armed' : kind[n] = "action" => calls'[n] = 0
      <4>1. armed' = IF m = MonJob THEN armed ELSE armed \ {m}
        BY DEF Job_callback_done
      <4>2. m = MonJob => kind[m] = "checkin"
        BY <1>1, MessageType DEF JobInv
      <4>3. \A n \in armed : n # m => calls'[n] = calls[n]
        BY <1>1, <2>2 DEF JobInv, TypeOK, JobType
      <4> QED BY <1>1, <4>1, <4>2, <4>3 DEF JobInv
    <3>3. \A n \in todo' : calls'[n] = 0
      BY <1>1, <2>1, <2>2, <3>1 DEF JobInv, TypeOK, JobType
    <3> QED BY <1>1, <2>2, <3>1, <3>2, <3>3 DEF Job_callback_done, JobInv
  <2>10. StaleInv'
    BY DEF Inv, StaleInv, Job_callback_done, clientVars
  <2> QED BY <2>5, <2>6, <2>7, <2>8, <2>9, <2>10 DEF Inv, TypeOK, StackType
<1>4. CASE m \notin armed
  <2>1. UNCHANGED <<todo, known, Jobs, conid, calls>> /\ Become(t, <<>> \o rest)
    <3>1. calls' = calls
      BY <1>1, <1>4 DEF Job_callback_done, TypeOK, JobType
    <3> QED BY <1>4, <3>1 DEF Job_callback_done, clientVars, rest
  <2>2. <<>> \o rest = rest
    BY <1>2, ConcatEmptySeq
  <2>3. OldFrames(t)
    BY <1>1, <2>1, OldFramesKept
  <2>4. stack' \in [Threads -> Seq(Frames)] /\ StackInv'
    BY <1>1, <1>2, <2>1, <2>2, <2>3, PlainFrames, BecomeStep DEF Job_callback_done
  <2>5. JobType' /\ ProgramType'
    BY <1>1, <2>1 DEF Job_callback_done, TypeOK, JobType, ProgramType
  <2>6. ClientType' /\ ServerType'
    BY <1>1, KeptTypes DEF Job_callback_done
  <2>7. JobInv'
    BY <1>1, <2>1 DEF Job_callback_done, JobInv
  <2>8. StaleInv'
    BY DEF Inv, StaleInv, Job_callback_done, clientVars
  <2> QED BY <2>4, <2>5, <2>6, <2>7, <2>8 DEF Inv, TypeOK, StackType
<1> QED BY <1>3, <1>4

LEMMA server_connectInv ==
  ASSUME Inv, NEW t \in Threads, server_connect(t)
  PROVE  Inv'
<1> DEFINE m == Top(t).m
           s == to[m]
<1>1. TypeOK /\ StackInv /\ JobInv
  BY DEF Inv
<1>2. /\ m \in Messages \ todo /\ m \notin known /\ calls[m] = 0
      /\ \A u \in Threads \ {t} :
           stack[u] # <<>> /\ Token(stack[u][1]) => stack[u][1].m # m
  BY TopToken DEF server_connect
<1>3. s \in Servers
  BY <1>2, MessageType
<1>4. UNCHANGED <<Jobs, known>> /\ ServerType' /\ StaleInv'
  BY <1>1, KeptTypes DEF server_connect, Inv, StaleInv
<1> DEFINE Goal == /\ stack' \in [Threads -> Seq(Frames)] /\ StackInv'
                   /\ ProgramType' /\ JobType' /\ ClientType' /\ JobInv'
<1>5. (* The message is going to be registered. *)
      ASSUME NEW c \in Messages,
             conid' = [conid EXCEPT ![m] = c],
             Become(t, <<Call("register", m, "unset")>>),
             UNCHANGED <<todo, calls>>,
             Clients' \in [Servers -> Messages \cup {None}],
             openIn' \in [Messages -> Threads \cup {None}]
      PROVE  Goal
  <2>1. c # None /\ conid'[m] = c /\ \A n \in Messages : n # m => conid'[n] = conid[n]
    BY <1>2, <1>5, MessageType DEF Inv, TypeOK, ClientType
  <2>2. OldFrames(t)
    <3>1. \A u \in Threads \ {t} :
            stack[u] # <<>> /\ Token(stack[u][1]) =>
              LET n == stack[u][1].m IN
              n \in Messages /\ n \notin todo /\ n \notin known /\ n # m /\ calls[n] = 0
      BY <1>2, TokenKnown
    <3> QED BY <1>4, <1>5, <2>1, <3>1 DEF OldFrames
  <2>3. PICK f : f = Call("register", m, "unset")
    OBVIOUS
  <2>4. f \in Frames /\ f.fn = "register" /\ f.m = m
    BY <1>2, <2>3, CallType DEF Fns, States
  <2>5. FrameInv(f)'
    BY <1>2, <1>4, <1>5, <2>1, <2>4 DEF FrameInv, Token
  <2>6. <<f>> \in Seq(Frames) /\ NewFrames(t, <<f>>)
    BY <1>2, <2>4, <2>5 DEF NewFrames
  <2>7. stack' \in [Threads -> Seq(Frames)] /\ StackInv'
    BY <1>1, <1>5, <2>2, <2>3, <2>6, BecomeStep DEF server_connect
  <2>8. ProgramType' /\ JobType'
    BY <1>1, <1>5 DEF server_connect, TypeOK, ProgramType, JobType
  <2>9. ClientType'
    BY <1>1, <1>2, <1>5 DEF server_connect, TypeOK, ClientType
  <2>10. JobInv'
    <3>1. \A n \in known : conid'[n] # None
      BY <1>1, <1>2, <2>1 DEF JobInv, TypeOK, JobType
    <3> QED BY <1>1, <1>5, <3>1 DEF JobInv, server_connect
  <2> QED BY <2>7, <2>8, <2>9, <2>10
<1>6. (* The callback is called. *)
      ASSUME calls' = [calls EXCEPT ![m] = @ + 1],
             CallbackTakes(m),
             Become(t, CallbackSends(m)),
             UNCHANGED <<Clients, openIn, conid>>
      PROVE  Goal
  <2>1. OldFrames(t)
    BY <1>2, <1>4, <1>6, CallbackOldFrames
  <2>2. PICK fs : fs = CallbackSends(m)
    OBVIOUS
  <2>3. fs \in Seq(Frames) /\ NewFrames(t, fs)
    <3>1. <<>> \in Seq(Plain)
      BY EmptySeq
    <3>2. fs \o <<>> \in Seq(Frames) /\ NewFrames(t, fs \o <<>>)
      BY <1>2, <1>4, <1>6, <2>2, <3>1, CallbackFrames
    <3>3. fs \in Seq(Frames)
      <4>1. CASE next[m] \in todo
        <5>1. Call("connect", next[m], "unset") \in Frames
          BY <1>1, <4>1, CallType DEF Fns, States, TypeOK, ProgramType
        <5> QED BY <2>2, <4>1, <5>1 DEF CallbackSends
      <4>2. CASE next[m] \notin todo
        BY <2>2, <4>2, EmptySeq DEF CallbackSends
      <4> QED BY <4>1, <4>2
    <3> QED BY <3>2, <3>3, ConcatEmptySeq
  <2>4. stack' \in [Threads -> Seq(Frames)] /\ StackInv'
    BY <1>1, <1>6, <2>1, <2>2, <2>3, BecomeStep DEF server_connect
  <2>5. ProgramType' /\ JobType' /\ ClientType'
    <3>1. ProgramType' /\ ClientType'
      BY <1>1, <1>6 DEF server_connect, CallbackTakes, TypeOK, ProgramType, ClientType
    <3>2. JobType'
      <4>1. calls \in [Messages -> Nat]
        BY <1>1 DEF TypeOK, JobType
      <4>2. calls' \in [Messages -> Nat]
        <5>1. PICK n \in Messages : n = m
          BY <1>2
        <5>2. calls' = [calls EXCEPT ![n] = 0 + 1]
          BY <1>2, <1>6, <4>1, <5>1
        <5> QED BY <4>1, <5>2
      <4> QED BY <1>1, <4>2 DEF server_connect, TypeOK, JobType
    <3> QED BY <3>1, <3>2
  <2>6. JobInv'
    <3>1. todo' \subseteq todo
      BY <1>6 DEF CallbackTakes
    <3>2. \A n \in Messages : n # m => calls'[n] = calls[n]
      BY <1>1, <1>6 DEF TypeOK, JobType
    <3>3. m \notin armed /\ armed \subseteq Messages /\ todo \subseteq Messages
      BY <1>1, <1>2 DEF JobInv, TypeOK, JobType, ProgramType
    <3> QED BY <1>1, <1>2, <1>6, <3>1, <3>2, <3>3 DEF JobInv, server_connect
  <2> QED BY <2>4, <2>5, <2>6
<1>7. (* There is no callback. *)
      ASSUME Become(t, AfterSend(m)),
             UNCHANGED <<todo, calls, Clients, openIn, conid>>
      PROVE  Goal
  <2>1. OldFrames(t)
    BY <1>1, <1>4, <1>7, OldFramesKept
  <2>2. AfterSend(m) \in Seq(Plain)
    BY <1>2, PlainAfterSend
  <2>3. stack' \in [Threads -> Seq(Frames)] /\ StackInv'
    BY <1>1, <1>7, <2>1, <2>2, PlainFrames, BecomeStep DEF server_connect
  <2>4. ProgramType' /\ JobType' /\ ClientType'
    BY <1>1, <1>7 DEF server_connect, TypeOK, ProgramType, JobType, ClientType
  <2>5. JobInv'
    BY <1>1, <1>7 DEF JobInv, server_connect
  <2> QED BY <2>3, <2>4, <2>5
<1>8. Goal
  <2>1. CASE /\ HasSocket(t, Clients[s])
             /\ conid' = [conid EXCEPT ![m] = Clients[s]]
             /\ Become(t, <<Call("register", m, "unset")>>)
             /\ UNCHANGED <<Clients, openIn, todo, calls>>
    <3>1. Clients[s] \in Messages
      BY <1>1, <1>3, <2>1 DEF HasSocket, TypeOK, ClientType
    <3> QED BY <1>1, <1>5, <2>1, <3>1 DEF TypeOK, ClientType
  <2>2. CASE /\ conid' = [conid EXCEPT ![m] = m]
             /\ openIn' = [openIn EXCEPT ![m] = t]
             /\ Clients' = [Clients EXCEPT ![s] = m]
             /\ Become(t, <<Call("register", m, "unset")>>)
             /\ UNCHANGED <<todo, calls>>
    <3>1. Clients' \in [Servers -> Messages \cup {None}]
      BY <1>1, <1>2, <1>3, <2>2 DEF TypeOK, ClientType
    <3>2. openIn' \in [Messages -> Threads \cup {None}]
      BY <1>1, <2>2 DEF TypeOK, ClientType
    <3> QED BY <1>2, <1>5, <2>2, <3>1, <3>2
  <2> QED BY <1>6, <1>7, <2>1, <2>2 DEF server_connect
<1> QED BY <1>4, <1>8 DEF Inv, TypeOK, StackType

-----------------------------------------------------------------------------
(* The invariant. *)

LEMMA InitInv == Init => Inv
<1> SUFFICES ASSUME Init PROVE Inv
  OBVIOUS
<1>1. MaxDisconnects \in Nat /\ MaxEvents \in Nat
  BY MessageType
<1>2. StackType /\ StackInv
  <2>1. \A t \in Threads : stack[t] = <<>> /\ DOMAIN stack[t] = {}
    BY DEF Init
  <2> QED BY <2>1, EmptySeq DEF Init, StackType, StackInv
<1>3. ProgramType /\ JobType /\ ClientType
  <2>1. ProgramType
    BY <1>1 DEF Init, ProgramType
  <2>2. ClientType
    BY DEF Init, ClientType
  <2>3. JobType
    BY DEF Init, JobType, States
  <2> QED BY <2>1, <2>2, <2>3
<1>4. ServerType
  BY <1>1, EmptySeq DEF Init, ServerType
<1>5. JobInv /\ StaleInv
  BY DEF Init, JobInv, StaleInv
<1> QED BY <1>2, <1>3, <1>4, <1>5 DEF Inv, TypeOK

LEMMA NextInv == Inv /\ [Next]_vars => Inv'
<1> SUFFICES ASSUME Inv, [Next]_vars PROVE Inv'
  OBVIOUS
<1>1. ASSUME NEW t \in Senders, NEW m \in Messages, ServerSendMessage(t, m)
      PROVE  Inv'
  BY <1>1, ServerSendMessageInv DEF Threads
<1>2. ASSUME NEW t \in Senders, NEW s \in Servers, ServerDisconnect(t, s)
      PROVE  Inv'
  BY <1>2, ServerDisconnectInv DEF Threads
<1>3. ASSUME NEW t \in Senders, Job_abandon_locked(t)
      PROVE  Inv'
  BY <1>3, Job_abandon_lockedInv DEF Threads
<1>4. ASSUME NEW t \in Threads, ThreadStep(t)
      PROVE  Inv'
  BY <1>4, server_connectInv, Job_registerInv, SendArgInv, GetAnswerInfoTSInv, Job_cleanupInv,
     Job_callback_doneInv, Job_finishInv, freeInv, Job_pop_by_conidInv, ServerWaitInv,
     Job_wait_and_pop_lockedInv, unlock_clientsInv DEF ThreadStep
<1>5. ASSUME ReceiverStep
      PROVE  Inv'
  BY <1>5, accept_clientInv, receiver_threadInv, Client_do_messageInv, Job_callback_beforeInv,
     reset_fdactiveInv, select_timeoutInv DEF ReceiverStep
<1>6. ASSUME NEW s \in Servers, ServerStep(s) \/ lost(s) \/ \E m \in Events : event(s, m)
      PROVE  Inv'
  BY <1>6, ServerInv
<1>7. CASE UNCHANGED vars
  <2>1. TypeOK'
    BY <1>7, KeptTypes DEF Inv, TypeOK, vars, programVars, jobVars, clientVars, serverVars
  <2>2. StackInv' /\ JobInv' /\ StaleInv'
    BY <1>7, OtherStep DEF Inv, StaleInv, vars, jobVars
  <2> QED BY <2>1, <2>2 DEF Inv
<1> QED BY <1>1, <1>2, <1>3, <1>4, <1>5, <1>6, <1>7 DEF Next

LEMMA InvHolds == Spec => []Inv
BY InitInv, NextInv, PTL DEF Spec

(***************************************************************************)
(* Every variable of JobTable keeps its type, the call stacks included:     *)
(* each frame the C functions push is one the model knows.                  *)
(***************************************************************************)
THEOREM TypeCorrect == Spec => []TypeOK
<1>1. Inv => TypeOK
  BY DEF Inv
<1> QED BY <1>1, InvHolds, PTL

(***************************************************************************)
(* No job that was freed is in the list Jobs, and no client that was freed  *)
(* is in the list of clients unless ServerDisconnect was called twice:      *)
(* whoever frees a job, Job_cleanup, Job_pop_by_conid, Job_callback_done or *)
(* the thread that waited, has popped it first.                             *)
(***************************************************************************)
THEOREM FreedNotListed == Spec => []ListsLive
<1>1. Inv => ListsLive
  BY DEF Inv, JobInv, StaleInv, ListsLive
<1> QED BY <1>1, InvHolds, PTL

-----------------------------------------------------------------------------
(* Callbacks. *)

(* A step that calls back one message, or none, is one of the abstraction. *)
LEMMA CallBackStep ==
  ASSUME Inv, NEW m \in Messages, kind[m] = "action" => calls[m] = 0,
         UNCHANGED known, calls' = [calls EXCEPT ![m] = @ + 1]
  PROVE  [CB!Next]_CB!vars
<1> DEFINE abs == [n \in CalledOnce |-> calls[n]]
<1>1. calls \in [Messages -> Nat]
  BY DEF Inv, TypeOK, JobType
<1>2. CASE m \in CalledOnce
  <2>1. calls[m] = 0 /\ calls'[m] = 1 /\ \A n \in Messages : n # m => calls'[n] = calls[n]
    BY <1>1, <1>2 DEF CalledOnce
  <2>2. CalledOnce \subseteq Messages
    BY DEF CalledOnce
  <2>3. abs' = [abs EXCEPT ![m] = 1]
    BY <1>1, <1>2, <2>1, <2>2
  <2>4. abs[m] = 0
    BY <1>2, <2>1
  <2>5. CB!CallBack(m)
    BY <2>3, <2>4 DEF CB!CallBack
  <2> QED BY <1>2, <2>5 DEF CB!Next
<1>3. CASE m \notin CalledOnce
  <2>1. \A n \in CalledOnce : calls'[n] = calls[n]
    BY <1>1, <1>3 DEF CalledOnce
  <2> QED BY <2>1 DEF CB!vars
<1> QED BY <1>2, <1>3

LEMMA StutterStep ==
  ASSUME UNCHANGED <<known, calls>>
  PROVE  [CB!Next]_CB!vars
BY DEF CB!vars

LEMMA CallbackNext ==
  ASSUME Inv, [Next]_vars
  PROVE  [CB!Next]_CB!vars
<1>1. ASSUME NEW t \in Threads, server_connect(t)
      PROVE  [CB!Next]_CB!vars
  <2>1. Top(t).m \in Messages /\ calls[Top(t).m] = 0 /\ UNCHANGED known
    BY <1>1, TopToken DEF server_connect
  <2> QED BY <1>1, <2>1, CallBackStep, StutterStep DEF server_connect
<1>2. ASSUME NEW t \in Threads, Job_register(t)
      PROVE  [CB!Next]_CB!vars
  <2> DEFINE m == Top(t).m
  <2>1. m \in Messages /\ m \notin known /\ calls[m] = 0
    BY <1>2, TopToken DEF Job_register
  <2>2. known' = known \cup {m} /\ calls' = calls
    BY <1>2 DEF Job_register
  <2>3. CASE m \in CalledOnce
    <3>1. CB!Register(m)
      BY <2>1, <2>2, <2>3 DEF CB!Register
    <3> QED BY <2>3, <3>1 DEF CB!Next
  <2>4. CASE m \notin CalledOnce
    <3>1. known' \cap CalledOnce = known \cap CalledOnce
      BY <2>2, <2>4
    <3> QED BY <2>2, <3>1 DEF CB!vars
  <2> QED BY <2>3, <2>4
<1>3. ASSUME NEW t \in Threads, Job_callback_done(t)
      PROVE  [CB!Next]_CB!vars
  <2> DEFINE m == Top(t).m
  <2>1. m \in Messages /\ UNCHANGED known /\ calls \in [Messages -> Nat]
    BY <1>3, TopType, FrameFields DEF Job_callback_done, Inv, TypeOK, JobType
  <2>2. CASE m \in armed
    <3>1. kind[m] = "action" => calls[m] = 0
      BY <2>2 DEF Inv, JobInv
    <3>2. calls' = [calls EXCEPT ![m] = @ + 1]
      BY <1>3, <2>2 DEF Job_callback_done
    <3> QED BY <2>1, <3>1, <3>2, CallBackStep
  <2>3. CASE m \notin armed
    BY <1>3, <2>1, <2>3, StutterStep DEF Job_callback_done
  <2> QED BY <2>2, <2>3
<1>4. ASSUME NEW t \in Threads,
             SendArg(t) \/ GetAnswerInfoTS(t) \/ Job_cleanup(t) \/ Job_finish(t) \/ free(t)
             \/ Job_pop_by_conid(t) \/ ServerWait(t) \/ Job_wait_and_pop_locked(t)
             \/ unlock_clients(t) \/ Job_abandon_locked(t)
      PROVE  UNCHANGED <<known, calls>>
  BY <1>4 DEF SendArg, GetAnswerInfoTS, Job_cleanup, Job_finish, free, Job_pop_by_conid,
     ServerWait, Job_wait_and_pop_locked, unlock_clients, Job_abandon_locked, jobVars
<1>5. ASSUME ReceiverStep \/ (\E t \in Senders, m \in Messages : ServerSendMessage(t, m))
             \/ (\E t \in Senders, s \in Servers : ServerDisconnect(t, s))
             \/ (\E s \in Servers : ServerStep(s) \/ lost(s) \/ \E m \in Events : event(s, m))
      PROVE  UNCHANGED <<known, calls>>
  BY <1>5 DEF ReceiverStep, accept_client, receiver_thread, Client_do_message,
     Job_callback_before, reset_fdactive, select_timeout, ServerSendMessage, ServerDisconnect,
     ServerStep, begin, DoSrvMonitor, finish, lost, event, jobVars
<1>6. CASE UNCHANGED vars
  BY <1>6, StutterStep DEF vars
<1> QED BY <1>1, <1>2, <1>3, <1>4, <1>5, <1>6, StutterStep DEF Next, ThreadStep, Threads

(***************************************************************************)
(* JobTable implements the safety part of Callbacks: whatever calls the     *)
(* callback of an action, the reply, the failed handshake, the lost server  *)
(* or ServerDisconnect, none of the others calls it again.                  *)
(***************************************************************************)
THEOREM CalledAtMostOnce == Spec => CallbackSpec
<1>1. Init => CB!Init
  BY DEF Init, CB!Init, CalledOnce
<1>2. Inv /\ [Next]_vars => [CB!Next]_CB!vars
  BY CallbackNext
<1> QED BY <1>1, <1>2, InvHolds, PTL DEF Spec, CallbackSpec, CB!Spec
================================================================================
