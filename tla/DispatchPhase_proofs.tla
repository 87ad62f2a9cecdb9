------------------------ MODULE DispatchPhase_proofs ------------------------
(***************************************************************************)
(* Type correctness and the group barrier of ServerDispatchPhase, for every *)
(* dispatch table, and what DISPATCH/PHASE promises to the dispatcher:      *)
(* which locks can leak, when a conditional action is dispatched, and that  *)
(* what a phase reports when it returns is the truth.                       *)
(***************************************************************************)
EXTENDS DispatchPhase, TLAPS, SequenceTheorems, WellFoundedInduction

-----------------------------------------------------------------------------
(* The look-ups in the table. *)

(* A non-empty set of natural numbers has a least element. *)
LEMMA Least ==
  ASSUME NEW T, T \subseteq Nat, T # {}
  PROVE  \E x \in T : \A y \in T : x <= y
<1> DEFINE R == OpToRel(<, Nat)
<1>1. IsWellFoundedOn(R, Nat)
  BY NatLessThanWellFounded
<1>2. PICK x \in T : \A y \in T : <<y, x>> \notin R
  <2> HIDE DEF R
  <2> QED BY <1>1, WFMin
<1>3. \A y \in T : ~(y < x)
  BY <1>2 DEF OpToRel
<1> QED BY <1>3

(* The loop of FIND_NEXT_ACTION ends at the first index that meets the      *)
(* condition, or at END.                                                    *)
LEMMA FindNext ==
  ASSUME NEW start \in Nat, NEW end \in Nat, start <= end, NEW Cond
  PROVE  LET r == FIND_NEXT_ACTION(start, end, Cond)
         IN  /\ r \in start .. end
             /\ r = end \/ r \in Cond
             /\ \A j \in start .. r - 1 : j \notin Cond
<1> DEFINE T == {k \in start .. end : k = end \/ k \in Cond}
<1>1. PICK x \in T : \A y \in T : x <= y
  <2>1. T \subseteq Nat /\ T # {}
    OBVIOUS
  <2> HIDE DEF T
  <2> QED BY <2>1, Least
<1>2. \E r \in start .. end : /\ r = end \/ r \in Cond
                              /\ \A j \in start .. r - 1 : j \notin Cond
  <2> WITNESS x \in start .. end
  <2> QED BY <1>1
<1> QED BY <1>2 DEF FIND_NEXT_ACTION

(* set_action_ranges: the ranges lie in the table, and the second one holds *)
(* sequential actions of the phase only.                                    *)
LEMMA ActionRanges ==
  ASSUME NEW p \in Phases
  PROVE  LET r == set_action_ranges(p)
         IN  /\ {r.first_c, r.last_c, r.first_s, r.last_s} \subseteq 0 .. num
             /\ r.first_s <= r.last_s
             /\ \A a \in r.first_s .. r.last_s - 1 :
                  a \in Actions \ Conditional /\ phase[a] = p
<1> DEFINE i0 == FIND_NEXT_ACTION(0, num, InPhase(p))
           NotC == Actions \ (InPhase(p) \cap Conditional)
           c1 == FIND_NEXT_ACTION(i0 + 1, num, NotC)
           hasCond == i0 \in Conditional
           i1 == IF hasCond THEN c1 ELSE i0
           hasSeq == i1 \in InPhase(p)
           NotP == Actions \ InPhase(p)
           s1 == FIND_NEXT_ACTION(i1 + 1, num, NotP)
<1>0. num \in Nat /\ Conditional \subseteq Actions /\ InPhase(p) \subseteq Actions
  BY TableType DEF InPhase
<1>1. i0 \in 0 .. num
  <2> HIDE DEF i0
  <2> QED BY <1>0, FindNext DEF i0
<1>2. hasCond => i0 + 1 <= num /\ i0 + 1 \in Nat
  <2> HIDE DEF i0
  <2> QED BY <1>0, <1>1 DEF Actions
<1>3. hasCond => c1 \in i0 + 1 .. num /\ (c1 = num \/ c1 \in NotC)
  <2> SUFFICES ASSUME hasCond PROVE c1 \in i0 + 1 .. num /\ (c1 = num \/ c1 \in NotC)
    OBVIOUS
  <2> HIDE DEF i0, NotC
  <2> QED BY <1>0, <1>2, FindNext
<1>4. i1 \in 0 .. num /\ (hasSeq => i1 \notin Conditional)
  <2> HIDE DEF i0, c1
  <2> QED BY <1>0, <1>1, <1>3 DEF Actions
<1>5. hasSeq => /\ i1 \in Actions
                /\ i1 + 1 <= num /\ i1 + 1 \in Nat
  <2> HIDE DEF i1
  <2> QED BY <1>0, <1>4 DEF Actions
<1>6. hasSeq => /\ s1 \in i1 + 1 .. num
                /\ \A j \in i1 + 1 .. s1 - 1 : j \notin NotP
  <2> SUFFICES ASSUME hasSeq PROVE /\ s1 \in i1 + 1 .. num
                                   /\ \A j \in i1 + 1 .. s1 - 1 : j \notin NotP
    OBVIOUS
  <2> HIDE DEF i1, NotP
  <2> QED BY <1>0, <1>5, FindNext
<1>7. ASSUME hasSeq, NEW a \in i1 .. s1 - 1
      PROVE  a \in Actions \ Conditional /\ phase[a] = p
  <2> HIDE DEF i1, s1
  <2>1. a \in Actions /\ i1 \in Actions /\ i1 \in InPhase(p) /\ i1 <= a
    BY <1>0, <1>4, <1>5, <1>6, <1>7 DEF Actions
  <2>2. a \in InPhase(p)
    BY <1>0, <1>4, <1>6, <1>7, <2>1
  <2>3. sequence[i1] > 0
    BY <1>4, <1>7, <2>1, TableSorted DEF InPhase
  <2>4. sequence[i1] <= sequence[a]
    <3>1. phase[i1] = p /\ phase[a] = p /\ p \in Int
      BY <2>1, <2>2, TableType DEF InPhase
    <3>2. sequence[i1] \in Int /\ sequence[a] \in Int
      BY <2>1, TableType
    <3>3. CASE i1 < a
      BY <2>1, <3>1, <3>2, <3>3, TableSorted
    <3>4. CASE i1 = a
      BY <3>2, <3>4
    <3> QED BY <2>1, <3>3, <3>4, TableType DEF Actions
  <2>5. a \notin Conditional
    BY <2>1, <2>3, <2>4, TableSorted, TableType
  <2> QED BY <2>1, <2>2, <2>5 DEF InPhase
<1>8. set_action_ranges(p) =
        [first_c |-> IF hasCond THEN i0 ELSE num,
         last_c  |-> IF hasCond THEN i1 ELSE num,
         first_s |-> IF hasSeq THEN i1 ELSE num,
         last_s  |-> IF hasSeq THEN s1 ELSE num]
  BY DEF set_action_ranges
<1> HIDE DEF i0, i1, s1, hasCond, hasSeq
<1>9. IF hasSeq THEN i1 <= s1 /\ i1 \in 0 .. num /\ s1 \in 0 .. num ELSE TRUE
  BY <1>0, <1>4, <1>6
<1> QED BY <1>0, <1>1, <1>4, <1>7, <1>8, <1>9

(* set_group: the group is not empty, lies in the range, and its actions    *)
(* have the same sequence number divided by SYNCH.                          *)
LEMMA GroupRange ==
  ASSUME NEW s, NEW g \in Nat, NEW last \in 0 .. num, g < last
  PROVE  /\ set_group(s, g, last) \in g + 1 .. last
         /\ \A a \in g .. set_group(s, g, last) - 1 : Group(a, s) = Group(g, s)
<1> DEFINE D == {a \in Actions : Group(a, s) # Group(g, s)}
<1>1. num \in Nat
  BY TableType
<1>2. /\ set_group(s, g, last) \in g + 1 .. last
      /\ \A j \in g + 1 .. set_group(s, g, last) - 1 : j \notin D
  <2> HIDE DEF D
  <2>1. set_group(s, g, last) = FIND_NEXT_ACTION(g + 1, last, D)
    BY DEF set_group, D
  <2> QED BY <1>1, <2>1, FindNext
<1> QED BY <1>1, <1>2 DEF Actions

-----------------------------------------------------------------------------
(* Frames and call stacks. *)

(* The named completion statuses are statuses. *)
LEMMA StatusType ==
  {Unset, SUCCESS, NOT_DISPATCHED, CANT_HAPPEN, INVALID_DEPENDENCY, PATH_DOWN} \subseteq Statuses
BY DEF Statuses

(* The calls the code makes are frames. *)
LEMMA CallType ==
  ASSUME NEW fn \in Fns, NEW idx \in Actions, NEW st \in Statuses,
         fn \in CondFns => idx \in Conditional
  PROVE  Call(fn, idx, st) \in Frames
BY DEF Call, Frames, Threads

(* A call made for a job of the Jobs list is a frame. *)
LEMMA CallJobType ==
  ASSUME NEW fn \in Fns \ CondFns, NEW job \in Actions \X Threads, NEW st \in Statuses
  PROVE  CallJob(fn, job, st) \in Frames
<1>1. Call(fn, job[1], st) \in Frames /\ Call(fn, job[1], st).fn = fn
  BY CallType DEF Call
<1> QED BY <1>1 DEF CallJob, Frames

(* The top of a non-empty stack is a frame. *)
LEMMA TopType ==
  ASSUME TypeOK, NEW t \in Threads, NEW fn, At(t, fn)
  PROVE  /\ stack[t] \in Seq(Frames) /\ stack[t] # <<>>
         /\ Top(t) \in Frames /\ Top(t).fn = fn
         /\ Top(t).idx \in Actions /\ Top(t).by \in Threads
         /\ Top(t).k \in Nat \ {0} /\ Top(t).st \in Statuses
         /\ fn \in CondFns => Top(t).idx \in Conditional
<1>1. stack[t] \in Seq(Frames) /\ stack[t] # <<>> /\ Top(t).fn = fn
  BY DEF TypeOK, At
<1>2. Top(t) \in Frames
  BY <1>1, HeadTailProperties DEF Top
<1> QED BY <1>1, <1>2 DEF Frames

(* Every way in which a thread changes its stack keeps a stack of frames. *)
LEMMA StackType ==
  ASSUME TypeOK, NEW t \in Threads, NEW f \in Frames, NEW g \in Frames,
         \/ stack[t] # <<>> /\ (Goto(t, f) \/ Return(t) \/ GotoCalling(t, f, g))
         \/ Start(t, f)
  PROVE  stack' \in [Threads -> Seq(Frames)]
<1>1. stack \in [Threads -> Seq(Frames)]
  BY DEF TypeOK
<1>2. <<f>> \o stack[t] \in Seq(Frames)
  BY <1>1, ConcatProperties
<1>3. ASSUME stack[t] # <<>>
      PROVE  /\ Tail(stack[t]) \in Seq(Frames)
             /\ <<f>> \o Tail(stack[t]) \in Seq(Frames)
             /\ <<g>> \o (<<f>> \o Tail(stack[t])) \in Seq(Frames)
  <2>1. Tail(stack[t]) \in Seq(Frames)
    BY <1>1, <1>3, HeadTailProperties
  <2>2. <<f>> \o Tail(stack[t]) \in Seq(Frames)
    BY <2>1, ConcatProperties
  <2>3. <<g>> \o (<<f>> \o Tail(stack[t])) \in Seq(Frames)
    BY <2>2, ConcatProperties
  <2> QED BY <2>1, <2>2, <2>3
<1>4. CASE Start(t, f)
  BY <1>1, <1>2, <1>4 DEF Start
<1>5. CASE stack[t] # <<>> /\ Goto(t, f)
  BY <1>1, <1>3, <1>5 DEF Goto
<1>6. CASE stack[t] # <<>> /\ Return(t)
  BY <1>1, <1>3, <1>6 DEF Return
<1>7. CASE stack[t] # <<>> /\ GotoCalling(t, f, g)
  BY <1>1, <1>3, <1>7 DEF GotoCalling
<1> QED BY <1>4, <1>5, <1>6, <1>7

-----------------------------------------------------------------------------
(* Type correctness. *)

ActionType ==
  /\ dispatched \in [Actions -> BOOLEAN]
  /\ doing \in [Actions -> BOOLEAN]
  /\ done \in [Actions -> BOOLEAN]
  /\ recorded \in [Actions -> BOOLEAN]
  /\ status \in [Actions -> Statuses]
  /\ var \in [Actions -> Statuses \cup {UNKNOWN_VAR}]

MainType ==
  /\ nci \in [Actions -> Statuses]
  /\ armed \in BOOLEAN
  /\ failed_essential \in BOOLEAN
  /\ AbortInProgress \in BOOLEAN
  /\ noact \in BOOLEAN
  /\ sync \in Syncs \cup {1}
  /\ pc \in {"idle", "lookup", "group", "dispatch", "wait_group", "wait_all",
             "set_abort", "mark", "record_c", "record_s"}
  /\ i \in Nat
  /\ curPhase \in Phases \cup {0}
  /\ {first_c, last_c, first_s, last_s, first_g, last_g} \subseteq 0 .. num
  /\ calls \in Seq(Phases)

ConnType ==
  /\ clients \subseteq Actions \X Threads
  /\ open \subseteq Actions \X Threads
  /\ conid \in [Actions \X Threads -> Actions \X Threads]

JobType ==
  /\ jobs \subseteq Actions \X Threads
  /\ live \subseteq Actions \X Threads
  /\ ConnType

ReadersType == readers \in [Actions -> Nat]
StacksType == stack \in [Threads -> Seq(Frames)]

(* The conjuncts of TypeOK, by group of variables. *)
LEMMA TypeParts ==
  TypeOK <=> ActionType /\ MainType /\ JobType /\ ReadersType /\ StacksType
BY DEF TypeOK, ActionType, MainType, JobType, ConnType, ReadersType, StacksType

(* The same groups make up TypeOK in the next state. *)
LEMMA TypePartsPrime ==
  TypeOK' <=> ActionType' /\ MainType' /\ JobType' /\ ReadersType' /\ StacksType'
BY DEF TypeOK, ActionType, MainType, JobType, ConnType, ReadersType, StacksType

(* The groups of variables an action leaves alone keep their types. *)
LEMMA UnchangedType ==
  ASSUME TypeOK
  PROVE  /\ UNCHANGED actionVars => ActionType'
         /\ UNCHANGED mainVars => MainType'
         /\ UNCHANGED jobVars => JobType'
         /\ UNCHANGED readers => ReadersType'
         /\ UNCHANGED stack => StacksType'
<1>1. UNCHANGED actionVars => ActionType'
  BY TypeParts DEF ActionType, actionVars
<1>2. UNCHANGED mainVars => MainType'
  BY TypeParts DEF MainType, mainVars, rangeVars
<1>3. UNCHANGED jobVars => JobType'
  BY TypeParts DEF JobType, ConnType, jobVars, connVars
<1> QED BY <1>1, <1>2, <1>3, TypeParts DEF ReadersType, StacksType

(* action_done_action_locked keeps the types of the action table. *)
LEMMA CompletionType ==
  ASSUME TypeOK, NEW idx \in Actions, NEW st \in Statuses,
         action_done_action_locked(idx, st)
  PROVE  /\ status' \in [Actions -> Statuses]
         /\ done' \in [Actions -> BOOLEAN]
         /\ recorded' \in [Actions -> BOOLEAN]
         /\ var' \in [Actions -> Statuses \cup {UNKNOWN_VAR}]
BY DEF TypeOK, action_done_action_locked

(* dispatch_locked keeps the types of the action table. *)
LEMMA DispatchType ==
  ASSUME TypeOK, NEW idx \in Actions, dispatch_locked(idx)
  PROVE  ActionType' /\ AfterDispatchLocked(idx) \in Frames
<1>1. AfterDispatchLocked(idx) \in Frames
  BY CallType, StatusType DEF AfterDispatchLocked, Fns, CondFns
<1>2. doing' \in [Actions -> BOOLEAN] /\ dispatched' \in [Actions -> BOOLEAN]
  BY DEF TypeOK, dispatch_locked
<1>3. CASE noact
  BY <1>1, <1>2, <1>3, CompletionType, StatusType DEF dispatch_locked, ActionType
<1>4. CASE ~noact
  BY <1>1, <1>2, <1>4 DEF TypeOK, dispatch_locked, ActionType
<1> QED BY <1>3, <1>4

(* A step of a callback or of a dispatch, by either thread, keeps TypeOK. *)
LEMMA ThreadType ==
  ASSUME TypeOK, NEW t \in Threads, ThreadStep(t)
  PROVE  TypeOK'
<1> USE UnchangedType, TypePartsPrime
<1>1. CASE dispatch(t)
  <2>1. ActionType' /\ StacksType'
    BY <1>1, TopType, DispatchType, StackType DEF dispatch, StacksType
  <2> QED BY <1>1, <2>1 DEF dispatch
<1>2. CASE send_message(t)
  <2> DEFINE f == Top(t)
  <2>1. f.idx \in Actions /\ stack[t] # <<>>
    BY <1>2, TopType DEF send_message
  <2>2. /\ Call("fail", f.idx, PATH_DOWN) \in Frames
        /\ Call("complete", f.idx, Unset) \in Frames
        /\ Call("sent", f.idx, Unset) \in Frames
    BY <2>1, CallType, StatusType DEF Fns, CondFns
  <2>3. StacksType'
    BY <1>2, <2>1, <2>2, StackType DEF send_message, StacksType
  <2>4. CASE UNCHANGED jobVars
    BY <1>2, <2>3, <2>4 DEF send_message, actionVars
  <2>5. CASE ~UNCHANGED jobVars
    <3> DEFINE own == <<f.idx, t>>
    <3>1. own \in Actions \X Threads
      BY <2>1
    <3>2. server_connect(own) /\ jobs' = jobs \cup {own} /\ live' = live \cup {own}
      BY <1>2, <2>5 DEF send_message
    <3> HIDE DEF own, f
    <3>3. ConnType'
      BY <3>1, <3>2, TypeParts DEF server_connect, ConnectionsTo, JobType, ConnType
    <3>4. JobType'
      BY <3>1, <3>2, <3>3, TypeParts DEF JobType
    <3> QED BY <1>2, <2>3, <3>4 DEF send_message, actionVars
  <2> QED BY <2>4, <2>5
<1>3. CASE handshake(t)
  <2> DEFINE f == Top(t)
  <2>1. f.idx \in Actions /\ stack[t] # <<>>
    BY <1>3, TopType DEF handshake
  <2>2. /\ Call("fail", f.idx, PATH_DOWN) \in Frames
        /\ Call("cleanup", f.idx, PATH_DOWN) \in Frames
        /\ CallJob("callback", <<f.idx, t>>, PATH_DOWN) \in Frames
    BY <2>1, CallType, CallJobType, StatusType DEF Fns, CondFns
  <2>3. StacksType'
    BY <1>3, <2>1, <2>2, StackType DEF handshake, StacksType
  <2>4. JobType'
    BY <1>3, <2>1, TypeParts DEF handshake, JobType, ConnType
  <2> QED BY <1>3, <2>3, <2>4 DEF handshake, actionVars
<1>4. CASE pop_by_conid(t)
  <2> DEFINE f == Top(t)
  <2>1. f.idx \in Actions /\ stack[t] # <<>> /\ f.st \in Statuses
    BY <1>4, TopType DEF pop_by_conid
  <2>2. /\ Call("fail", f.idx, f.st) \in Frames
        /\ \A j \in jobs : CallJob("callback", j, PATH_DOWN) \in Frames
    BY <2>1, CallType, CallJobType, StatusType, TypeParts DEF Fns, CondFns, JobType
  <2>3. StacksType'
    BY <1>4, <2>1, <2>2, StackType DEF pop_by_conid, StacksType, JobsOn
  <2>4. JobType'
    BY <1>4, TypeParts DEF pop_by_conid, JobType, ConnType, connVars
  <2> QED BY <1>4, <2>3, <2>4 DEF pop_by_conid, actionVars
<1>5. CASE dispatch_failed(t)
  <2> DEFINE f == Top(t)
  <2>1. f.idx \in Actions /\ stack[t] # <<>> /\ f.st \in Statuses
    BY <1>5, TopType DEF dispatch_failed
  <2>2. Call("cascade", f.idx, Unset) \in Frames
    BY <2>1, CallType, StatusType DEF Fns, CondFns
  <2>3. StacksType'
    BY <1>5, <2>1, <2>2, StackType DEF dispatch_failed, StacksType
  <2>4. ActionType'
    BY <1>5, <2>1, CompletionType DEF dispatch_failed, ActionType, TypeOK
  <2> QED BY <1>5, <2>3, <2>4 DEF dispatch_failed
<1>6. CASE Job_callback_done(t)
  <2> DEFINE f == Top(t)
  <2>1. f.idx \in Actions /\ stack[t] # <<>> /\ f.st \in Statuses
    BY <1>6, TopType DEF Job_callback_done
  <2>2. Call("complete", f.idx, Unset) \in Frames
    BY <2>1, CallType, StatusType DEF Fns, CondFns
  <2>3. StacksType'
    BY <1>6, <2>1, <2>2, StackType DEF Job_callback_done, StacksType
  <2>4. ActionType' /\ JobType'
    BY <1>6, <2>1, TypeParts DEF Job_callback_done, ActionType, JobType, ConnType, connVars
  <2> QED BY <1>6, <2>3, <2>4 DEF Job_callback_done
<1>7. CASE Job_pop(t)
  <2>1. StacksType'
    BY <1>7, TopType, StackType DEF Job_pop, StacksType
  <2>2. JobType'
    BY <1>7, TypeParts DEF Job_pop, JobType, ConnType, connVars
  <2> QED BY <1>7, <2>1, <2>2 DEF Job_pop, actionVars
<1>8. CASE action_done(t)
  <2> DEFINE f == Top(t)
  <2>1. f.idx \in Actions /\ stack[t] # <<>> /\ status[f.idx] \in Statuses
    BY <1>8, TopType DEF action_done, TypeOK
  <2>2. Call("cascade", f.idx, Unset) \in Frames
    BY <2>1, CallType, StatusType DEF Fns, CondFns
  <2>3. StacksType'
    BY <1>8, <2>1, <2>2, StackType DEF action_done, StacksType
  <2>4. ActionType'
    BY <1>8, <2>1, CompletionType DEF action_done, ActionType, TypeOK
  <2> QED BY <1>8, <2>3, <2>4 DEF action_done
<1>9. CASE before(t)
  <2>1. StacksType'
    BY <1>9, TopType, StackType DEF before, StacksType
  <2>2. ActionType'
    BY <1>9, TypeParts DEF before, ActionType
  <2> QED BY <1>9, <2>1, <2>2 DEF before
<1>10. CASE cascade(t)
  <2>1. Call("refs", Top(t).idx, Unset) \in Frames /\ stack[t] # <<>>
    BY <1>10, TopType, CallType, StatusType DEF cascade, Fns, CondFns
  <2>2. StacksType'
    BY <1>10, <2>1, StackType DEF cascade, StacksType
  <2> QED BY <1>10, <2>2 DEF cascade, actionVars
<1>11. CASE reference_check(t)
  <2> DEFINE f == Top(t)
             refs == referenced_by[f.idx]
             next == [f EXCEPT !.k = @ + 1]
             cidx == refs[f.k]
  <2>1. f \in Frames /\ f.idx \in Actions /\ stack[t] # <<>> /\ f.k \in Nat \ {0}
    BY <1>11, TopType DEF reference_check
  <2>2. next \in Frames
    BY <2>1 DEF Frames
  <2>3. f.k <= Len(refs) => cidx \in Conditional
    <3>1. refs \in Seq(Conditional)
      BY <2>1, TableType
    <3> QED BY <2>1, <3>1, ElementOfSeq
  <2>4. \A fn \in CondFns : f.k <= Len(refs) => Call(fn, cidx, Unset) \in Frames
    BY <2>3, CallType, StatusType, TableType DEF Fns
  <2>5. StacksType'
    <3> HIDE DEF next, cidx, refs, f
    <3>1. \/ Return(t) \/ Goto(t, next)
          \/ \E fn \in CondFns : f.k <= Len(refs) /\ GotoCalling(t, next, Call(fn, cidx, Unset))
      BY <1>11 DEF reference_check, next, cidx, refs, f, CondFns
    <3> QED BY <2>1, <2>2, <2>4, <3>1, StackType DEF StacksType
  <2>6. ReadersType'
    <3> HIDE DEF cidx
    <3>1. \/ UNCHANGED readers
          \/ cidx \in Conditional /\ readers' = [readers EXCEPT ![cidx] = @ + 1]
      BY <1>11, <2>3 DEF reference_check, cidx
    <3>2. readers \in [Actions -> Nat] /\ Conditional \subseteq Actions
      BY TableType DEF TypeOK
    <3>3. readers' \in [Actions -> Nat]
      BY <3>1, <3>2
    <3> QED BY <3>3 DEF ReadersType
  <2> QED BY <1>11, <2>5, <2>6 DEF reference_check, actionVars
<1>12. CASE not_dispatched(t)
  <2>1. Top(t).idx \in Actions /\ stack[t] # <<>>
    BY <1>12, TopType DEF not_dispatched
  <2>2. Call("cascade", Top(t).idx, Unset) \in Frames
    BY <2>1, CallType, StatusType DEF Fns, CondFns
  <2>3. StacksType'
    BY <1>12, <2>1, <2>2, StackType DEF not_dispatched, StacksType
  <2>4. ActionType'
    BY <1>12, <2>1, CompletionType, StatusType DEF not_dispatched, ActionType, TypeOK
  <2> QED BY <1>12, <2>3, <2>4 DEF not_dispatched
<1>13. CASE invalid_dependency(t)
  <2>1. Top(t).idx \in Actions /\ stack[t] # <<>> /\ Top(t).idx \in Conditional
    BY <1>13, TopType DEF invalid_dependency, CondFns
  <2>2. /\ Call("cascade", Top(t).idx, Unset) \in Frames
        /\ Call("invend", Top(t).idx, Unset) \in Frames
    BY <2>1, CallType, StatusType DEF Fns, CondFns
  <2>3. StacksType'
    BY <1>13, <2>1, <2>2, StackType DEF invalid_dependency, StacksType
  <2>4. ActionType'
    BY <1>13, <2>1, CompletionType, StatusType DEF invalid_dependency, ActionType, TypeOK
  <2> QED BY <1>13, <2>3, <2>4 DEF invalid_dependency
<1>14. CASE invalid_dependency_end(t)
  <2>1. Top(t).idx \in Actions /\ stack[t] # <<>>
    BY <1>14, TopType DEF invalid_dependency_end
  <2>2. Call("cascade", Top(t).idx, Unset) \in Frames
    BY <2>1, CallType, StatusType DEF Fns, CondFns
  <2>3. StacksType'
    BY <1>14, <2>1, <2>2, StackType DEF invalid_dependency_end, StacksType
  <2>4. ReadersType'
    BY <1>14, <2>1, TypeParts DEF invalid_dependency_end, ReadersType
  <2> QED BY <1>14, <2>3, <2>4 DEF invalid_dependency_end, actionVars
<1> QED BY <1>1, <1>2, <1>3, <1>4, <1>5, <1>6, <1>7, <1>8, <1>9, <1>10, <1>11,
           <1>12, <1>13, <1>14 DEF ThreadStep

(* A reply or a lost connection keeps TypeOK. *)
LEMMA ReceiveType ==
  ASSUME TypeOK, Receive
  PROVE  TypeOK'
<1> USE UnchangedType, TypePartsPrime
<1>0. "receiver" \in Threads
  BY DEF Threads
<1>1. ASSUME NEW idx \in Actions, job_starting(idx)
      PROVE  TypeOK'
  <2>1. Call("before", idx, Unset) \in Frames
    BY CallType, StatusType DEF Fns, CondFns
  <2>2. StacksType'
    BY <1>0, <1>1, <2>1, StackType DEF job_starting, StacksType
  <2> QED BY <1>1, <2>2 DEF job_starting, actionVars
<1>3. ASSUME NEW c \in Actions \X Threads, connection_lost(c)
      PROVE  TypeOK'
  <2>1. CallJob("lost", c, Unset) \in Frames
    BY CallJobType, StatusType DEF Fns, CondFns
  <2>2. StacksType'
    BY <1>0, <1>3, <2>1, StackType DEF connection_lost, StacksType
  <2>3. JobType'
    BY <1>3, TypeParts DEF connection_lost, JobType, ConnType
  <2> QED BY <1>3, <2>2, <2>3 DEF connection_lost, actionVars
<1>2. ASSUME NEW j \in Actions \X Threads, NEW st \in Replies, job_finished(j, st)
      PROVE  TypeOK'
  <2>1. st \in Statuses
    BY ParameterType
  <2>2. CallJob("callback", j, st) \in Frames /\ CallJob("pop", j, st) \in Frames
    BY <2>1, CallJobType DEF Fns, CondFns
  <2>3. <<CallJob("callback", j, st), CallJob("pop", j, st)>> \in Seq(Frames)
    BY <2>2
  <2>4. StacksType'
    BY <1>0, <1>2, <2>3, TypeParts DEF job_finished, StacksType
  <2> QED BY <1>2, <2>4 DEF job_finished, actionVars
<1> QED BY <1>1, <1>2, <1>3 DEF Receive

(* A step of ServerDispatchPhase itself keeps TypeOK. *)
LEMMA MainStepType ==
  ASSUME TypeOK, MainStep
  PROVE  TypeOK'
<1> USE UnchangedType, TypePartsPrime
<1>0. /\ num \in Nat /\ MaxCalls \in Nat /\ "main" \in Threads
      /\ MainType /\ ActionType
      /\ first_c \in 0 .. num /\ last_c \in 0 .. num /\ first_s \in 0 .. num
      /\ last_s \in 0 .. num /\ first_g \in 0 .. num /\ last_g \in 0 .. num
  BY TableType, ParameterType, TypeParts DEF Threads, MainType
<1>1. ASSUME NEW p \in Phases, NEW s \in Syncs, NEW n \in NoActs, phase_lookup(p, s, n)
      PROVE  TypeOK'
  <2> DEFINE r == set_action_ranges(p)
  <2>1. {r.first_c, r.last_c, r.first_s, r.last_s} \subseteq 0 .. num
    BY ActionRanges
  <2>2. calls' \in Seq(Phases) /\ n \in BOOLEAN
    <3>1. calls \in Seq(Phases) /\ calls' = Append(calls, p)
      BY <1>0, <1>1 DEF phase_lookup, MainType
    <3>2. Append(calls, p) \in Seq(Phases)
      BY <3>1
    <3> QED BY <3>1, <3>2, ParameterType
  <2>3. {first_c', last_c', first_s', last_s', first_g', last_g'} \subseteq 0 .. num
    <3> HIDE DEF r
    <3>1. /\ first_c' = r.first_c /\ last_c' = r.last_c /\ first_s' = r.first_s
          /\ last_s' = r.last_s /\ first_g' = r.first_s /\ last_g' = 0
      BY <1>1 DEF phase_lookup, r
    <3> QED BY <1>0, <2>1, <3>1
  <2>4. MainType'
    BY <1>0, <1>1, <2>2, <2>3 DEF phase_lookup, MainType
  <2> QED BY <1>1, <2>4 DEF phase_lookup, actionVars, jobVars
<1>11. CASE ServerDispatchPhase
  <2>1. MainType'
    BY <1>0, <1>11 DEF ServerDispatchPhase, MainType, rangeVars
  <2> QED BY <1>11, <2>1 DEF ServerDispatchPhase
<1>12. ASSUME NEW n \in NoActs, phase_unknown(n)
       PROVE  TypeOK'
  <2>1. n \in BOOLEAN
    BY ParameterType
  <2>2. MainType'
    BY <1>0, <1>12, <2>1 DEF phase_unknown, MainType
  <2> QED BY <1>12, <2>2 DEF phase_unknown
<1>2. CASE next_group
  <2>1. first_g < last_s => set_group(sync, first_g, last_s) \in 0 .. num
    <3> SUFFICES ASSUME first_g < last_s
                 PROVE  set_group(sync, first_g, last_s) \in 0 .. num
      OBVIOUS
    <3>1. set_group(sync, first_g, last_s) \in first_g + 1 .. last_s
      <4>1. first_g \in Nat
        BY <1>0
      <4> QED BY <1>0, <4>1, GroupRange
    <3> QED BY <1>0, <3>1
  <2>2. MainType'
    BY <1>0, <1>2, <2>1 DEF next_group, MainType, rangeVars
  <2> QED BY <1>2, <2>2 DEF next_group, actionVars
<1>3. CASE dispatch_group
  <2>1. MainType'
    BY <1>0, <1>3 DEF dispatch_group, MainType, rangeVars
  <2>2. ActionType' /\ StacksType'
    <3>1. CASE i < last_g /\ dispatch_locked(i) /\ Start("main", AfterDispatchLocked(i))
      <4>1. i \in Actions
        BY <1>0, <3>1 DEF Actions, MainType
      <4> QED BY <1>0, <3>1, <4>1, DispatchType, StackType DEF StacksType
    <3>2. CASE UNCHANGED <<actionVars, stack>>
      BY <3>2
    <3> QED BY <1>3, <3>1, <3>2 DEF dispatch_group
  <2> QED BY <1>3, <2>1, <2>2 DEF dispatch_group
<1>4. CASE wait_for_group
  <2>1. MainType'
    BY <1>0, <1>4 DEF wait_for_group, check_actions_done, MainType, rangeVars
  <2> QED BY <1>4, <2>1 DEF wait_for_group
<1>5. CASE wait_for_all
  <2>1. MainType'
    BY <1>0, <1>5 DEF wait_for_all, check_actions_done, MainType, rangeVars
  <2> QED BY <1>5, <2>1 DEF wait_for_all
<1>6. CASE setAbortInProgress
  <2>1. MainType'
    BY <1>0, <1>6 DEF setAbortInProgress, MainType, rangeVars
  <2> QED BY <1>6, <2>1 DEF setAbortInProgress
<1>7. CASE mark_cant_happen
  <2>1. MainType'
    BY <1>0, <1>7 DEF mark_cant_happen, MainType, rangeVars
  <2>2. ActionType'
    <3>1. CASE i < last_c /\ action_done_action_locked(i, CANT_HAPPEN)
      <4>1. i \in Actions
        BY <1>0, <3>1 DEF Actions, MainType
      <4> QED BY <1>0, <1>7, <3>1, <4>1, CompletionType, StatusType
              DEF mark_cant_happen, ActionType
    <3>2. CASE UNCHANGED <<status, done, recorded, var>>
      BY <1>0, <1>7, <3>2 DEF mark_cant_happen, ActionType
    <3> QED BY <1>7, <3>1, <3>2 DEF mark_cant_happen
  <2> QED BY <1>7, <2>1, <2>2 DEF mark_cant_happen
<1>8. CASE record_status
  <2> DEFINE last == IF pc = "record_c" THEN last_c ELSE last_s
             new == done[i] /\ ~recorded[i]
  <2>1. \/ /\ i < last
           /\ recorded' = [recorded EXCEPT ![i] = @ \/ new]
           /\ nci' = [nci EXCEPT ![i] = IF new THEN status[i] ELSE @]
           /\ i' = i + 1
           /\ pc' = pc
        \/ /\ UNCHANGED <<recorded, nci>>
           /\ i' = first_s
           /\ pc' = IF pc = "record_c" THEN "record_s" ELSE "idle"
    BY <1>8, Zenon DEF record_status
  <2>2. failed_essential' \in BOOLEAN
    BY <1>0, <1>8, Zenon DEF record_status, MainType
  <2>3. /\ pc \in {"record_c", "record_s"}
        /\ UNCHANGED <<dispatched, doing, done, status, var, readers, armed,
                       AbortInProgress, rangeVars, first_g, last_g, stack, jobVars>>
    BY <1>8 DEF record_status
  <2>4. i \in Nat /\ last \in 0 .. num /\ (i < last => i \in Actions)
    BY <1>0 DEF MainType, Actions
  <2> HIDE DEF last, new
  <2>5. recorded' \in [Actions -> BOOLEAN]
    BY <1>0, <2>1 DEF ActionType
  <2>6. nci' \in [Actions -> Statuses]
    BY <1>0, <2>1, <2>4 DEF MainType, ActionType
  <2>7. pc' \in {"idle", "record_c", "record_s"} /\ i' \in Nat
    BY <1>0, <2>1, <2>3, <2>4
  <2>8. MainType'
    BY <1>0, <2>2, <2>3, <2>6, <2>7 DEF MainType, rangeVars
  <2>9. ActionType'
    BY <1>0, <2>3, <2>5 DEF ActionType
  <2> QED BY <2>3, <2>8, <2>9
<1>9. CASE server_dispatch_table_disarm
  <2>1. MainType'
    BY <1>0, <1>9 DEF server_dispatch_table_disarm, MainType, rangeVars
  <2> QED BY <1>9, <2>1 DEF server_dispatch_table_disarm
<1>10. CASE ServerFailedEssential
  <2>1. MainType'
    BY <1>0, <1>10 DEF ServerFailedEssential, MainType, rangeVars
  <2> QED BY <1>10, <2>1 DEF ServerFailedEssential
<1> QED BY <1>1, <1>2, <1>3, <1>4, <1>5, <1>6, <1>7, <1>8, <1>9, <1>10, <1>11, <1>12
        DEF MainStep, LookupStep, InPhaseStep

(* The table as it was built has the types of TypeOK. *)
LEMMA TypeInit == Init => TypeOK
<1> SUFFICES ASSUME Init PROVE TypeOK
  OBVIOUS
<1>1. num \in Nat /\ MaxCalls \in Nat
  BY TableType, ParameterType
<1>2. ActionType /\ ReadersType
  BY StatusType DEF Init, ActionType, ReadersType
<1>3. MainType
  <2>1. {first_c, last_c, first_s, last_s, first_g, last_g} \subseteq 0 .. num
    BY <1>1 DEF Init
  <2>2. nci \in [Actions -> Statuses]
    BY StatusType DEF Init
  <2>3. /\ armed \in BOOLEAN /\ failed_essential \in BOOLEAN
        /\ AbortInProgress \in BOOLEAN /\ noact \in BOOLEAN
    BY Zenon DEF Init
  <2>4. /\ sync = 1 /\ pc = "idle" /\ i = 0 /\ curPhase = 0 /\ calls = <<>>
    BY DEF Init
  <2> QED BY <1>1, <2>1, <2>2, <2>3, <2>4 DEF MainType
<1>4. JobType /\ StacksType
  BY EmptySeq DEF Init, JobType, ConnType, StacksType
<1> QED BY <1>2, <1>3, <1>4, TypeParts

(* TypeOK is inductive. *)
LEMMA TypeNext == TypeOK /\ [Next]_vars => TypeOK'
<1> SUFFICES ASSUME TypeOK, [Next]_vars PROVE TypeOK'
  OBVIOUS
<1>1. CASE Next
  BY <1>1, MainStepType, ReceiveType, ThreadType DEF Next
<1>2. CASE UNCHANGED vars
  BY <1>2, UnchangedType, TypePartsPrime
  DEF vars, actionVars, mainVars, rangeVars, jobVars, connVars
<1> QED BY <1>1, <1>2

(***************************************************************************)
(* Every variable keeps its type in every behaviour: no step leaves the     *)
(* table, and every frame on a call stack is a call the code can make, on a *)
(* conditional action where the code only handles references.               *)
(***************************************************************************)
THEOREM TypeCorrect == Spec => []TypeOK
BY TypeInit, TypeNext, PTL DEF Spec

-----------------------------------------------------------------------------
(***************************************************************************)
(* The group barrier.  GroupBarrier is not inductive: that two actions in   *)
(* flight belong to one group depends on where ServerDispatchPhase is in    *)
(* its loops.  The strengthening ties every sequential action in flight to  *)
(* the current group, below the loop index while the group is dispatched    *)
(* and at or above it while check_actions_done scans.                       *)
(***************************************************************************)
SequentialRange ==
  pc \in {"group", "dispatch", "wait_group"} =>
    /\ first_s <= first_g
    /\ \A a \in first_s .. last_s - 1 : a \in Actions \ Conditional /\ phase[a] = curPhase

GroupBounds ==
  pc \in {"dispatch", "wait_group"} =>
    /\ first_g <= last_g /\ last_g <= last_s
    /\ first_g <= i
    /\ \A a \in first_g .. last_g - 1 : Group(a, sync) = Group(first_g, sync)

FlightBounds ==
  \A a \in Actions \ Conditional : InFlight(a) =>
    /\ pc \in {"dispatch", "wait_group"}
    /\ a \in first_g .. last_g - 1
    /\ pc = "dispatch" => a < i
    /\ pc = "wait_group" => i <= a

BarrierInv == SequentialRange /\ GroupBounds /\ FlightBounds

(* An action completes: it is not in flight, the others are as before. *)
LEMMA CompletionFlight ==
  ASSUME TypeOK, NEW idx \in Actions, NEW st, action_done_action_locked(idx, st),
         NEW a \in Actions, ~done'[a]
  PROVE  a # idx /\ ~done[a]
BY DEF TypeOK, action_done_action_locked

(* Neither thread's callbacks put a sequential action in flight. *)
LEMMA ThreadFlight ==
  ASSUME TypeOK, NEW t \in Threads, ThreadStep(t),
         NEW a \in Actions \ Conditional, InFlight(a)'
  PROVE  InFlight(a)
<1>0. dispatched \in [Actions -> BOOLEAN] /\ done \in [Actions -> BOOLEAN]
  BY DEF TypeOK
<1>1. CASE dispatch(t)
  <2>1. Top(t).idx \in Actions /\ Top(t).idx # a
    BY <1>1, TopType DEF dispatch, CondFns
  <2>2. done'[a] = done[a] /\ dispatched'[a] = dispatched[a]
    BY <1>0, <1>1, <2>1 DEF dispatch, dispatch_locked, action_done_action_locked
  <2> QED BY <2>2 DEF InFlight
<1>2. CASE dispatch_failed(t)
  <2>1. Top(t).idx \in Actions
    BY <1>2, TopType DEF dispatch_failed
  <2>2. a # Top(t).idx /\ ~done[a]
    BY <1>2, <2>1, CompletionFlight DEF dispatch_failed, InFlight
  <2>3. dispatched'[a] = dispatched[a]
    BY <1>0, <1>2, <2>1, <2>2 DEF dispatch_failed
  <2> QED BY <2>2, <2>3 DEF InFlight
<1>3. CASE action_done(t)
  <2>1. Top(t).idx \in Actions
    BY <1>3, TopType DEF action_done
  <2>2. ~done[a]
    BY <1>3, <2>1, CompletionFlight DEF action_done, InFlight
  <2> QED BY <1>3, <2>2 DEF action_done, InFlight
<1>4. CASE not_dispatched(t)
  <2>1. Top(t).idx \in Actions
    BY <1>4, TopType DEF not_dispatched
  <2>2. ~done[a]
    BY <1>4, <2>1, CompletionFlight DEF not_dispatched, InFlight
  <2> QED BY <1>4, <2>2 DEF not_dispatched, InFlight
<1>5. CASE invalid_dependency(t)
  <2>1. Top(t).idx \in Actions
    BY <1>5, TopType DEF invalid_dependency
  <2>2. ~done[a]
    BY <1>5, <2>1, CompletionFlight DEF invalid_dependency, InFlight
  <2> QED BY <1>5, <2>2 DEF invalid_dependency, InFlight
<1>6. CASE UNCHANGED <<dispatched, done>>
  BY <1>6 DEF InFlight
<1>7. CASE \/ send_message(t) \/ handshake(t) \/ pop_by_conid(t) \/ cascade(t)
           \/ reference_check(t) \/ invalid_dependency_end(t) \/ Job_pop(t)
  BY <1>6, <1>7 DEF send_message, handshake, pop_by_conid, cascade,
       reference_check, invalid_dependency_end, Job_pop, actionVars
<1>8. CASE Job_callback_done(t) \/ before(t)
  BY <1>6, <1>8 DEF Job_callback_done, before
<1> QED BY <1>1, <1>2, <1>3, <1>4, <1>5, <1>7, <1>8 DEF ThreadStep

(* A step that leaves the main thread where it is and puts no sequential    *)
(* action in flight keeps the invariant.                                    *)
LEMMA BarrierKept ==
  ASSUME BarrierInv, UNCHANGED <<pc, i, first_g, last_g, rangeVars>>,
         \A a \in Actions \ Conditional : InFlight(a)' => InFlight(a)
  PROVE  BarrierInv'
<1>1. SequentialRange' /\ GroupBounds'
  BY DEF BarrierInv, SequentialRange, GroupBounds, rangeVars, Group
<1>2. FlightBounds'
  BY DEF BarrierInv, FlightBounds
<1> QED BY <1>1, <1>2 DEF BarrierInv

(* The barrier invariant is inductive, given the types. *)
LEMMA BarrierNext ==
  ASSUME TypeOK, BarrierInv, [Next]_vars
  PROVE  BarrierInv'
<1>0. /\ num \in Nat /\ i \in Nat
      /\ first_c \in 0 .. num /\ last_c \in 0 .. num /\ first_s \in 0 .. num
      /\ last_s \in 0 .. num /\ first_g \in 0 .. num /\ last_g \in 0 .. num
      /\ dispatched \in [Actions -> BOOLEAN] /\ done \in [Actions -> BOOLEAN]
  BY TableType DEF TypeOK
<1>1. ASSUME NEW t \in Threads, ThreadStep(t)
      PROVE  BarrierInv'
  <2>1. UNCHANGED <<pc, i, first_g, last_g, rangeVars>>
    BY <1>1 DEF ThreadStep, dispatch, send_message, handshake, pop_by_conid,
         dispatch_failed, Job_callback_done, Job_pop, action_done, before, cascade,
         reference_check, not_dispatched, invalid_dependency, invalid_dependency_end,
         mainVars
  <2> QED BY <1>1, <2>1, ThreadFlight, BarrierKept
<1>2. CASE Receive
  <2>1. UNCHANGED <<dispatched, done, pc, i, first_g, last_g, rangeVars>>
    BY <1>2 DEF Receive, job_starting, job_finished, connection_lost, mainVars, actionVars
  <2> QED BY <2>1, BarrierKept DEF InFlight
<1>3. CASE UNCHANGED vars
  BY <1>3, BarrierKept DEF vars, InFlight, rangeVars
<1>4. ASSUME NEW p \in Phases, NEW s \in Syncs, NEW n \in NoActs, phase_lookup(p, s, n)
      PROVE  BarrierInv'
  <2> DEFINE r == set_action_ranges(p)
  <2>1. /\ \A a \in r.first_s .. r.last_s - 1 : a \in Actions \ Conditional /\ phase[a] = p
        /\ r.first_s \in 0 .. num
    BY ActionRanges
  <2>2. /\ first_s' = r.first_s /\ last_s' = r.last_s /\ first_g' = r.first_s
        /\ curPhase' = p /\ pc' = "group" /\ pc = "lookup"
        /\ UNCHANGED <<dispatched, done>>
    BY <1>4 DEF phase_lookup, actionVars
  <2> HIDE DEF r
  <2>3. SequentialRange'
    BY <1>0, <2>1, <2>2 DEF SequentialRange
  <2>4. GroupBounds'
    BY <2>2 DEF GroupBounds
  <2>5. FlightBounds'
    BY <2>2 DEF FlightBounds, BarrierInv, InFlight
  <2> QED BY <2>3, <2>4, <2>5 DEF BarrierInv
<1>5. CASE next_group
  <2>1. UNCHANGED <<dispatched, done, sync, curPhase, first_s, last_s, first_g>>
    BY <1>5 DEF next_group, actionVars, rangeVars
  <2>2. ~\E a \in Actions \ Conditional : InFlight(a)
    BY <1>5 DEF next_group, BarrierInv, FlightBounds
  <2>3. FlightBounds'
    BY <2>1, <2>2 DEF FlightBounds, InFlight
  <2>4. SequentialRange'
    BY <1>5, <2>1 DEF next_group, BarrierInv, SequentialRange
  <2>5. CASE first_g < last_s
    <3>1. /\ last_g' = set_group(sync, first_g, last_s) /\ i' = first_g
      BY <1>5, <2>5 DEF next_group
    <3>2. /\ last_g' \in first_g + 1 .. last_s
          /\ \A a \in first_g .. last_g' - 1 : Group(a, sync) = Group(first_g, sync)
      <4>1. first_g \in Nat
        BY <1>0
      <4> QED BY <1>0, <2>5, <3>1, <4>1, GroupRange
    <3>3. GroupBounds'
      BY <1>0, <2>1, <3>1, <3>2 DEF GroupBounds, Group
    <3> QED BY <2>3, <2>4, <3>3 DEF BarrierInv
  <2>6. CASE ~(first_g < last_s)
    <3>1. GroupBounds'
      BY <1>5, <2>6 DEF next_group, GroupBounds
    <3> QED BY <2>3, <2>4, <3>1 DEF BarrierInv
  <2> QED BY <2>5, <2>6
<1>6. CASE dispatch_group
  <2>1. /\ pc = "dispatch"
        /\ UNCHANGED <<sync, curPhase, first_s, last_s, first_g, last_g>>
    BY <1>6 DEF dispatch_group, rangeVars
  <2>2. CASE i < last_g /\ dispatch_locked(i) /\ i' = i + 1 /\ UNCHANGED pc
    <3>1. SequentialRange'
      BY <2>1, <2>2 DEF BarrierInv, SequentialRange
    <3>2. GroupBounds'
      BY <1>0, <2>1, <2>2 DEF BarrierInv, GroupBounds, Group
    <3>3. ASSUME NEW a \in Actions \ Conditional, InFlight(a)', a # i
          PROVE  InFlight(a)
      <4>1. i \in Actions
        BY <1>0, <2>2 DEF Actions
      <4>2. done'[a] = done[a] /\ dispatched'[a] = dispatched[a]
        BY <1>0, <2>2, <3>3, <4>1 DEF dispatch_locked, action_done_action_locked
      <4> QED BY <3>3, <4>2 DEF InFlight
    <3>4. FlightBounds'
      <4> SUFFICES ASSUME NEW a \in Actions \ Conditional, InFlight(a)'
                   PROVE  a \in first_g .. last_g - 1 /\ a < i + 1
        BY <2>1, <2>2 DEF FlightBounds
      <4>1. CASE a = i
        BY <1>0, <2>1, <2>2, <4>1 DEF BarrierInv, GroupBounds
      <4>2. CASE a # i
        <5>1. a < i /\ a \in first_g .. last_g - 1
          BY <2>1, <3>3, <4>2 DEF BarrierInv, FlightBounds
        <5> QED BY <1>0, <5>1
      <4> QED BY <4>1, <4>2
    <3> QED BY <3>1, <3>2, <3>4 DEF BarrierInv
  <2>3. CASE i' = first_g /\ pc' = "wait_group" /\ UNCHANGED <<dispatched, done>>
    <3>1. SequentialRange'
      BY <2>1, <2>3 DEF BarrierInv, SequentialRange
    <3>2. GroupBounds'
      BY <1>0, <2>1, <2>3 DEF BarrierInv, GroupBounds, Group
    <3>3. FlightBounds'
      BY <1>0, <2>1, <2>3 DEF BarrierInv, FlightBounds, InFlight
    <3> QED BY <3>1, <3>2, <3>3 DEF BarrierInv
  <2> QED BY <1>6, <2>2, <2>3 DEF dispatch_group, actionVars
<1>7. CASE wait_for_group
  <2>1. /\ pc = "wait_group"
        /\ UNCHANGED <<dispatched, done, sync, curPhase, first_s, last_s, last_g>>
    BY <1>7 DEF wait_for_group, rangeVars, actionVars
  <2>2. CASE check_actions_done(first_g, last_g)
    <3>1. SequentialRange'
      BY <2>1, <2>2 DEF check_actions_done, BarrierInv, SequentialRange
    <3>2. GroupBounds'
      BY <1>0, <2>1, <2>2 DEF check_actions_done, BarrierInv, GroupBounds, Group
    <3>3. FlightBounds'
      <4> SUFFICES ASSUME NEW a \in Actions \ Conditional, InFlight(a)
                   PROVE  a \in first_g .. last_g - 1 /\ i' <= a
        BY <2>1, <2>2 DEF FlightBounds, check_actions_done, InFlight
      <4>1. a \in first_g .. last_g - 1 /\ i <= a
        BY <2>1 DEF BarrierInv, FlightBounds
      <4> QED BY <1>0, <2>2, <4>1 DEF check_actions_done
    <3> QED BY <3>1, <3>2, <3>3 DEF BarrierInv
  <2>3. CASE i >= last_g /\ first_g' = last_g /\ pc' = "group"
    <3>1. SequentialRange'
      BY <1>0, <2>1, <2>3 DEF BarrierInv, SequentialRange, GroupBounds
    <3>2. GroupBounds'
      BY <2>3 DEF GroupBounds
    <3>3. ~\E a \in Actions \ Conditional : InFlight(a)
      BY <1>0, <2>1, <2>3 DEF BarrierInv, FlightBounds
    <3>4. FlightBounds'
      BY <2>1, <3>3 DEF FlightBounds, InFlight
    <3> QED BY <3>1, <3>2, <3>4 DEF BarrierInv
  <2> QED BY <1>7, <2>2, <2>3 DEF wait_for_group
<1>8. CASE \/ wait_for_all \/ setAbortInProgress \/ mark_cant_happen \/ record_status
           \/ server_dispatch_table_disarm \/ ServerFailedEssential
           \/ ServerDispatchPhase \/ \E n \in NoActs : phase_unknown(n)
  <2>1. /\ pc \notin {"group", "dispatch", "wait_group"}
        /\ pc' \notin {"group", "dispatch", "wait_group"}
    BY <1>8 DEF wait_for_all, check_actions_done, setAbortInProgress, mark_cant_happen,
         record_status, server_dispatch_table_disarm, ServerFailedEssential,
         ServerDispatchPhase, phase_unknown
  <2>2. \A a \in Actions : InFlight(a)' => InFlight(a)
    <3>1. CASE mark_cant_happen
      <4>1. CASE UNCHANGED done
        BY <3>1, <4>1 DEF mark_cant_happen, InFlight
      <4>2. CASE i < last_c /\ action_done_action_locked(i, CANT_HAPPEN)
        <5>1. i \in Actions
          BY <1>0, <4>2 DEF Actions
        <5> QED BY <3>1, <4>2, <5>1, CompletionFlight DEF mark_cant_happen, InFlight
      <4> QED BY <3>1, <4>1, <4>2 DEF mark_cant_happen
    <3>2. CASE UNCHANGED <<dispatched, done>>
      BY <3>2 DEF InFlight
    <3> QED BY <1>8, <3>1, <3>2 DEF wait_for_all, setAbortInProgress, record_status,
              server_dispatch_table_disarm, ServerFailedEssential, ServerDispatchPhase,
              phase_unknown, actionVars
  <2> QED BY <2>1, <2>2 DEF BarrierInv, SequentialRange, GroupBounds, FlightBounds
<1> QED BY <1>1, <1>2, <1>3, <1>4, <1>5, <1>6, <1>7, <1>8
        DEF Next, MainStep, LookupStep, InPhaseStep

(* Nothing is in flight before the first phase. *)
LEMMA BarrierInit == Init => BarrierInv
BY DEF Init, BarrierInv, SequentialRange, GroupBounds, FlightBounds, InFlight

(* The barrier invariant implies the property. *)
LEMMA BarrierImplied == TypeOK /\ BarrierInv => GroupBarrier
<1> SUFFICES ASSUME TypeOK, BarrierInv,
                    NEW a \in Actions \ Conditional, NEW b \in Actions \ Conditional,
                    InFlight(a), InFlight(b)
             PROVE  phase[a] = phase[b] /\ Group(a, sync) = Group(b, sync)
  BY DEF GroupBarrier
<1>1. /\ num \in Nat /\ first_s \in 0 .. num /\ last_s \in 0 .. num
      /\ first_g \in 0 .. num /\ last_g \in 0 .. num
  BY TableType DEF TypeOK
<1>2. /\ pc \in {"dispatch", "wait_group"}
      /\ a \in first_g .. last_g - 1 /\ b \in first_g .. last_g - 1
  BY DEF BarrierInv, FlightBounds
<1>3. a \in first_s .. last_s - 1 /\ b \in first_s .. last_s - 1
  BY <1>1, <1>2 DEF BarrierInv, SequentialRange, GroupBounds
<1> QED BY <1>2, <1>3 DEF BarrierInv, SequentialRange, GroupBounds

(***************************************************************************)
(* For every dispatch table and every /SYNCH: two sequential actions that   *)
(* are in flight at the same time belong to the same phase and the same     *)
(* group, whatever replies, failures, lost connections and cascades of      *)
(* conditional actions happen meanwhile.                                    *)
(***************************************************************************)
THEOREM BarrierCorrect == Spec => []GroupBarrier
<1>1. TypeOK /\ BarrierInv /\ [Next]_vars => BarrierInv'
  BY BarrierNext
<1> QED BY <1>1, TypeCorrect, BarrierInit, BarrierImplied, PTL DEF Spec

-----------------------------------------------------------------------------
(***************************************************************************)
(* The invariants.  Each is about one thing the code relies on without      *)
(* checking it.                                                             *)
(***************************************************************************)
Known(a) == var[a] # UNKNOWN_VAR

(* Sequential actions that were never sent have no callback to expect. *)
Touched(a) == a \in Conditional \/ dispatched[a] \/ done[a]

(***************************************************************************)
(* What a call of thread t knows about the action it works on.  A cascade   *)
(* follows a completion, so its variable is defined; a conditional action   *)
(* is dispatched after its condition was evaluated; the receiver itself     *)
(* only sends conditional actions, and only it is woken by servers.         *)
(***************************************************************************)
Fits(t, f) ==
  /\ f.fn \in {"cascade", "refs", "invend"} => Known(f.idx)
  /\ f.fn \in {"invdep", "invend"} => when[f.idx] = "invalid"
  /\ f.fn = "dispatch" => \A d \in Refs(f.idx) : Known(d)
  /\ f.fn # "lost" => Touched(f.idx)
  /\ f.fn \in {"send", "sent", "cleanup", "fail"} => t = "main" \/ f.idx \in Conditional
  /\ f.fn \in {"callback", "pop"} => f.by = "main" \/ f.idx \in Conditional
  /\ f.fn \in {"lost", "pop", "before"} => t = "receiver"
  /\ f.fn = "cleanup" => "handshake" \in Faults
  /\ f.fn = "callback" => t = "receiver" \/ "handshake" \in Faults

FrameOf(t) == {f \in Frames : Fits(t, f)}

FramesFit == \A t \in Threads : stack[t] \in Seq(FrameOf(t))

JobsFit ==
  \A j \in jobs \cup live : Touched(j[1]) /\ (j[1] \in Conditional \/ j[2] = "main")

CallInv == FramesFit /\ JobsFit

(* Between two commands, up to where the phase of the next one is known. *)
Outside == pc \in {"idle", "lookup"}

(* The ranges are those of the phase dispatched last. *)
RangeInv ==
  /\ ~Outside => curPhase # 0
  /\ curPhase # 0 =>
       /\ curPhase \in Phases
       /\ LET r == set_action_ranges(curPhase) IN
          /\ first_c = r.first_c /\ last_c = r.last_c
          /\ first_s = r.first_s /\ last_s = r.last_s

(* The sequential actions of the phase below this index were dispatched. *)
Reached ==
  CASE pc = "group"      -> first_g
    [] pc = "dispatch"   -> i
    [] pc = "wait_group" -> last_g
    [] OTHER             -> num

(***************************************************************************)
(* A dispatched sequential action completes before the phase ends, and no   *)
(* completion of this phase counts as recorded before record_status.        *)
(***************************************************************************)
PassedAt(a) ==
  a < Reached =>
    /\ dispatched[a] \/ done[a]
    /\ done[a] /\ ~Outside /\ (pc = "record_s" => i <= a) => ~recorded[a]

PassedInv == curPhase # 0 => \A a \in InPhase(curPhase) \ Conditional : PassedAt(a)

(* The loops of record_status: the actions it has been at. *)
Visited ==
  IF pc = "record_c" THEN first_c .. i - 1 ELSE (first_c .. last_c - 1) \cup (first_s .. i - 1)

VisitedInv ==
  /\ pc \in {"lookup", "group", "dispatch", "wait_group", "wait_all", "set_abort", "mark"} =>
       ~failed_essential
  /\ pc \in {"record_c", "record_s"} /\ failed_essential =>
       \E a \in Visited : /\ a \in InPhase(curPhase) \cap Essential
                          /\ ~IS_OK(nci[a])
  /\ pc = "mark" => i >= first_c
  /\ pc = "record_c" => i \in first_c .. last_c
  /\ pc = "record_s" =>
       /\ i \in first_s .. last_s
       /\ \A a \in first_s .. i - 1 :
            a \in Essential /\ ~IS_OK(nci[a]) => failed_essential

(* The phase of a is being dispatched once more. *)
Again(a) == phase[a] = curPhase /\ Repeated(curPhase)

(* Sequential actions: a defined variable means done, except for those of   *)
(* a phase that is being dispatched once more.                              *)
DefinedInv == \A a \in Actions \ Conditional : Known(a) => done[a] \/ Again(a)

(* The phases that were dispatched, and the actions of the others. *)
Called(p) == \E n \in 1 .. Len(calls) : calls[n] = p

FreshInv ==
  /\ curPhase # 0 => Called(curPhase)
  /\ \A a \in Actions \ Conditional : ~Called(phase[a]) => ~Touched(a)

(* The sequential actions of the phase that are still to be dispatched. *)
Ahead ==
  CASE pc = "group"      -> first_g .. last_s - 1
    [] pc = "dispatch"   -> i .. last_s - 1
    [] pc = "wait_group" -> last_g .. last_s - 1
    [] OTHER             -> {}

AheadInv ==
  /\ ~Repeated(curPhase) => \A a \in Ahead : ~Touched(a)
  /\ pc = "dispatch" => i <= last_g

OrderInv == DefinedInv /\ FreshInv /\ AheadInv

-----------------------------------------------------------------------------
(* Late callbacks. *)

MainEmpty == pc # "dispatch" => stack["main"] = <<>>

Woken == {"lost", "pop", "before"}
Completing == {"callback", "complete"}

(***************************************************************************)
(* The receiver's stack: the call that woke it is at the bottom, a job is   *)
(* called back and an action completed only on top.                         *)
(***************************************************************************)
Shape(s) ==
  \A n \in 1 .. Len(s) : /\ s[n].fn \in Woken <=> n = Len(s)
                         /\ s[n].fn \in Completing => n = 1

ReceiverShape == Shape(stack["receiver"])

Bottom(s) == s[Len(s)]

(* Jobs of a are only left to the Job_pop that ends the current callback. *)
OnlyToPop(a) ==
  \A t \in Threads : <<a, t>> \in jobs =>
    /\ stack["receiver"] # <<>>
    /\ Bottom(stack["receiver"]).fn = "pop"
    /\ Bottom(stack["receiver"]).idx = a /\ Bottom(stack["receiver"]).by = t

NoLive(a) == \A t \in Threads : <<a, t>> \notin live

ToppedBy(fns, a) ==
  stack["receiver"] # <<>> /\ Top("receiver").fn \in fns /\ Top("receiver").idx = a

(* Nothing the receiver does, or will be woken for, completes a. *)
Quiet(a) == OnlyToPop(a) /\ NoLive(a) /\ ~ToppedBy(Completing, a)

(* The main thread only sends, or gives up, an action that is quiet. *)
SendingOf ==
  {f \in Frames : f.fn \in {"send", "complete", "fail"} /\ f.idx \notin Conditional => Quiet(f.idx)}

(* It sends a sequential action from the bottom of its stack. *)
SequentialSends == {f \in Frames : f.fn = "send" /\ f.idx \notin Conditional}

SendShape ==
  \/ stack["main"] \in Seq(Frames \ SequentialSends)
  \/ Len(stack["main"]) = 1 /\ Top("main") \in SequentialSends /\ ~done[Top("main").idx]

QuietInv ==
  /\ MainEmpty /\ ReceiverShape /\ SendShape
  /\ stack["main"] \in Seq(SendingOf)
  /\ \A a \in Actions \ Conditional :
       /\ done[a] => Quiet(a)
       /\ ToppedBy(Completing, a) => OnlyToPop(a)
       /\ ToppedBy({"complete"}, a) => NoLive(a)

RecordedInv ==
  /\ pc \in {"record_c", "record_s"} => ~noact
  /\ pc = "record_s" => \A a \in first_s .. i - 1 : recorded[a] /\ nci[a] = status[a]
  /\ pc = "idle" /\ curPhase # 0 /\ ~noact =>
       \A a \in first_s .. last_s - 1 : recorded[a] /\ nci[a] = status[a]

-----------------------------------------------------------------------------
(* Stacks. *)

(* Every way in which a thread changes its stack keeps it in a set of       *)
(* frames that the new calls belong to, and leaves the other stack alone.   *)
LEMMA StackOf ==
  ASSUME TypeOK, NEW t \in Threads, NEW F, stack[t] \in Seq(F), NEW f \in F, NEW g \in F,
         \/ stack[t] # <<>> /\ (Goto(t, f) \/ Return(t) \/ GotoCalling(t, f, g))
         \/ Start(t, f)
  PROVE  /\ stack'[t] \in Seq(F)
         /\ \A u \in Threads \ {t} : stack'[u] = stack[u]
<1>1. stack \in [Threads -> Seq(Frames)]
  BY DEF TypeOK
<1>2. <<f>> \o stack[t] \in Seq(F)
  BY ConcatProperties
<1>3. ASSUME stack[t] # <<>>
      PROVE  /\ Tail(stack[t]) \in Seq(F)
             /\ <<f>> \o Tail(stack[t]) \in Seq(F)
             /\ <<g>> \o (<<f>> \o Tail(stack[t])) \in Seq(F)
  <2>1. Tail(stack[t]) \in Seq(F)
    BY <1>3, HeadTailProperties
  <2>2. <<f>> \o Tail(stack[t]) \in Seq(F)
    BY <2>1, ConcatProperties
  <2>3. <<g>> \o (<<f>> \o Tail(stack[t])) \in Seq(F)
    BY <2>2, ConcatProperties
  <2> QED BY <2>1, <2>2, <2>3
<1>4. CASE Start(t, f)
  BY <1>1, <1>2, <1>4 DEF Start
<1>5. CASE stack[t] # <<>> /\ Goto(t, f)
  BY <1>1, <1>3, <1>5 DEF Goto
<1>6. CASE stack[t] # <<>> /\ Return(t)
  BY <1>1, <1>3, <1>6 DEF Return
<1>7. CASE stack[t] # <<>> /\ GotoCalling(t, f, g)
  BY <1>1, <1>3, <1>7 DEF GotoCalling
<1> QED BY <1>4, <1>5, <1>6, <1>7

(* The call on top fits its thread. *)
LEMMA TopFits ==
  ASSUME TypeOK, FramesFit, NEW t \in Threads, stack[t] # <<>>
  PROVE  Top(t) \in Frames /\ Fits(t, Top(t)) /\ Top(t) = stack[t][1]
<1>1. stack[t] \in Seq(FrameOf(t))
  BY DEF FramesFit
<1>2. Top(t) \in FrameOf(t) /\ Top(t) = stack[t][1]
  BY <1>1, HeadTailProperties DEF Top
<1> QED BY <1>2 DEF FrameOf

-----------------------------------------------------------------------------
(* What a step does to one entry of the table. *)

Same(a) ==
  /\ dispatched'[a] = dispatched[a] /\ done'[a] = done[a] /\ recorded'[a] = recorded[a]
  /\ status'[a] = status[a] /\ var'[a] = var[a]

Completed(a) == done'[a] /\ ~recorded'[a] /\ Known(a)'

(* UNKNOWN_VAR is not a status. *)
LEMMA StatusKnown == UNKNOWN_VAR \notin Statuses
BY DEF Statuses, Unset, SUCCESS, FAILED, NOT_DISPATCHED, CANT_HAPPEN, INVALID_DEPENDENCY,
     PATH_DOWN, UNKNOWN_VAR

(* action_done_action_locked completes one action and leaves the others.    *)
LEMMA Completes ==
  ASSUME TypeOK, NEW idx \in Actions, NEW st \in Statuses, action_done_action_locked(idx, st)
  PROVE  /\ Completed(idx)
         /\ \A a \in Actions \ {idx} :
              /\ done'[a] = done[a] /\ recorded'[a] = recorded[a]
              /\ status'[a] = status[a] /\ var'[a] = var[a]
<1>1. /\ done \in [Actions -> BOOLEAN] /\ recorded \in [Actions -> BOOLEAN]
      /\ status \in [Actions -> Statuses] /\ var \in [Actions -> Statuses \cup {UNKNOWN_VAR}]
  BY DEF TypeOK
<1>2. done'[idx] /\ ~recorded'[idx] /\ var'[idx] = st
  BY <1>1 DEF action_done_action_locked
<1> QED BY <1>1, <1>2, StatusKnown DEF action_done_action_locked, Completed, Known

(* dispatch_locked: with /NOACTION the action completes, else it is in      *)
(* flight; the others stay as they are.                                     *)
LEMMA Dispatches ==
  ASSUME TypeOK, NEW idx \in Actions, dispatch_locked(idx)
  PROVE  /\ dispatched'[idx]
         /\ noact => Completed(idx)
         /\ ~noact => /\ ~done'[idx] /\ recorded'[idx] = recorded[idx]
                      /\ var'[idx] = var[idx]
         /\ \A a \in Actions \ {idx} : Same(a)
<1>1. dispatched \in [Actions -> BOOLEAN] /\ done \in [Actions -> BOOLEAN]
  BY DEF TypeOK
<1>2. dispatched'[idx] /\ \A a \in Actions \ {idx} : dispatched'[a] = dispatched[a]
  BY <1>1 DEF dispatch_locked
<1>3. CASE noact
  <2>1. action_done_action_locked(idx, SUCCESS) /\ SUCCESS \in Statuses
    BY <1>3, StatusType DEF dispatch_locked
  <2> QED BY <1>2, <1>3, <2>1, Completes DEF Same
<1>4. CASE ~noact
  BY <1>1, <1>2, <1>4 DEF dispatch_locked, Same
<1> QED BY <1>3, <1>4

(* The completing steps of a thread work on the action on top of its stack; *)
(* every other entry of the table is left alone.                            *)
LEMMA ThreadTable ==
  ASSUME TypeOK, NEW t \in Threads, ThreadStep(t), NEW a \in Actions
  PROVE  \/ Same(a)
         \/ /\ At(t, "callback") /\ Top(t).idx = a /\ Job_callback_done(t)
            /\ dispatched'[a] = dispatched[a] /\ done'[a] = done[a]
            /\ recorded'[a] = recorded[a] /\ var'[a] = var[a]
         \/ /\ stack[t] # <<>> /\ Top(t).fn \in {"fail", "complete", "notdisp", "invdep"}
            /\ Top(t).idx = a
            /\ Completed(a)
            /\ dispatched'[a] => dispatched[a]
         \/ /\ At(t, "dispatch") /\ Top(t).idx = a /\ a \in Conditional
            /\ dispatched'[a]
            /\ Known(a) => Known(a)'
<1> DEFINE f == Top(t)
<1>0. dispatched \in [Actions -> BOOLEAN] /\ status \in [Actions -> Statuses]
  BY DEF TypeOK
<1>1. CASE dispatch(t)
  <2>1. f.idx \in Conditional /\ f.idx \in Actions /\ dispatch_locked(f.idx) /\ At(t, "dispatch")
    BY <1>1, TopType DEF dispatch, CondFns
  <2>2. CASE a = f.idx
    BY <2>1, <2>2, Dispatches DEF Completed, Known
  <2>3. CASE a # f.idx
    BY <2>1, <2>3, Dispatches
  <2> QED BY <2>2, <2>3
<1>2. CASE Job_callback_done(t)
  <2>1. f.idx \in Actions /\ At(t, "callback")
    BY <1>2, TopType DEF Job_callback_done
  <2>2. CASE a = f.idx
    BY <1>2, <2>1, <2>2 DEF Job_callback_done
  <2>3. CASE a # f.idx
    BY <1>0, <1>2, <2>1, <2>3 DEF Job_callback_done, Same
  <2> QED BY <2>2, <2>3
<1>3. ASSUME NEW fn \in {"fail", "complete", "notdisp", "invdep"}, At(t, fn), NEW st \in Statuses,
             action_done_action_locked(f.idx, st),
             \/ UNCHANGED dispatched
             \/ fn = "fail" /\ dispatched' = [dispatched EXCEPT ![f.idx] = FALSE]
      PROVE  \/ Same(a)
             \/ /\ stack[t] # <<>> /\ f.fn = fn /\ f.idx = a /\ Completed(a)
                /\ dispatched'[a] => dispatched[a]
  <2>1. f.idx \in Actions /\ stack[t] # <<>> /\ f.fn = fn
    BY <1>3, TopType
  <2> HIDE DEF f
  <2>2. CASE a = f.idx
    BY <1>0, <1>3, <2>1, <2>2, Completes
  <2>3. CASE a # f.idx
    <3>1. dispatched'[a] = dispatched[a]
      BY <1>0, <1>3, <2>1, <2>3
    <3> QED BY <1>3, <2>1, <2>3, <3>1, Completes DEF Same
  <2> QED BY <2>2, <2>3
<1>4. CASE dispatch_failed(t)
  <2>1. At(t, "fail") /\ f.st \in Statuses /\ action_done_action_locked(f.idx, f.st)
        /\ dispatched' = [dispatched EXCEPT ![f.idx] = FALSE]
    BY <1>4, TopType DEF dispatch_failed
  <2> QED BY <1>3, <2>1
<1>5. CASE action_done(t) /\ armed
  <2>1. At(t, "complete") /\ status[f.idx] \in Statuses /\ UNCHANGED dispatched
    BY <1>0, <1>5, TopType DEF action_done
  <2>2. action_done_action_locked(f.idx, status[f.idx])
    BY <1>5 DEF action_done
  <2> QED BY <1>3, <2>1, <2>2
<1>6. CASE not_dispatched(t)
  <2>1. /\ At(t, "notdisp") /\ action_done_action_locked(f.idx, NOT_DISPATCHED)
        /\ UNCHANGED dispatched
    BY <1>6 DEF not_dispatched
  <2> QED BY <1>3, <2>1, StatusType
<1>7. CASE invalid_dependency(t)
  <2>1. /\ At(t, "invdep") /\ action_done_action_locked(f.idx, INVALID_DEPENDENCY)
        /\ UNCHANGED dispatched
    BY <1>7 DEF invalid_dependency
  <2> QED BY <1>3, <2>1, StatusType
<1>8. CASE UNCHANGED <<dispatched, done, recorded, status, var>>
  BY <1>8 DEF Same
<1>9. CASE \/ send_message(t) \/ handshake(t) \/ pop_by_conid(t) \/ cascade(t)
           \/ reference_check(t) \/ invalid_dependency_end(t) \/ Job_pop(t)
  BY <1>8, <1>9 DEF send_message, handshake, pop_by_conid, cascade,
       reference_check, invalid_dependency_end, Job_pop, actionVars
<1>10. CASE before(t) \/ (action_done(t) /\ ~armed)
  BY <1>8, <1>10 DEF before, action_done
<1> QED BY <1>1, <1>2, <1>4, <1>5, <1>6, <1>7, <1>9, <1>10 DEF ThreadStep

(* ServerDispatchPhase changes the entry at its loop index.                 *)
LEMMA MainTable ==
  ASSUME TypeOK, MainStep, NEW a \in Actions
  PROVE  \/ Same(a)
         \/ /\ pc = "dispatch" /\ a = i /\ i < last_g /\ dispatch_group
            /\ dispatched'[a]
            /\ noact => Completed(a)
            /\ ~noact => ~done'[a] /\ recorded'[a] = recorded[a] /\ var'[a] = var[a]
         \/ /\ pc = "mark" /\ a = i /\ i < last_c
            /\ dispatched'[a] = dispatched[a] /\ Completed(a)
         \/ /\ pc \in {"record_c", "record_s"} /\ a = i /\ record_status
            /\ i < (IF pc = "record_c" THEN last_c ELSE last_s)
            /\ dispatched'[a] = dispatched[a] /\ done'[a] = done[a]
            /\ status'[a] = status[a] /\ var'[a] = var[a]
            /\ recorded'[a] = (recorded[a] \/ done[a])
<1>0. /\ num \in Nat /\ i \in Nat /\ last_g \in 0 .. num /\ last_c \in 0 .. num
      /\ last_s \in 0 .. num /\ recorded \in [Actions -> BOOLEAN] /\ done \in [Actions -> BOOLEAN]
      /\ dispatched \in [Actions -> BOOLEAN]
  BY TableType DEF TypeOK
<1>1. CASE UNCHANGED <<dispatched, done, recorded, status, var>>
  BY <1>1 DEF Same
<1>2. CASE dispatch_group
  <2>1. CASE i < last_g /\ dispatch_locked(i)
    <3>1. i \in Actions
      BY <1>0, <2>1 DEF Actions
    <3>2. CASE a = i
      BY <1>2, <2>1, <3>1, <3>2, Dispatches DEF dispatch_group
    <3>3. CASE a # i
      BY <2>1, <3>1, <3>3, Dispatches
    <3> QED BY <3>2, <3>3
  <2>2. CASE UNCHANGED actionVars
    BY <1>1, <2>2 DEF actionVars
  <2> QED BY <1>2, <2>1, <2>2 DEF dispatch_group
<1>3. CASE mark_cant_happen
  <2>1. CASE i < last_c /\ action_done_action_locked(i, CANT_HAPPEN)
    <3>1. i \in Actions /\ UNCHANGED dispatched /\ pc = "mark"
      BY <1>0, <1>3, <2>1 DEF Actions, mark_cant_happen
    <3>2. CASE a = i
      BY <2>1, <3>1, <3>2, Completes, StatusType
    <3>3. CASE a # i
      BY <2>1, <3>1, <3>3, Completes, StatusType DEF Same
    <3> QED BY <3>2, <3>3
  <2>2. CASE UNCHANGED <<status, done, recorded, var>>
    BY <1>1, <1>3, <2>2 DEF mark_cant_happen
  <2> QED BY <1>3, <2>1, <2>2 DEF mark_cant_happen
<1>4. CASE record_status
  <2> DEFINE last == IF pc = "record_c" THEN last_c ELSE last_s
  <2>1. /\ pc \in {"record_c", "record_s"}
        /\ UNCHANGED <<dispatched, done, status, var>>
        /\ \/ i < last /\ recorded' = [recorded EXCEPT ![i] = @ \/ (done[i] /\ ~recorded[i])]
           \/ UNCHANGED recorded
    BY <1>4, Zenon DEF record_status
  <2>2. CASE UNCHANGED recorded
    BY <1>1, <2>1, <2>2
  <2>3. CASE i < last /\ recorded' = [recorded EXCEPT ![i] = @ \/ (done[i] /\ ~recorded[i])]
    <3>1. CASE a = i
      <4>1. recorded'[a] = (recorded[a] \/ (done[a] /\ ~recorded[a]))
        BY <1>0, <2>3, <3>1
      <4>2. recorded'[a] = (recorded[a] \/ done[a])
        BY <1>0, <4>1
      <4> QED BY <1>4, <2>1, <2>3, <3>1, <4>2
    <3>2. CASE a # i
      BY <1>0, <2>1, <2>3, <3>2 DEF Same
    <3> QED BY <3>1, <3>2
  <2> QED BY <2>1, <2>2, <2>3
<1>5. CASE \/ next_group \/ wait_for_group \/ wait_for_all \/ setAbortInProgress
           \/ server_dispatch_table_disarm \/ ServerFailedEssential
           \/ ServerDispatchPhase \/ LookupStep
  BY <1>1, <1>5 DEF next_group, wait_for_group, wait_for_all, setAbortInProgress,
       server_dispatch_table_disarm, ServerFailedEssential, ServerDispatchPhase,
     LookupStep, phase_lookup, phase_unknown, actionVars
<1> QED BY <1>2, <1>3, <1>4, <1>5 DEF MainStep, InPhaseStep

(* Replies, lost connections and stuttering leave the table alone. *)
LEMMA OtherTable ==
  ASSUME Receive \/ UNCHANGED vars, NEW a \in Actions
  PROVE  Same(a)
BY DEF Receive, job_starting, job_finished, connection_lost, vars, actionVars, Same

(* A variable that is defined stays defined, an action that was sent once   *)
(* is in flight or done ever after.                                         *)
LEMMA TableGrows ==
  ASSUME TypeOK, [Next]_vars, NEW a \in Actions
  PROVE  (Known(a) => Known(a)') /\ (Touched(a) => Touched(a)')
<1>1. ASSUME NEW t \in Threads, ThreadStep(t)
      PROVE  (Known(a) => Known(a)') /\ (Touched(a) => Touched(a)')
  BY <1>1, ThreadTable DEF Same, Completed, Known, Touched
<1>2. CASE MainStep
  BY <1>2, MainTable DEF Same, Completed, Known, Touched
<1>3. CASE Receive \/ UNCHANGED vars
  BY <1>3, OtherTable DEF Same, Known, Touched
<1> QED BY <1>1, <1>2, <1>3 DEF Next

-----------------------------------------------------------------------------
(* The calls in progress. *)

(* TdiGetLong on a condition that names some action: undefined as long as   *)
(* one of them is, and an error only for a condition that is invalid.       *)
LEMMA Evaluation ==
  ASSUME TypeOK, NEW c \in Conditional, Refs(c) # {}
  PROVE  /\ TdiGetLong(c, var) = UNKNOWN_VAR <=> \E d \in Refs(c) : ~Known(d)
         /\ TdiGetLong(c, var) = INVALID => when[c] = "invalid"
<1>1. CASE \E d \in Refs(c) : var[d] = UNKNOWN_VAR
  <2>1. TdiGetLong(c, var) = UNKNOWN_VAR
    BY <1>1 DEF TdiGetLong
  <2> QED BY <1>1, <2>1 DEF Known, UNKNOWN_VAR, INVALID
<1>2. CASE ~\E d \in Refs(c) : var[d] = UNKNOWN_VAR
  <2>1. \A d \in Refs(c) : var[d] \in Statuses
    BY <1>2 DEF Refs, TypeOK
  <2>2. var[CHOOSE d \in Refs(c) : TRUE] \in Statuses
    BY <2>1
  <2>3. UNKNOWN_VAR \notin Statuses /\ INVALID \notin Statuses
    BY StatusKnown DEF INVALID, Statuses, Unset, SUCCESS, FAILED, NOT_DISPATCHED,
       CANT_HAPPEN, INVALID_DEPENDENCY, PATH_DOWN
  <2>4. when[c] \in {"same", "all", "any", "invalid"}
    BY TableType DEF WhenKinds
  <2>5. CASE when[c] = "invalid"
    <3>1. TdiGetLong(c, var) = INVALID
      BY <1>2, <2>5 DEF TdiGetLong
    <3> QED BY <1>2, <2>5, <3>1 DEF Known, UNKNOWN_VAR, INVALID
  <2>6. CASE when[c] = "same"
    <3>1. TdiGetLong(c, var) = var[CHOOSE d \in Refs(c) : TRUE]
      BY <1>2, <2>6 DEF TdiGetLong
    <3> QED BY <1>2, <2>2, <2>3, <3>1 DEF Known
  <2>7. CASE when[c] = "all"
    <3>1. TdiGetLong(c, var) = IF \A d \in Refs(c) : IS_OK(var[d]) THEN 1 ELSE 0
      BY <1>2, <2>7 DEF TdiGetLong
    <3>2. TdiGetLong(c, var) \in {0, 1}
      BY <3>1
    <3> QED BY <1>2, <3>2 DEF Known, UNKNOWN_VAR, INVALID
  <2>8. CASE when[c] = "any"
    <3>1. TdiGetLong(c, var) = IF \E d \in Refs(c) : IS_OK(var[d]) THEN 1 ELSE 0
      BY <1>2, <2>8 DEF TdiGetLong
    <3>2. TdiGetLong(c, var) \in {0, 1}
      BY <3>1
    <3> QED BY <1>2, <3>2 DEF Known, UNKNOWN_VAR, INVALID
  <2> QED BY <2>4, <2>5, <2>6, <2>7, <2>8
<1> QED BY <1>1, <1>2

(* A call that fits its thread still does after any step. *)
LEMMA FitsGrows ==
  ASSUME TypeOK, [Next]_vars, NEW t \in Threads, NEW f \in Frames, Fits(t, f)
  PROVE  Fits(t, f)'
<1>1. f.idx \in Actions
  BY DEF Frames
<1>2. \A d \in Refs(f.idx) : Known(d) => Known(d)'
  BY TableGrows DEF Refs
<1>3. (Known(f.idx) => Known(f.idx)') /\ (Touched(f.idx) => Touched(f.idx)')
  BY <1>1, TableGrows
<1> QED BY <1>2, <1>3 DEF Fits

(* ... and so does a stack of calls. *)
LEMMA StackFitsGrows ==
  ASSUME TypeOK, [Next]_vars, NEW t \in Threads, NEW s \in Seq(FrameOf(t))
  PROVE  s \in Seq(FrameOf(t)')
<1>1. FrameOf(t) \subseteq FrameOf(t)'
  BY FitsGrows DEF FrameOf
<1> QED BY <1>1

(* What a new call must satisfy. *)
LEMMA CallFits ==
  ASSUME NEW t \in Threads, NEW fn \in Fns, NEW idx \in Actions, NEW st \in Statuses,
         fn \in CondFns => idx \in Conditional,
         Touched(idx)',
         fn \in {"cascade", "refs", "invend"} => Known(idx)',
         fn \in {"invdep", "invend"} => when[idx] = "invalid",
         fn = "dispatch" => \A d \in Refs(idx) : Known(d)',
         fn \in {"send", "sent", "cleanup", "fail"} => t = "main" \/ idx \in Conditional,
         fn \notin {"lost", "pop", "before", "callback"},
         fn = "cleanup" => "handshake" \in Faults
  PROVE  Call(fn, idx, st) \in FrameOf(t)'
<1>1. Call(fn, idx, st) \in Frames
  BY CallType
<1>2. Call(fn, idx, st).fn = fn /\ Call(fn, idx, st).idx = idx
  BY DEF Call
<1>3. Fits(t, Call(fn, idx, st))'
  BY <1>2 DEF Fits
<1> QED BY <1>1, <1>3 DEF FrameOf

(* A job is called back by the receiver, or after a failed handshake. *)
LEMMA CallbackFits ==
  ASSUME NEW t \in Threads, NEW j \in Actions \X Threads, NEW st \in Statuses,
         Touched(j[1])', j[2] = "main" \/ j[1] \in Conditional,
         t = "receiver" \/ "handshake" \in Faults
  PROVE  CallJob("callback", j, st) \in FrameOf(t)'
<1>1. CallJob("callback", j, st) \in Frames
  BY CallJobType DEF Fns, CondFns
<1>2. /\ CallJob("callback", j, st).fn = "callback" /\ CallJob("callback", j, st).idx = j[1]
      /\ CallJob("callback", j, st).by = j[2]
  BY DEF CallJob, Call
<1>3. Fits(t, CallJob("callback", j, st))'
  BY <1>2 DEF Fits
<1> QED BY <1>1, <1>3 DEF FrameOf

(* One conditional action that names idx in its condition. *)
LEMMA ReferenceOf ==
  ASSUME NEW idx \in Actions, NEW k \in Nat \ {0}, k <= Len(referenced_by[idx])
  PROVE  /\ referenced_by[idx][k] \in Conditional
         /\ idx \in Refs(referenced_by[idx][k])
<1>1. referenced_by[idx] \in Seq(Conditional)
  BY TableType
<1>2. k \in DOMAIN referenced_by[idx]
  BY <1>1
<1> QED BY <1>1, <1>2, ElementOfSeq DEF Refs

(* reference_check: the branch that is taken. *)
LEMMA ReferenceStep ==
  ASSUME TypeOK, FramesFit, NEW t \in Threads, reference_check(t)
  PROVE  LET f == Top(t)
             cidx == referenced_by[f.idx][f.k]
             next == [f EXCEPT !.k = @ + 1]
         IN  /\ At(t, "refs") /\ f \in Frames /\ Fits(t, f) /\ stack[t] # <<>>
             /\ UNCHANGED <<actionVars, mainVars, jobVars>>
             /\ \/ Return(t) /\ UNCHANGED readers
                \/ Goto(t, next) /\ UNCHANGED readers
                \/ /\ cidx \in Conditional
                   /\ \E d1, d2 \in Refs(cidx) : d1 # d2
                   /\ readers' = [readers EXCEPT ![cidx] = @ + 1]
                   /\ Goto(t, next)
                \/ /\ cidx \in Conditional
                   /\ ~dispatched[cidx] /\ ~done[cidx]
                   /\ \A d \in Refs(cidx) : Known(d)
                   /\ UNCHANGED readers
                   /\ \E fn \in {"invdep", "notdisp", "dispatch"} :
                        /\ fn = "invdep" => when[cidx] = "invalid"
                        /\ GotoCalling(t, next, Call(fn, cidx, Unset))
<1> DEFINE f == Top(t)
           refs == referenced_by[f.idx]
           cidx == refs[f.k]
           next == [f EXCEPT !.k = @ + 1]
           doit == TdiGetLong(cidx, var)
<1>1. /\ At(t, "refs") /\ f \in Frames /\ Fits(t, f) /\ stack[t] # <<>>
      /\ f.idx \in Actions /\ f.k \in Nat \ {0} /\ Known(f.idx)
  BY TopType, TopFits DEF reference_check, Fits, At
<1>2. /\ UNCHANGED <<actionVars, mainVars, jobVars>>
      /\ \/ Return(t) /\ UNCHANGED readers
         \/ Goto(t, next) /\ UNCHANGED readers
         \/ /\ f.k <= Len(refs) /\ doit = UNKNOWN_VAR
            /\ readers' = [readers EXCEPT ![cidx] = @ + 1]
            /\ Goto(t, next)
         \/ /\ f.k <= Len(refs) /\ doit # UNKNOWN_VAR /\ ~dispatched[cidx] /\ ~done[cidx]
            /\ GotoCalling(t, next,
                   Call(CASE doit = INVALID -> "invdep"
                          [] doit = 0       -> "notdisp"
                          [] OTHER          -> "dispatch", cidx, Unset))
            /\ UNCHANGED readers
  <2> HIDE DEF doit
  <2> QED BY DEF reference_check, doit
<1>3. ASSUME f.k <= Len(refs)
      PROVE  /\ cidx \in Conditional /\ f.idx \in Refs(cidx)
             /\ doit = UNKNOWN_VAR <=> \E d \in Refs(cidx) : ~Known(d)
             /\ doit = INVALID => when[cidx] = "invalid"
  <2>1. cidx \in Conditional /\ f.idx \in Refs(cidx)
    BY <1>1, <1>3, ReferenceOf
  <2> HIDE DEF cidx, f
  <2> QED BY <2>1, Evaluation
<1>4. CASE /\ f.k <= Len(refs) /\ doit = UNKNOWN_VAR
           /\ readers' = [readers EXCEPT ![cidx] = @ + 1]
           /\ Goto(t, next)
  <2>1. \E d1, d2 \in Refs(cidx) : d1 # d2
    BY <1>1, <1>3, <1>4
  <2> QED BY <1>1, <1>2, <1>3, <1>4, <2>1
<1>5. CASE /\ f.k <= Len(refs) /\ doit # UNKNOWN_VAR /\ ~dispatched[cidx] /\ ~done[cidx]
           /\ GotoCalling(t, next,
                   Call(CASE doit = INVALID -> "invdep"
                          [] doit = 0       -> "notdisp"
                          [] OTHER          -> "dispatch", cidx, Unset))
           /\ UNCHANGED readers
  <2>1. PICK fn \in {"invdep", "notdisp", "dispatch"} :
          /\ fn = "invdep" => when[cidx] = "invalid"
          /\ fn = CASE doit = INVALID -> "invdep"
                    [] doit = 0       -> "notdisp"
                    [] OTHER          -> "dispatch"
    <3> HIDE DEF doit, cidx, next, refs, f
    <3>1. CASE doit = INVALID
      BY <1>3, <1>5, <3>1 DEF INVALID
    <3>2. CASE doit # INVALID /\ doit = 0
      BY <3>2
    <3>3. CASE doit # INVALID /\ doit # 0
      BY <3>3
    <3> QED BY <3>1, <3>2, <3>3
  <2>2. \A d \in Refs(cidx) : Known(d)
    BY <1>3, <1>5
  <2> QED BY <1>1, <1>2, <1>3, <1>5, <2>1, <2>2
<1> HIDE DEF doit
<1> QED BY <1>1, <1>2, <1>4, <1>5

(* A thread's step changes its stack by calls that fit it. *)
LEMMA FitsStep ==
  ASSUME TypeOK, CallInv, NEW t \in Threads, ThreadStep(t)
  PROVE  /\ stack[t] # <<>>
         /\ \E f, g \in FrameOf(t)' :
              Goto(t, f) \/ Return(t) \/ GotoCalling(t, f, g) \/ Start(t, f)
<1>0. Next /\ [Next]_vars
  BY DEF Next
<1>1. stack[t] # <<>>
  BY DEF ThreadStep, dispatch, send_message, handshake, pop_by_conid, dispatch_failed,
     Job_callback_done, Job_pop, action_done, before, cascade, reference_check,
     not_dispatched, invalid_dependency, invalid_dependency_end, At
<1>2. PICK f \in Frames : f = Top(t) /\ Fits(t, f)
  BY <1>1, TopFits DEF CallInv
<1>3. /\ f.idx \in Actions /\ f.st \in Statuses /\ f.by \in Threads /\ f.k \in Nat \ {0}
      /\ f.fn \in CondFns => f.idx \in Conditional
  BY <1>2 DEF Frames
<1>4. f \in FrameOf(t)'
  BY <1>0, <1>2, FitsGrows DEF FrameOf
<1>5. /\ Touched(f.idx) => Touched(f.idx)'
      /\ Known(f.idx) => Known(f.idx)'
      /\ f.fn # "lost" => Touched(f.idx)'
  BY <1>0, <1>2, <1>3, TableGrows DEF Fits
<1>6. \A fn : At(t, fn) => f.fn = fn
  BY <1>2 DEF At
<1>7. Unset \in Statuses /\ PATH_DOWN \in Statuses
  BY StatusType
<1>8. f.fn \in {"cascade", "refs", "invend"} => Known(f.idx)'
  BY <1>2, <1>5 DEF Fits
<1>9. \A a \in Conditional : Touched(a)'
  BY DEF Touched
<1> USE <1>1, <1>2, <1>3, <1>4, <1>5, <1>6, <1>7
<1>11. CASE dispatch(t)
  <2>1. f.fn = "dispatch" /\ f.idx \in Conditional /\ dispatch_locked(f.idx)
        /\ Goto(t, AfterDispatchLocked(f.idx))
    BY <1>11 DEF dispatch, CondFns
  <2>2. noact => Known(f.idx)'
    BY <2>1, Dispatches DEF Completed
  <2>3. AfterDispatchLocked(f.idx) \in FrameOf(t)'
    BY <2>1, <2>2, CallFits DEF AfterDispatchLocked, Fns, CondFns
  <2> QED BY <2>1, <2>3
<1>12. CASE send_message(t)
  <2>1. f.fn = "send" /\ (t = "main" \/ f.idx \in Conditional)
    BY <1>12 DEF send_message, Fits
  <2>2. /\ Call("fail", f.idx, PATH_DOWN) \in FrameOf(t)'
        /\ Call("complete", f.idx, Unset) \in FrameOf(t)'
        /\ Call("sent", f.idx, Unset) \in FrameOf(t)'
    BY <2>1, CallFits DEF Fns, CondFns
  <2> QED BY <1>12, <2>2 DEF send_message
<1>13. CASE handshake(t)
  <2> DEFINE own == <<f.idx, t>>
  <2>1. f.fn = "sent" /\ (t = "main" \/ f.idx \in Conditional)
    BY <1>13 DEF handshake, Fits
  <2>2. \/ Return(t)
        \/ /\ "handshake" \in Faults
           /\ GotoCalling(t, Call("cleanup", f.idx, PATH_DOWN), CallJob("callback", own, PATH_DOWN))
        \/ Goto(t, Call("fail", f.idx, PATH_DOWN))
    BY <1>13 DEF handshake
  <2>3. Call("fail", f.idx, PATH_DOWN) \in FrameOf(t)'
    BY <2>1, CallFits DEF Fns, CondFns
  <2>4. "handshake" \in Faults => Call("cleanup", f.idx, PATH_DOWN) \in FrameOf(t)'
    BY <2>1, CallFits DEF Fns, CondFns
  <2>5. "handshake" \in Faults => CallJob("callback", own, PATH_DOWN) \in FrameOf(t)'
    <3>1. own \in Actions \X Threads /\ own[1] = f.idx /\ own[2] = t
      OBVIOUS
    <3>2. Touched(own[1])' /\ (own[2] = "main" \/ own[1] \in Conditional)
      BY <2>1, <3>1
    <3> HIDE DEF own
    <3> QED BY <3>1, <3>2, CallbackFits
  <2> QED BY <2>2, <2>3, <2>4, <2>5
<1>14. CASE pop_by_conid(t)
  <2>1. f.fn \in {"cleanup", "lost"}
    BY <1>14 DEF pop_by_conid
  <2>2. \/ \E j \in jobs : Start(t, CallJob("callback", j, PATH_DOWN))
        \/ f.fn = "cleanup" /\ Goto(t, Call("fail", f.idx, f.st))
        \/ Return(t)
    BY <1>14 DEF pop_by_conid, JobsOn
  <2>3. f.fn = "cleanup" => Call("fail", f.idx, f.st) \in FrameOf(t)'
    BY CallFits DEF Fns, CondFns, Fits
  <2>4. \A j \in jobs : CallJob("callback", j, PATH_DOWN) \in FrameOf(t)'
    <3> TAKE j \in jobs
    <3>1. j \in Actions \X Threads
      BY DEF TypeOK
    <3>2. Touched(j[1])' /\ (j[2] = "main" \/ j[1] \in Conditional)
      BY <1>0, <3>1, TableGrows DEF CallInv, JobsFit
    <3>3. t = "receiver" \/ "handshake" \in Faults
      BY <2>1 DEF Fits
    <3> QED BY <3>1, <3>2, <3>3, CallbackFits
  <2> QED BY <2>2, <2>3, <2>4
<1>15. CASE dispatch_failed(t)
  <2>1. f.fn = "fail" /\ action_done_action_locked(f.idx, f.st)
        /\ Goto(t, Call("cascade", f.idx, Unset))
    BY <1>15 DEF dispatch_failed
  <2>2. Call("cascade", f.idx, Unset) \in FrameOf(t)'
    BY <2>1, Completes, CallFits DEF Completed, Fns, CondFns
  <2> QED BY <2>1, <2>2
<1>16. CASE Job_callback_done(t)
  <2>1. f.fn = "callback" /\ (Return(t) \/ Goto(t, Call("complete", f.idx, Unset)))
    BY <1>16 DEF Job_callback_done
  <2>2. Call("complete", f.idx, Unset) \in FrameOf(t)'
    BY <2>1, CallFits DEF Fns, CondFns
  <2> QED BY <2>1, <2>2
<1>17. CASE Job_pop(t) \/ before(t)
  BY <1>17 DEF Job_pop, before
<1>18. CASE action_done(t)
  <2>1. CASE Return(t)
    BY <2>1
  <2>2. CASE /\ action_done_action_locked(f.idx, status[f.idx])
             /\ Goto(t, Call("cascade", f.idx, Unset))
    <3>1. f.fn = "complete" /\ status[f.idx] \in Statuses
      BY <1>18 DEF action_done, TypeOK
    <3>2. Call("cascade", f.idx, Unset) \in FrameOf(t)'
      BY <2>2, <3>1, Completes, CallFits DEF Completed, Fns, CondFns
    <3> QED BY <2>2, <3>2
  <2> QED BY <1>18, <2>1, <2>2 DEF action_done
<1>19. CASE cascade(t)
  <2>1. f.fn = "cascade" /\ (Return(t) \/ Goto(t, Call("refs", f.idx, Unset)))
    BY <1>19 DEF cascade
  <2>2. Call("refs", f.idx, Unset) \in FrameOf(t)'
    BY <1>8, <2>1, CallFits DEF Fns, CondFns
  <2> QED BY <2>1, <2>2
<1>20. CASE reference_check(t)
  <2> DEFINE cidx == referenced_by[f.idx][f.k]
             next == [f EXCEPT !.k = @ + 1]
  <2>1. /\ f.fn = "refs"
        /\ \/ Return(t)
           \/ Goto(t, next)
           \/ /\ cidx \in Conditional
              /\ \A d \in Refs(cidx) : Known(d)
              /\ \E fn \in {"invdep", "notdisp", "dispatch"} :
                   /\ fn = "invdep" => when[cidx] = "invalid"
                   /\ GotoCalling(t, next, Call(fn, cidx, Unset))
    BY <1>20, ReferenceStep DEF CallInv, At
  <2>2. next \in FrameOf(t)'
    <3>1. /\ next \in Frames /\ next.fn = "refs" /\ next.idx = f.idx
      BY <2>1 DEF Frames
    <3>2. Fits(t, next)'
      <4> HIDE DEF next
      <4> QED BY <1>8, <2>1, <3>1 DEF Fits
    <3> QED BY <3>1, <3>2 DEF FrameOf
  <2>3. ASSUME cidx \in Conditional, \A d \in Refs(cidx) : Known(d),
               NEW fn \in {"invdep", "notdisp", "dispatch"},
               fn = "invdep" => when[cidx] = "invalid"
        PROVE  Call(fn, cidx, Unset) \in FrameOf(t)'
    <3>1. cidx \in Actions /\ \A d \in Refs(cidx) : Known(d)'
      BY <1>0, <2>3, TableGrows, TableType DEF Refs
    <3> HIDE DEF cidx
    <3> QED BY <1>9, <2>3, <3>1, CallFits DEF Fns, CondFns
  <2> QED BY <2>1, <2>2, <2>3
<1>21. CASE not_dispatched(t)
  <2>1. f.fn = "notdisp" /\ action_done_action_locked(f.idx, NOT_DISPATCHED)
        /\ Goto(t, Call("cascade", f.idx, Unset))
    BY <1>21 DEF not_dispatched
  <2>2. Call("cascade", f.idx, Unset) \in FrameOf(t)'
    BY <2>1, StatusType, Completes, CallFits DEF Completed, Fns, CondFns
  <2> QED BY <2>1, <2>2
<1>22. CASE invalid_dependency(t)
  <2>1. f.fn = "invdep" /\ action_done_action_locked(f.idx, INVALID_DEPENDENCY)
        /\ GotoCalling(t, Call("invend", f.idx, Unset), Call("cascade", f.idx, Unset))
    BY <1>22 DEF invalid_dependency
  <2>2. Known(f.idx)' /\ when[f.idx] = "invalid" /\ f.idx \in Conditional
    BY <2>1, StatusType, Completes DEF Completed, Fits, CondFns
  <2>3. Call("cascade", f.idx, Unset) \in FrameOf(t)' /\ Call("invend", f.idx, Unset) \in FrameOf(t)'
    BY <2>1, <2>2, CallFits DEF Fns, CondFns
  <2> QED BY <2>1, <2>3
<1>23. CASE invalid_dependency_end(t)
  <2>1. f.fn = "invend" /\ Goto(t, Call("cascade", f.idx, Unset))
    BY <1>23 DEF invalid_dependency_end
  <2>2. Call("cascade", f.idx, Unset) \in FrameOf(t)'
    BY <1>8, <2>1, CallFits DEF Fns, CondFns
  <2> QED BY <2>1, <2>2
<1> QED BY <1>11, <1>12, <1>13, <1>14, <1>15, <1>16, <1>17, <1>18, <1>19, <1>20,
           <1>21, <1>22, <1>23 DEF ThreadStep

(* Every other step only wakes the receiver or starts a sequential action.  *)
LEMMA FitsOther ==
  ASSUME TypeOK, CallInv, MainStep \/ Receive \/ UNCHANGED vars
  PROVE  \A t \in Threads : stack'[t] \in Seq(FrameOf(t)')
<1>0. [Next]_vars /\ num \in Nat /\ i \in Nat /\ last_g \in 0 .. num
  BY TableType DEF Next, TypeOK
<1>1. \A t \in Threads : stack[t] \in Seq(FrameOf(t)')
  BY <1>0, StackFitsGrows DEF CallInv, FramesFit
<1>2. "main" \in Threads /\ "receiver" \in Threads
  BY DEF Threads
<1>3. CASE UNCHANGED stack
  BY <1>1, <1>3
<1>4. ASSUME NEW t \in Threads, NEW g \in FrameOf(t)', Start(t, g)
      PROVE  \A u \in Threads : stack'[u] \in Seq(FrameOf(u)')
  <2>1. stack'[t] \in Seq(FrameOf(t)') /\ \A u \in Threads \ {t} : stack'[u] = stack[u]
    BY <1>1, <1>4, StackOf
  <2> QED BY <1>1, <2>1
<1>5. CASE dispatch_group
  <2>1. CASE i < last_g /\ dispatch_locked(i) /\ Start("main", AfterDispatchLocked(i))
    <3>1. PICK a \in Actions : a = i
      BY <1>0, <2>1 DEF Actions
    <3>2. Touched(a)' /\ (noact => Known(a)')
      BY <2>1, <3>1, Dispatches DEF Touched, Completed
    <3>3. AfterDispatchLocked(a) \in FrameOf("main")'
      BY <1>2, <3>2, StatusType, CallFits DEF AfterDispatchLocked, Fns, CondFns
    <3> QED BY <1>2, <1>4, <2>1, <3>1, <3>3
  <2>2. CASE UNCHANGED stack
    BY <1>3, <2>2
  <2> QED BY <1>5, <2>1, <2>2 DEF dispatch_group
<1>6. CASE Receive
  <2>1. ASSUME NEW j \in jobs
        PROVE  j \in Actions \X Threads /\ Touched(j[1])' /\ (j[2] = "main" \/ j[1] \in Conditional)
    <3>1. j \in Actions \X Threads
      BY DEF TypeOK
    <3>2. j[1] \in Actions
      BY <3>1
    <3> QED BY <1>0, <3>1, <3>2, TableGrows DEF CallInv, JobsFit
  <2>2. ASSUME NEW idx \in Actions, job_starting(idx)
        PROVE  \A u \in Threads : stack'[u] \in Seq(FrameOf(u)')
    <3>1. Touched(idx)'
      BY <2>1, <2>2 DEF job_starting, Answerable
    <3>2. Call("before", idx, Unset) \in Frames
      BY StatusType, CallType DEF Fns, CondFns
    <3>3. Call("before", idx, Unset).fn = "before" /\ Call("before", idx, Unset).idx = idx
      BY DEF Call
    <3>4. Call("before", idx, Unset) \in FrameOf("receiver")'
      BY <3>1, <3>2, <3>3 DEF FrameOf, Fits
    <3> QED BY <1>2, <1>4, <2>2, <3>4 DEF job_starting
  <2>3. ASSUME NEW c \in Actions \X Threads, connection_lost(c)
        PROVE  \A u \in Threads : stack'[u] \in Seq(FrameOf(u)')
    <3>1. CallJob("lost", c, Unset) \in Frames
      BY StatusType, CallJobType DEF Fns, CondFns
    <3>2. CallJob("lost", c, Unset).fn = "lost"
      BY DEF CallJob, Call
    <3>3. CallJob("lost", c, Unset) \in FrameOf("receiver")'
      BY <3>1, <3>2 DEF FrameOf, Fits
    <3> QED BY <1>2, <1>4, <2>3, <3>3 DEF connection_lost
  <2>4. ASSUME NEW j \in Actions \X Threads, NEW st \in Replies, job_finished(j, st)
        PROVE  \A u \in Threads : stack'[u] \in Seq(FrameOf(u)')
    <3>1. st \in Statuses /\ j \in jobs
      BY <2>4, ParameterType DEF job_finished, Answerable
    <3>2. CallJob("callback", j, st) \in FrameOf("receiver")'
      BY <1>2, <2>1, <3>1, CallbackFits
    <3>3. /\ CallJob("pop", j, st) \in Frames
          /\ CallJob("pop", j, st).fn = "pop" /\ CallJob("pop", j, st).idx = j[1]
          /\ CallJob("pop", j, st).by = j[2]
      BY <3>1, CallJobType DEF Fns, CondFns, CallJob, Call
    <3>4. CallJob("pop", j, st) \in FrameOf("receiver")'
      BY <2>1, <3>1, <3>3 DEF FrameOf, Fits
    <3>5. <<CallJob("callback", j, st), CallJob("pop", j, st)>> \in Seq(FrameOf("receiver")')
      BY <3>2, <3>4
    <3>6. stack' = [stack EXCEPT !["receiver"] = <<CallJob("callback", j, st), CallJob("pop", j, st)>>]
      BY <2>4 DEF job_finished
    <3> QED BY <1>1, <1>2, <3>5, <3>6 DEF TypeOK
  <2> QED BY <1>6, <2>2, <2>3, <2>4 DEF Receive
<1>7. CASE MainStep /\ ~dispatch_group
  BY <1>3, <1>7 DEF MainStep, InPhaseStep, next_group, wait_for_group, wait_for_all,
     setAbortInProgress, mark_cant_happen, record_status, server_dispatch_table_disarm,
     ServerFailedEssential, ServerDispatchPhase, LookupStep, phase_lookup, phase_unknown
<1>8. CASE UNCHANGED vars
  BY <1>3, <1>8 DEF vars
<1> QED BY <1>5, <1>6, <1>7, <1>8

(* A job is registered for an action that was sent, by the thread that sent *)
(* it.                                                                      *)
LEMMA JobsFitNext ==
  ASSUME TypeOK, CallInv, [Next]_vars
  PROVE  JobsFit'
<1>1. \A j \in jobs \cup live : Touched(j[1])' /\ (j[1] \in Conditional \/ j[2] = "main")
  <2> TAKE j \in jobs \cup live
  <2>1. j \in Actions \X Threads
    BY DEF TypeOK
  <2>2. j[1] \in Actions
    BY <2>1
  <2> QED BY <2>2, TableGrows DEF CallInv, JobsFit
<1>2. CASE jobs' \subseteq jobs /\ live' \subseteq live
  BY <1>1, <1>2 DEF JobsFit
<1>3. ASSUME NEW t \in Threads, send_message(t)
      PROVE  JobsFit'
  <2>1. At(t, "send")
    BY <1>3 DEF send_message
  <2>2. PICK f \in Frames : f = Top(t) /\ Fits(t, f) /\ f.fn = "send"
    BY <2>1, TopFits DEF CallInv, At
  <2>3. f.idx \in Actions /\ Touched(f.idx) /\ (t = "main" \/ f.idx \in Conditional)
    BY <2>2 DEF Fits, Frames
  <2>4. Touched(f.idx)'
    BY <2>3, TableGrows
  <2>5. jobs' \subseteq jobs \cup {<<f.idx, t>>} /\ live' \subseteq live \cup {<<f.idx, t>>}
    BY <1>3, <2>2 DEF send_message, jobVars
  <2> QED BY <1>1, <2>3, <2>4, <2>5 DEF JobsFit
<1>4. ASSUME NEW t \in Threads, ThreadStep(t), ~send_message(t)
      PROVE  JobsFit'
  BY <1>2, <1>4 DEF ThreadStep, dispatch, handshake, pop_by_conid, dispatch_failed,
     Job_callback_done, Job_pop, action_done, before, cascade, reference_check,
     not_dispatched, invalid_dependency, invalid_dependency_end, jobVars
<1>5. CASE Receive
  BY <1>2, <1>5 DEF Receive, job_starting, job_finished, connection_lost, jobVars
<1>6. CASE MainStep
  BY <1>2, <1>6 DEF MainStep, InPhaseStep, next_group, dispatch_group, wait_for_group,
     wait_for_all, setAbortInProgress, mark_cant_happen, record_status,
     server_dispatch_table_disarm, ServerFailedEssential, ServerDispatchPhase,
     LookupStep, phase_lookup, phase_unknown, jobVars
<1>7. CASE UNCHANGED vars
  BY <1>2, <1>7 DEF vars
<1> QED BY <1>3, <1>4, <1>5, <1>6, <1>7 DEF Next

(* Every call in progress fits its thread, in every reachable state. *)
LEMMA CallNext == TypeOK /\ CallInv /\ [Next]_vars => CallInv'
<1> SUFFICES ASSUME TypeOK, CallInv, [Next]_vars PROVE CallInv'
  OBVIOUS
<1>1. ASSUME NEW t \in Threads, ThreadStep(t)
      PROVE  FramesFit'
  <2>1. \A u \in Threads : stack[u] \in Seq(FrameOf(u)')
    BY StackFitsGrows DEF CallInv, FramesFit
  <2>2. PICK f \in FrameOf(t)', g \in FrameOf(t)' :
          stack[t] # <<>> /\ (Goto(t, f) \/ Return(t) \/ GotoCalling(t, f, g) \/ Start(t, f))
    BY <1>1, FitsStep
  <2>3. stack'[t] \in Seq(FrameOf(t)') /\ \A u \in Threads \ {t} : stack'[u] = stack[u]
    BY <2>1, <2>2, StackOf
  <2> QED BY <2>1, <2>3 DEF FramesFit
<1>2. MainStep \/ Receive \/ UNCHANGED vars => FramesFit'
  BY FitsOther DEF FramesFit
<1> QED BY <1>1, <1>2, JobsFitNext DEF CallInv, Next

LEMMA CallInit == Init => CallInv
<1> SUFFICES ASSUME Init PROVE CallInv
  OBVIOUS
<1>1. \A t \in Threads : stack[t] = <<>>
  BY DEF Init
<1>2. FramesFit
  BY <1>1, EmptySeq DEF FramesFit
<1>3. JobsFit
  BY DEF Init, JobsFit
<1> QED BY <1>2, <1>3 DEF CallInv

-----------------------------------------------------------------------------
(* Locks left behind. *)

(* One step: a read lock is left on an action only under LockLeak's terms.  *)
LEMMA LockLeakNext == TypeOK /\ CallInv /\ LockLeak /\ [Next]_vars => LockLeak'
<1> SUFFICES ASSUME TypeOK, CallInv, LockLeak, [Next]_vars PROVE LockLeak'
  OBVIOUS
<1>0. readers \in [Actions -> Nat]
  BY DEF TypeOK
<1>1. CASE UNCHANGED readers
  BY <1>1 DEF LockLeak
<1>2. ASSUME NEW t \in Threads, reference_check(t)
      PROVE  LockLeak'
  <2> DEFINE c == referenced_by[Top(t).idx][Top(t).k]
  <2>1. \/ UNCHANGED readers
        \/ /\ c \in Conditional
           /\ readers' = [readers EXCEPT ![c] = @ + 1]
           /\ \E d1, d2 \in Refs(c) : d1 # d2
    BY <1>2, ReferenceStep DEF CallInv
  <2>2. PICK cidx : cidx = c
    OBVIOUS
  <2>3. CASE /\ cidx \in Conditional
             /\ readers' = [readers EXCEPT ![cidx] = @ + 1]
             /\ \E d1, d2 \in Refs(cidx) : d1 # d2
    BY <1>0, <2>3, TableType DEF LockLeak
  <2> HIDE DEF c
  <2> QED BY <1>1, <2>1, <2>2, <2>3
<1>3. ASSUME NEW t \in Threads, invalid_dependency_end(t)
      PROVE  LockLeak'
  <2>1. Top(t).idx \in Actions /\ when[Top(t).idx] = "invalid"
    BY <1>3, TopType, TopFits DEF invalid_dependency_end, CallInv, Fits, At
  <2>2. PICK c \in Actions : c = Top(t).idx
    BY <2>1
  <2>3. UNCHANGED readers \/ readers' = [readers EXCEPT ![c] = @ + 1]
    BY <1>3, <2>2 DEF invalid_dependency_end
  <2> QED BY <1>0, <1>1, <2>1, <2>2, <2>3 DEF LockLeak
<1>4. ASSUME NEW t \in Threads, ThreadStep(t), ~reference_check(t), ~invalid_dependency_end(t)
      PROVE  LockLeak'
  BY <1>1, <1>4 DEF ThreadStep, dispatch, send_message, handshake, pop_by_conid,
     dispatch_failed, Job_callback_done, Job_pop, action_done, before, cascade,
     not_dispatched, invalid_dependency
<1>5. CASE MainStep \/ Receive \/ UNCHANGED vars
  BY <1>1, <1>5 DEF Receive, job_starting, job_finished, connection_lost, vars,
     MainStep, InPhaseStep, next_group, dispatch_group, wait_for_group,
     wait_for_all, setAbortInProgress, mark_cant_happen, record_status,
     server_dispatch_table_disarm, ServerFailedEssential, ServerDispatchPhase,
     LookupStep, phase_lookup, phase_unknown
<1> QED BY <1>2, <1>3, <1>4, <1>5 DEF Next

(***************************************************************************)
(* For every dispatch table: a read lock of action_done_action_unlocked     *)
(* that is never released is on an action whose condition names several     *)
(* actions or is invalid, so a table of conditions on one action each can   *)
(* be dispatched without the program locking itself out.                    *)
(***************************************************************************)
THEOREM LocksReleased == Spec => []LockLeak
<1>1. Init => LockLeak
  BY DEF Init, LockLeak
<1> QED BY <1>1, TypeCorrect, CallInit, CallNext, LockLeakNext, PTL DEF Spec

-----------------------------------------------------------------------------
(* The ranges of a phase. *)

(* The table is sorted by phase. *)
LEMMA PhaseOrder ==
  ASSUME NEW a \in Actions, NEW b \in Actions, a <= b
  PROVE  phase[a] <= phase[b]
<1>1. phase[a] \in Int /\ phase[b] \in Int /\ a \in Int /\ b \in Int
  BY TableType DEF Actions
<1>2. CASE a < b
  BY <1>1, <1>2, TableSorted
<1>3. CASE a = b
  BY <1>1, <1>3
<1> QED BY <1>1, <1>2, <1>3

(* set_action_ranges misses no action of the phase: the second range holds  *)
(* all its sequential actions, the first one conditional actions only.      *)
LEMMA RangesExact ==
  ASSUME NEW p \in Phases
  PROVE  LET r == set_action_ranges(p)
         IN  /\ r.first_c \in 0 .. num /\ r.last_c \in 0 .. num
             /\ r.first_s \in 0 .. num /\ r.last_s \in 0 .. num
             /\ r.first_c <= r.last_c /\ r.first_s <= r.last_s
             /\ r.first_c .. r.last_c - 1 \subseteq InPhase(p) \cap Conditional
             /\ r.first_s .. r.last_s - 1 = InPhase(p) \ Conditional
<1> DEFINE r == set_action_ranges(p)
           i0 == FIND_NEXT_ACTION(0, num, InPhase(p))
           CondP == InPhase(p) \cap Conditional
           NotC == Actions \ CondP
           c1 == FIND_NEXT_ACTION(i0 + 1, num, NotC)
           hasCond == i0 \in Conditional
           i1 == IF hasCond THEN c1 ELSE i0
           hasSeq == i1 \in InPhase(p)
           NotP == Actions \ InPhase(p)
           s1 == FIND_NEXT_ACTION(i1 + 1, num, NotP)
<1>0. /\ num \in Nat /\ Conditional \subseteq Actions /\ InPhase(p) \subseteq Actions
      /\ \A a \in InPhase(p) : phase[a] = p
      /\ \A a \in Actions : phase[a] = p => a \in InPhase(p)
  BY TableType DEF InPhase
<1>1. /\ i0 \in 0 .. num /\ (i0 = num \/ i0 \in InPhase(p))
      /\ \A j \in 0 .. i0 - 1 : j \notin InPhase(p)
  <2> HIDE DEF i0
  <2> QED BY <1>0, FindNext DEF i0
<1>2. ASSUME hasCond
      PROVE  /\ c1 \in i0 + 1 .. num /\ (c1 = num \/ c1 \in NotC)
             /\ \A j \in i0 + 1 .. c1 - 1 : j \notin NotC
             /\ i0 \in InPhase(p)
  <2> HIDE DEF i0, NotC
  <2>1. i0 \in Actions /\ i0 + 1 \in Nat /\ i0 + 1 <= num
    BY <1>0, <1>1, <1>2 DEF Actions
  <2>2. i0 \in InPhase(p)
    BY <1>0, <1>1, <2>1 DEF Actions
  <2> QED BY <1>0, <2>1, <2>2, FindNext
<1>3. hasCond => i0 .. c1 - 1 \subseteq CondP
  <2> SUFFICES ASSUME hasCond, NEW j \in i0 .. c1 - 1 PROVE j \in CondP
    OBVIOUS
  <2> HIDE DEF i0, c1
  <2>1. CASE j = i0
    BY <1>2, <2>1
  <2>2. CASE j # i0
    BY <1>0, <1>1, <1>2, <2>2 DEF Actions
  <2> QED BY <2>1, <2>2
<1>4. i1 \in 0 .. num
  <2> HIDE DEF i0, c1
  <2> QED BY <1>0, <1>1, <1>2
<1>5. ASSUME NEW a \in InPhase(p) \ Conditional
      PROVE  hasSeq /\ i1 <= a
  <2> HIDE DEF i0, c1
  <2>1. a \in Actions /\ a \in 0 .. num - 1 /\ i0 <= a /\ i0 \in InPhase(p)
    BY <1>0, <1>1 DEF Actions
  <2>2. CASE hasCond
    <3>1. c1 <= a
      BY <1>0, <1>1, <1>2, <1>3, <2>1, <2>2
    <3>2. c1 \in Actions /\ i0 <= c1
      BY <1>0, <1>1, <1>2, <2>1, <2>2, <3>1 DEF Actions
    <3>3. phase[i0] <= phase[c1] /\ phase[c1] <= phase[a] /\ phase[c1] \in Int /\ p \in Int
      BY <1>0, <2>1, <3>1, <3>2, PhaseOrder, TableType
    <3>4. phase[c1] = p
      BY <1>0, <2>1, <3>3
    <3> QED BY <1>0, <2>2, <3>1, <3>2, <3>4
  <2>3. CASE ~hasCond
    BY <2>1, <2>3
  <2> QED BY <2>2, <2>3
<1>6. ASSUME hasSeq
      PROVE  /\ i1 \in Actions
             /\ s1 \in i1 + 1 .. num /\ (s1 = num \/ s1 \in NotP)
             /\ \A j \in i1 + 1 .. s1 - 1 : j \notin NotP
  <2> HIDE DEF i1, NotP
  <2>1. i1 \in Actions /\ i1 + 1 \in Nat /\ i1 + 1 <= num
    BY <1>0, <1>4, <1>6 DEF Actions
  <2> QED BY <1>0, <2>1, FindNext
<1>7. ASSUME NEW a \in InPhase(p) \ Conditional
      PROVE  a \in i1 .. s1 - 1
  <2> HIDE DEF i1, s1
  <2>1. hasSeq /\ i1 <= a /\ a \in Actions
    BY <1>0, <1>5
  <2>2. ASSUME s1 <= a
        PROVE  FALSE
    <3>1. s1 \in Actions /\ i1 <= s1 /\ s1 \in NotP
      BY <1>0, <1>4, <1>6, <2>1, <2>2 DEF Actions
    <3>2. phase[i1] <= phase[s1] /\ phase[s1] <= phase[a] /\ phase[s1] \in Int /\ p \in Int
      BY <1>6, <2>1, <2>2, <3>1, PhaseOrder, TableType
    <3>3. phase[s1] = p
      BY <1>0, <2>1, <3>2
    <3> QED BY <1>0, <3>1, <3>3
  <2> QED BY <1>0, <1>4, <1>6, <2>1, <2>2 DEF Actions
<1>8. /\ r.first_c = (IF hasCond THEN i0 ELSE num)
      /\ r.last_c = (IF hasCond THEN i1 ELSE num)
      /\ r.first_s = (IF hasSeq THEN i1 ELSE num)
      /\ r.last_s = (IF hasSeq THEN s1 ELSE num)
  BY DEF set_action_ranges
<1>9. /\ r.first_s <= r.last_s
      /\ \A a \in r.first_s .. r.last_s - 1 : a \in InPhase(p) \ Conditional
  <2>1. /\ r.first_s <= r.last_s
        /\ \A a \in r.first_s .. r.last_s - 1 : a \in Actions \ Conditional /\ phase[a] = p
    BY ActionRanges
  <2> HIDE DEF r
  <2> QED BY <1>0, <2>1
<1> HIDE DEF r, i0, i1, s1, c1, hasSeq
<1>10. /\ r.first_c \in 0 .. num /\ r.last_c \in 0 .. num /\ r.first_c <= r.last_c
       /\ r.first_c .. r.last_c - 1 \subseteq CondP
  <2>1. CASE hasCond
    <3>1. r.first_c = i0 /\ r.last_c = c1
      BY <1>8, <2>1 DEF i1
    <3> QED BY <1>0, <1>1, <1>2, <1>3, <2>1, <3>1
  <2>2. CASE ~hasCond
    BY <1>0, <1>8, <2>2
  <2> QED BY <2>1, <2>2
<1>11. r.first_s \in 0 .. num /\ r.last_s \in 0 .. num
  BY <1>0, <1>4, <1>6, <1>8
<1>12. InPhase(p) \ Conditional \subseteq r.first_s .. r.last_s - 1
  BY <1>5, <1>7, <1>8
<1> QED BY <1>9, <1>10, <1>11, <1>12 DEF r

-----------------------------------------------------------------------------
(* What is recorded. *)

PhaseInv == RangeInv /\ PassedInv /\ VisitedInv

(* The facts of RangesExact, about the variables. *)
LEMMA RangesOf ==
  ASSUME TypeOK, RangeInv, curPhase # 0
  PROVE  /\ first_c \in 0 .. num /\ last_c \in 0 .. num
         /\ first_s \in 0 .. num /\ last_s \in 0 .. num
         /\ first_c <= last_c /\ first_s <= last_s
         /\ first_c .. last_c - 1 \subseteq InPhase(curPhase) \cap Conditional
         /\ first_s .. last_s - 1 = InPhase(curPhase) \ Conditional
<1> DEFINE r == set_action_ranges(curPhase)
<1>1. /\ curPhase \in Phases
      /\ first_c = r.first_c /\ last_c = r.last_c
      /\ first_s = r.first_s /\ last_s = r.last_s
  BY DEF RangeInv
<1>2. /\ r.first_c \in 0 .. num /\ r.last_c \in 0 .. num
      /\ r.first_s \in 0 .. num /\ r.last_s \in 0 .. num
      /\ r.first_c <= r.last_c /\ r.first_s <= r.last_s
      /\ r.first_c .. r.last_c - 1 \subseteq InPhase(curPhase) \cap Conditional
      /\ r.first_s .. r.last_s - 1 = InPhase(curPhase) \ Conditional
  BY <1>1, RangesExact
<1> QED BY <1>1, <1>2

(* The callbacks of either thread, a reply or a lost connection leave the   *)
(* main thread's loops alone.                                               *)
LEMMA LoopsKept ==
  ASSUME (\E t \in Threads : ThreadStep(t)) \/ Receive \/ UNCHANGED vars
  PROVE  UNCHANGED mainVars
BY DEF Receive, job_starting, job_finished, connection_lost, vars, mainVars, rangeVars,
   ThreadStep, dispatch, send_message, handshake, pop_by_conid, dispatch_failed,
   Job_callback_done, Job_pop, action_done, before, cascade, reference_check,
   not_dispatched, invalid_dependency, invalid_dependency_end

(* Only DISPATCH/PHASE itself changes the ranges. *)
LEMMA RangeNext ==
  ASSUME TypeOK, RangeInv, [Next]_vars
  PROVE  RangeInv'
<1>0. 0 \notin Phases
  BY TableType
<1>1. CASE UNCHANGED mainVars
  BY <1>1 DEF mainVars, rangeVars, RangeInv, Outside
<1>2. CASE ServerDispatchPhase \/ LookupStep
  BY <1>0, <1>2 DEF ServerDispatchPhase, LookupStep, phase_lookup, phase_unknown, rangeVars,
     RangeInv, Outside
<1>3. CASE InPhaseStep
  <2>1. UNCHANGED rangeVars /\ ~Outside
    BY <1>3 DEF InPhaseStep, next_group, dispatch_group, wait_for_group, wait_for_all,
       setAbortInProgress, mark_cant_happen, record_status, Outside
  <2> QED BY <2>1 DEF RangeInv, rangeVars
<1>4. CASE server_dispatch_table_disarm \/ ServerFailedEssential
  BY <1>4 DEF server_dispatch_table_disarm, ServerFailedEssential, RangeInv, rangeVars, Outside
<1> QED BY <1>1, <1>2, <1>3, <1>4, LoopsKept DEF Next, MainStep

(* When no group is being sent or waited for, the sequential actions of the *)
(* phase are done.                                                          *)
LEMMA PhaseDone ==
  ASSUME TypeOK, BarrierInv, PassedInv, curPhase # 0,
         pc \notin {"group", "dispatch", "wait_group"},
         NEW a \in InPhase(curPhase) \ Conditional
  PROVE  a \in Actions /\ done[a]
<1>1. a \in Actions /\ a < Reached
  BY TableType DEF InPhase, Actions, Reached
<1>2. (dispatched[a] \/ done[a]) /\ ~InFlight(a)
  BY <1>1 DEF PassedInv, PassedAt, BarrierInv, FlightBounds
<1> QED BY <1>1, <1>2 DEF InFlight

(* One iteration of record_status, and its end. *)
LEMMA RecordStep ==
  ASSUME TypeOK, record_status
  PROVE  LET last == IF pc = "record_c" THEN last_c ELSE last_s
             new == done[i] /\ ~recorded[i]
         IN  /\ pc \in {"record_c", "record_s"}
             /\ UNCHANGED <<rangeVars, done, status>>
             /\ \/ /\ i < last /\ i \in Actions /\ i' = i + 1 /\ pc' = pc
                   /\ \A a \in Actions \ {i} : nci'[a] = nci[a] /\ recorded'[a] = recorded[a]
                   /\ new => nci'[i] = status[i] /\ recorded'[i]
                   /\ ~new => nci'[i] = nci[i]
                   /\ failed_essential' <=> \/ failed_essential
                                            \/ new /\ ~IS_OK(status[i]) /\ i \in Essential
                \/ /\ i >= last /\ UNCHANGED <<nci, failed_essential, recorded>>
                   /\ i' = first_s
                   /\ pc' = IF pc = "record_c" THEN "record_s" ELSE "idle"
<1> DEFINE last == IF pc = "record_c" THEN last_c ELSE last_s
           new == done[i] /\ ~recorded[i]
<1>0. /\ num \in Nat /\ i \in Nat /\ last_c \in 0 .. num /\ last_s \in 0 .. num
      /\ nci \in [Actions -> Statuses] /\ recorded \in [Actions -> BOOLEAN]
      /\ done \in [Actions -> BOOLEAN]
  BY TableType DEF TypeOK
<1>1. /\ pc \in {"record_c", "record_s"}
      /\ UNCHANGED <<rangeVars, done, status>>
      /\ \/ /\ i < last /\ i' = i + 1 /\ pc' = pc
            /\ recorded' = [recorded EXCEPT ![i] = @ \/ new]
            /\ nci' = [nci EXCEPT ![i] = IF new THEN status[i] ELSE @]
            /\ failed_essential' = \/ failed_essential
                                   \/ new /\ ~IS_OK(status[i]) /\ i \in Essential
         \/ /\ i >= last /\ UNCHANGED <<nci, failed_essential, recorded>>
            /\ i' = first_s
            /\ pc' = IF pc = "record_c" THEN "record_s" ELSE "idle"
  BY DEF record_status
<1>2. last \in 0 .. num /\ new \in BOOLEAN
  BY <1>0
<1> HIDE DEF last, new
<1>3. CASE /\ i < last /\ i' = i + 1 /\ pc' = pc
           /\ recorded' = [recorded EXCEPT ![i] = @ \/ new]
           /\ nci' = [nci EXCEPT ![i] = IF new THEN status[i] ELSE @]
           /\ failed_essential' = \/ failed_essential
                                  \/ new /\ ~IS_OK(status[i]) /\ i \in Essential
  <2>1. i \in Actions
    BY <1>0, <1>2, <1>3 DEF Actions
  <2>2. \A a \in Actions \ {i} : nci'[a] = nci[a] /\ recorded'[a] = recorded[a]
    BY <1>0, <1>3
  <2>3. nci'[i] = (IF new THEN status[i] ELSE nci[i]) /\ recorded'[i] = (recorded[i] \/ new)
    BY <1>0, <1>3, <2>1
  <2>4. failed_essential' <=> \/ failed_essential
                              \/ new /\ ~IS_OK(status[i]) /\ i \in Essential
    BY <1>3
  <2> QED BY <1>1, <1>2, <1>3, <2>1, <2>2, <2>3, <2>4 DEF last, new
<1>4. CASE /\ i >= last /\ UNCHANGED <<nci, failed_essential, recorded>>
           /\ i' = first_s
           /\ pc' = IF pc = "record_c" THEN "record_s" ELSE "idle"
  BY <1>1, <1>4 DEF last, new
<1> QED BY <1>1, <1>3, <1>4

(* An entry that advances keeps what PassedInv says of it. *)
Advances(a) ==
  /\ dispatched[a] \/ done[a] => dispatched'[a] \/ done'[a]
  /\ done'[a] => ~recorded'[a] \/ (done[a] /\ recorded'[a] = recorded[a])

LEMMA PassedKept ==
  ASSUME NEW a \in Actions, PassedAt(a), Advances(a),
         a < Reached' => /\ a < Reached
                         /\ Outside => Outside'
                         /\ (pc = "record_s" => i <= a) \/ ~(pc' = "record_s" => i' <= a)
                            \/ Outside'
  PROVE  PassedAt(a)'
BY DEF PassedAt, Advances

(* The callbacks of either thread keep it. *)
LEMMA CallbacksAdvance ==
  ASSUME TypeOK, (\E t \in Threads : ThreadStep(t)) \/ Receive \/ UNCHANGED vars,
         NEW a \in Actions \ Conditional
  PROVE  Advances(a)
<1>1. ASSUME Same(a) PROVE Advances(a)
  BY <1>1 DEF Same, Advances
<1>2. ASSUME NEW t \in Threads, ThreadStep(t)
      PROVE  Advances(a)
  BY <1>2, <1>1, ThreadTable DEF Completed, Advances
<1> QED BY <1>1, <1>2, OtherTable

(* Every sequential action of the phase is dispatched, group by group, and  *)
(* not recorded before its turn.                                            *)
LEMMA PassedNext ==
  ASSUME TypeOK, BarrierInv, PhaseInv, [Next]_vars
  PROVE  PassedInv'
<1>0. /\ num \in Nat /\ i \in Nat /\ PassedInv /\ RangeInv
      /\ first_c \in 0 .. num /\ last_c \in 0 .. num /\ first_s \in 0 .. num
      /\ last_s \in 0 .. num /\ first_g \in 0 .. num /\ last_g \in 0 .. num
  BY TableType DEF TypeOK, PhaseInv
<1> SUFFICES ASSUME curPhase' # 0, NEW a \in Actions \ Conditional, phase[a] = curPhase'
             PROVE  PassedAt(a)'
  BY DEF PassedInv, InPhase
<1>a. a \in 0 .. num - 1
  BY DEF Actions
<1>b. ASSUME curPhase # 0, UNCHANGED curPhase
      PROVE  PassedAt(a) /\ a \in first_s .. last_s - 1
  BY <1>0, <1>b, RangesOf DEF PassedInv, InPhase
<1>1. CASE (\E t \in Threads : ThreadStep(t)) \/ Receive \/ UNCHANGED vars
  <2>1. UNCHANGED mainVars
    BY <1>1, LoopsKept
  <2>2. Advances(a)
    BY <1>1, CallbacksAdvance
  <2> QED BY <1>b, <2>1, <2>2, PassedKept DEF mainVars, rangeVars, Reached, Outside
<1>2. ASSUME NEW p \in Phases, NEW s \in Syncs, NEW n \in NoActs, phase_lookup(p, s, n)
      PROVE  PassedAt(a)'
  <2> DEFINE r == set_action_ranges(p)
  <2>1. curPhase' = p /\ first_g' = r.first_s /\ pc' = "group"
    BY <1>2 DEF phase_lookup
  <2>2. /\ r.first_s .. r.last_s - 1 = InPhase(p) \ Conditional
        /\ r.first_s \in 0 .. num /\ r.last_s \in 0 .. num
    BY RangesExact
  <2> HIDE DEF r
  <2>3. ~(a < first_g')
    BY <1>0, <1>a, <2>1, <2>2 DEF InPhase
  <2> QED BY <2>1, <2>3 DEF PassedAt, Reached
<1>3. CASE InPhaseStep
  <2>1. curPhase # 0 /\ UNCHANGED curPhase /\ ~Outside
    BY <1>0, <1>3 DEF InPhaseStep, next_group, dispatch_group, wait_for_group, wait_for_all,
       setAbortInProgress, mark_cant_happen, record_status, RangeInv, rangeVars, Outside
  <2>2. PassedAt(a) /\ a \in first_s .. last_s - 1
    BY <1>b, <2>1
  <2>3. CASE \/ next_group \/ wait_for_group \/ wait_for_all \/ setAbortInProgress
    <3>1. Advances(a)
      BY <2>3 DEF next_group, wait_for_group, wait_for_all, setAbortInProgress, actionVars,
         Advances
    <3>2. a < Reached' => a < Reached
      BY <1>0, <1>a, <2>2, <2>3 DEF next_group, wait_for_group, wait_for_all,
         check_actions_done, setAbortInProgress, rangeVars, Reached, BarrierInv, GroupBounds
    <3>3. pc # "record_s"
      BY <2>3 DEF next_group, wait_for_group, wait_for_all, setAbortInProgress
    <3> QED BY <2>1, <2>2, <3>1, <3>2, <3>3, PassedKept
  <2>4. CASE dispatch_group
    <3>1. pc = "dispatch"
      BY <2>4 DEF dispatch_group
    <3>2. CASE i < last_g /\ dispatch_locked(i) /\ i' = i + 1 /\ UNCHANGED pc
      <4>1. i \in Actions
        BY <1>0, <3>2 DEF Actions
      <4>2. CASE a = i
        <5>1. dispatched'[a] /\ (noact => Completed(a)) /\ (~noact => ~done'[a])
          BY <3>2, <4>1, <4>2, Dispatches
        <5> QED BY <5>1 DEF PassedAt, Completed
      <4>3. CASE a # i
        <5>1. Advances(a)
          BY <3>2, <4>1, <4>3, Dispatches DEF Same, Advances
        <5>2. a < Reached' => a < Reached
          BY <1>0, <1>a, <3>1, <3>2, <4>3 DEF Reached
        <5> QED BY <2>1, <2>2, <3>1, <3>2, <5>1, <5>2, PassedKept
      <4> QED BY <4>2, <4>3
    <3>3. CASE i >= last_g /\ pc' = "wait_group" /\ UNCHANGED actionVars /\ UNCHANGED last_g
      <4>1. Advances(a)
        BY <3>3 DEF actionVars, Advances
      <4>2. a < Reached' => a < Reached
        BY <1>0, <1>a, <3>1, <3>3 DEF Reached
      <4> QED BY <2>1, <2>2, <3>1, <3>3, <4>1, <4>2, PassedKept
    <3> QED BY <2>4, <3>2, <3>3 DEF dispatch_group
  <2>5. CASE mark_cant_happen
    <3>1. Advances(a)
      BY <2>5, MainTable DEF MainStep, InPhaseStep, Same, Completed, Advances, mark_cant_happen
    <3>2. /\ pc = "mark" /\ pc' \in {"mark", "idle", "record_c"}
      BY <2>5 DEF mark_cant_happen
    <3> QED BY <2>1, <2>2, <3>1, <3>2, PassedKept DEF Reached
  <2>6. CASE record_status
    <3>1. /\ pc \in {"record_c", "record_s"} /\ UNCHANGED <<dispatched, done>>
          /\ pc' \in {"record_c", "record_s", "idle"}
      BY <2>6 DEF record_status
    <3>2. CASE recorded'[a] = recorded[a]
      <4>1. Advances(a)
        BY <3>1, <3>2 DEF Advances
      <4>2. (pc = "record_s" => i <= a) \/ ~(pc' = "record_s" => i' <= a) \/ Outside'
        <5>1. \/ pc' = "idle"
              \/ pc' = "record_s" /\ pc = "record_c"
              \/ pc' = pc /\ i' = i + 1
          BY <2>6, <3>1, RecordStep
        <5> QED BY <1>0, <1>a, <5>1 DEF Outside
      <4> QED BY <2>1, <2>2, <3>1, <4>1, <4>2, PassedKept DEF Reached
    <3>3. CASE recorded'[a] # recorded[a]
      <4>1. a = i /\ i' = i + 1 /\ pc' = pc /\ i < (IF pc = "record_c" THEN last_c ELSE last_s)
        BY <2>6, <3>3, RecordStep
      <4>2. pc = "record_s"
        <5> SUFFICES ASSUME pc = "record_c" PROVE FALSE
          BY <3>1
        <5>1. a \in first_c .. last_c - 1
          BY <1>0, <1>a, <4>1 DEF PhaseInv, VisitedInv
        <5> QED BY <1>0, <2>1, <5>1, RangesOf
      <4>3. dispatched'[a] \/ done'[a]
        BY <1>0, <2>2, <1>a, <3>1, <4>2 DEF PassedAt, Reached
      <4>4. ~(i' <= a) /\ pc' = "record_s"
        BY <1>0, <4>1, <4>2
      <4> QED BY <4>3, <4>4 DEF PassedAt
    <3> QED BY <3>2, <3>3
  <2> QED BY <1>3, <2>3, <2>4, <2>5, <2>6 DEF InPhaseStep
<1>4. CASE \/ server_dispatch_table_disarm \/ ServerFailedEssential \/ ServerDispatchPhase
  <2>1. /\ UNCHANGED <<actionVars, rangeVars, i, first_g, last_g>>
        /\ pc = "idle" /\ pc' \in {"idle", "lookup"}
    BY <1>4 DEF server_dispatch_table_disarm, ServerFailedEssential, ServerDispatchPhase
  <2>2. Advances(a)
    BY <2>1 DEF actionVars, Advances
  <2> QED BY <1>b, <2>1, <2>2, PassedKept DEF rangeVars, Reached, Outside
<1>5. ASSUME NEW n \in NoActs, phase_unknown(n)
      PROVE  FALSE
  BY <1>5 DEF phase_unknown
<1> QED BY <1>1, <1>2, <1>3, <1>4, <1>5 DEF Next, MainStep, LookupStep

(* What VisitedInv says once record_status has gone one action further.     *)
LEMMA RecordVisited ==
  ASSUME TypeOK, BarrierInv, PhaseInv, record_status
  PROVE  VisitedInv'
<1> DEFINE last == IF pc = "record_c" THEN last_c ELSE last_s
           new == done[i] /\ ~recorded[i]
<1>0. /\ num \in Nat /\ i \in Nat /\ curPhase # 0
      /\ pc \in {"record_c", "record_s"} /\ UNCHANGED rangeVars
  BY TableType, RecordStep DEF TypeOK, PhaseInv, RangeInv, Outside
<1>1. /\ first_c \in 0 .. num /\ last_c \in 0 .. num
      /\ first_s \in 0 .. num /\ last_s \in 0 .. num
      /\ first_c <= last_c /\ first_s <= last_s
      /\ first_c .. last_c - 1 \subseteq InPhase(curPhase) \cap Conditional
      /\ first_s .. last_s - 1 = InPhase(curPhase) \ Conditional
  BY <1>0, RangesOf DEF PhaseInv
<1>2. InPhase(curPhase) \subseteq Actions /\ (InPhase(curPhase) \cap Essential)' = InPhase(curPhase) \cap Essential
  BY <1>0 DEF InPhase, rangeVars
<1>3. /\ failed_essential =>
           \E a \in Visited : a \in InPhase(curPhase) \cap Essential /\ ~IS_OK(nci[a])
      /\ pc = "record_c" => i \in first_c .. last_c
      /\ pc = "record_s" =>
           /\ i \in first_s .. last_s
           /\ \A a \in first_s .. i - 1 :
                a \in Essential /\ ~IS_OK(nci[a]) => failed_essential
  BY <1>0 DEF PhaseInv, VisitedInv
<1>4. CASE /\ i < last /\ i \in Actions /\ i' = i + 1 /\ pc' = pc
           /\ \A a \in Actions \ {i} : nci'[a] = nci[a]
           /\ new => nci'[i] = status[i]
           /\ ~new => nci'[i] = nci[i]
           /\ failed_essential' <=> \/ failed_essential
                                    \/ new /\ ~IS_OK(status[i]) /\ i \in Essential
  <2>1. i \in InPhase(curPhase)
    BY <1>0, <1>1, <1>3, <1>4
  <2>2. \A a \in Visited : a # i /\ (a \in Actions => nci'[a] = nci[a])
    <3>1. CASE pc = "record_c"
      BY <1>0, <1>1, <1>4, <3>1 DEF Visited
    <3>2. CASE pc = "record_s"
      <4>1. i \in first_s .. last_s - 1
        BY <1>0, <1>1, <1>3, <1>4, <3>2
      <4>2. i \notin first_c .. last_c - 1 /\ i \notin first_s .. i - 1
        BY <1>0, <1>1, <4>1
      <4> QED BY <1>4, <3>2, <4>2 DEF Visited
    <3> QED BY <1>0, <3>1, <3>2
  <2>3. Visited' = Visited \cup {i}
    BY <1>0, <1>1, <1>3, <1>4 DEF Visited, rangeVars
  <2>4. failed_essential' =>
          \E a \in Visited' : (a \in InPhase(curPhase) \cap Essential) /\ ~IS_OK(nci'[a])
    <3>1. CASE failed_essential
      <4>1. PICK a \in Visited : a \in InPhase(curPhase) \cap Essential /\ ~IS_OK(nci[a])
        BY <1>3, <3>1
      <4>2. nci'[a] = nci[a] /\ a \in Visited'
        BY <1>2, <2>2, <2>3, <4>1
      <4> QED BY <4>1, <4>2
    <3>2. CASE new /\ ~IS_OK(status[i]) /\ i \in Essential
      <4>1. PICK a \in Actions : a = i
        BY <1>4
      <4>2. a \in Visited' /\ a \in InPhase(curPhase) \cap Essential /\ ~IS_OK(nci'[a])
        BY <1>4, <2>1, <2>3, <3>2, <4>1
      <4> QED BY <4>2
    <3> QED BY <1>4, <3>1, <3>2
  <2>5. ASSUME pc = "record_s", NEW a \in first_s .. i, a \in Essential, ~IS_OK(nci'[a])
        PROVE  failed_essential'
    <3>1. CASE a = i
      <4>1. a \in InPhase(curPhase) \ Conditional
        BY <1>0, <1>1, <1>3, <1>4, <2>5, <3>1
      <4>2. done[a]
        BY <1>0, <2>5, <4>1, PhaseDone DEF PhaseInv
      <4>3. PassedAt(a) /\ a < Reached
        BY <1>0, <1>2, <2>5, <4>1 DEF PhaseInv, PassedInv, Reached, Actions
      <4>4. ~recorded[a]
        BY <1>0, <2>5, <3>1, <4>2, <4>3 DEF PassedAt, Outside
      <4> QED BY <1>4, <2>5, <3>1, <4>2, <4>4
    <3>2. CASE a # i
      <4>1. a \in first_s .. i - 1
        BY <1>0, <1>1, <2>5, <3>2
      <4>2. a \in Visited /\ a \in Actions
        BY <1>0, <1>1, <1>2, <1>3, <2>5, <4>1 DEF Visited
      <4> QED BY <1>3, <1>4, <2>2, <2>5, <4>1, <4>2
    <3> QED BY <3>1, <3>2
  <2>6. /\ pc = "record_c" => i' \in first_c .. last_c
        /\ pc = "record_s" => i' \in first_s .. last_s
    BY <1>0, <1>1, <1>3, <1>4
  <2>7. i' - 1 = i
    BY <1>0, <1>4
  <2> HIDE DEF new, last
  <2> QED BY <1>0, <1>2, <1>4, <2>4, <2>5, <2>6, <2>7 DEF VisitedInv, rangeVars
<1>5. CASE /\ i >= last /\ UNCHANGED <<nci, failed_essential>> /\ i' = first_s
           /\ pc' = IF pc = "record_c" THEN "record_s" ELSE "idle"
  <2>1. CASE pc = "record_s"
    BY <1>5, <2>1 DEF VisitedInv
  <2>2. CASE pc = "record_c"
    <3>1. i = last_c /\ pc' = "record_s"
      BY <1>0, <1>1, <1>3, <1>5, <2>2
    <3>2. Visited \subseteq Visited'
      BY <1>0, <2>2, <3>1 DEF Visited, rangeVars
    <3>3. i' \in first_s' .. last_s' /\ first_s' .. i' - 1 = {}
      BY <1>0, <1>1, <1>5 DEF rangeVars
    <3> QED BY <1>0, <1>2, <1>3, <1>5, <3>1, <3>2, <3>3 DEF VisitedInv
  <2> QED BY <1>0, <2>1, <2>2
<1>6. \/ /\ i < last /\ i \in Actions /\ i' = i + 1 /\ pc' = pc
         /\ \A a \in Actions \ {i} : nci'[a] = nci[a]
         /\ new => nci'[i] = status[i]
         /\ ~new => nci'[i] = nci[i]
         /\ failed_essential' <=> \/ failed_essential
                                  \/ new /\ ~IS_OK(status[i]) /\ i \in Essential
      \/ /\ i >= last /\ UNCHANGED <<nci, failed_essential>> /\ i' = first_s
         /\ pc' = IF pc = "record_c" THEN "record_s" ELSE "idle"
  BY RecordStep
<1> QED BY <1>4, <1>5, <1>6

(* The loops before record_status. *)
LEMMA VisitedNext ==
  ASSUME TypeOK, BarrierInv, PhaseInv, [Next]_vars
  PROVE  VisitedInv'
<1>0. num \in Nat /\ i \in Nat /\ RangeInv /\ VisitedInv /\ failed_essential \in BOOLEAN
  BY TableType DEF TypeOK, PhaseInv
<1>a. ASSUME ~Outside
      PROVE  /\ first_c \in 0 .. num /\ last_c \in 0 .. num
             /\ first_s \in 0 .. num /\ last_s \in 0 .. num
             /\ first_c <= last_c /\ first_s <= last_s
  BY <1>0, <1>a, RangesOf DEF RangeInv
<1>1. CASE (\E t \in Threads : ThreadStep(t)) \/ Receive \/ UNCHANGED vars
  <2>1. UNCHANGED mainVars
    BY <1>1, LoopsKept
  <2> QED BY <1>0, <2>1 DEF mainVars, rangeVars, VisitedInv, Visited, InPhase
<1>2. CASE ServerDispatchPhase \/ LookupStep
  BY <1>0, <1>2 DEF ServerDispatchPhase, LookupStep, phase_lookup, phase_unknown, VisitedInv
<1>3. CASE server_dispatch_table_disarm \/ ServerFailedEssential
  BY <1>3 DEF server_dispatch_table_disarm, ServerFailedEssential, VisitedInv
<1>4. CASE next_group \/ dispatch_group \/ wait_for_group \/ wait_for_all
  BY <1>0, <1>4 DEF next_group, dispatch_group, wait_for_group, wait_for_all,
     check_actions_done, VisitedInv
<1>5. CASE setAbortInProgress
  BY <1>0, <1>5, <1>a DEF setAbortInProgress, VisitedInv, rangeVars, Outside
<1>6. CASE mark_cant_happen
  <2>1. /\ pc = "mark" /\ ~failed_essential /\ i >= first_c
        /\ UNCHANGED <<failed_essential, rangeVars>>
        /\ \/ pc' = "mark" /\ i' = i + 1
           \/ pc' \in {"idle", "record_c"} /\ i' = first_c
    BY <1>0, <1>6 DEF mark_cant_happen, VisitedInv
  <2> QED BY <1>0, <1>a, <2>1 DEF VisitedInv, rangeVars, Outside
<1>7. CASE record_status
  BY <1>7, RecordVisited
<1> QED BY <1>1, <1>2, <1>3, <1>4, <1>5, <1>6, <1>7 DEF Next, MainStep, InPhaseStep

(* The invariants about the phase hold in every reachable state. *)
LEMMA PhaseNext == TypeOK /\ BarrierInv /\ PhaseInv /\ [Next]_vars => PhaseInv'
BY RangeNext, PassedNext, VisitedNext DEF PhaseInv

LEMMA PhaseInit == Init => PhaseInv
BY DEF Init, PhaseInv, RangeInv, PassedInv, VisitedInv, Outside

(***************************************************************************)
(* For every dispatch table: when ServerDispatchPhase has recorded a phase, *)
(* a sequential essential action whose node has a failure status makes      *)
(* ServerFailedEssential report it, and what it reports is the failure of   *)
(* an essential action of this phase, whatever the other thread, lost       *)
(* connections and conditional actions did meanwhile.                       *)
(***************************************************************************)
THEOREM EssentialTold == Spec => EssentialReported
<1>1. /\ TypeOK /\ BarrierInv /\ PhaseInv /\ [Next]_vars
      /\ pc = "record_s" /\ pc' = "idle"
      => LET bad == {a \in InPhase(curPhase) \cap Essential : ~IS_OK(nci[a])}
         IN  /\ bad \ Conditional # {} => failed_essential
             /\ failed_essential => bad # {}
  <2> SUFFICES ASSUME TypeOK, BarrierInv, PhaseInv, [Next]_vars, pc = "record_s", pc' = "idle"
               PROVE  /\ \A a \in InPhase(curPhase) \cap Essential :
                           ~IS_OK(nci[a]) /\ a \notin Conditional => failed_essential
                      /\ failed_essential =>
                           \E a \in InPhase(curPhase) \cap Essential : ~IS_OK(nci[a])
    OBVIOUS
  <2>1. record_status
    <3>1. ~UNCHANGED mainVars
      BY DEF mainVars
    <3>2. MainStep
      BY <3>1, LoopsKept DEF Next
    <3> QED BY <3>2 DEF MainStep, InPhaseStep, next_group, dispatch_group, wait_for_group,
              wait_for_all, check_actions_done, setAbortInProgress, mark_cant_happen,
              server_dispatch_table_disarm, ServerFailedEssential, ServerDispatchPhase,
     LookupStep, phase_lookup, phase_unknown
  <2>2. i >= last_s
    BY <2>1, RecordStep
  <2>3. /\ first_s .. last_s - 1 = InPhase(curPhase) \ Conditional
        /\ first_s \in 0 .. num /\ last_s \in 0 .. num
    BY RangesOf DEF PhaseInv, RangeInv, Outside
  <2>4. i = last_s
    BY <2>2, <2>3, TableType DEF PhaseInv, VisitedInv
  <2> QED BY <2>3, <2>4 DEF PhaseInv, VisitedInv
<1> QED BY <1>1, TypeCorrect, BarrierInit, BarrierNext, PhaseInit, PhaseNext, PTL
        DEF Spec, EssentialReported

-----------------------------------------------------------------------------
(* The order of dispatches. *)

LEMMA AheadActions == TypeOK => Ahead \subseteq Actions
BY TableType DEF TypeOK, Ahead, Actions

(* A phase that was not dispatched before is not repeated. *)
LEMMA CallsGrow ==
  ASSUME TypeOK, NEW p \in Phases, calls' = Append(calls, p)
  PROVE  /\ Called(p)'
         /\ \A q : Called(q) => Called(q)'
         /\ Called(p) => \E m, n \in 1 .. Len(calls') : m # n /\ calls'[m] = p /\ calls'[n] = p
<1>1. /\ calls \in Seq(Phases) /\ Len(calls) \in Nat
      /\ Len(calls') = Len(calls) + 1 /\ calls'[Len(calls) + 1] = p
      /\ \A n \in 1 .. Len(calls) : calls'[n] = calls[n]
  <2>1. calls \in Seq(Phases)
    BY DEF TypeOK
  <2> QED BY <2>1
<1>2. Called(p)'
  BY <1>1 DEF Called
<1>3. ASSUME NEW q, NEW n \in 1 .. Len(calls), calls[n] = q
      PROVE  n \in 1 .. Len(calls') /\ n # Len(calls) + 1 /\ calls'[n] = q
  BY <1>1, <1>3
<1> QED BY <1>1, <1>2, <1>3 DEF Called

(* The commands so far are not changed by anything but phase_lookup. *)
LEMMA SameCalls ==
  ASSUME UNCHANGED <<curPhase, calls>>
  PROVE  /\ Repeated(curPhase)' <=> Repeated(curPhase)
         /\ \A a : Again(a)' <=> Again(a)
         /\ \A q : Called(q)' <=> Called(q)
BY DEF Repeated, Again, Called

(* The callbacks of either thread complete no action that was not sent.     *)
LEMMA OrderCallbacks ==
  ASSUME TypeOK, CallInv, OrderInv,
         (\E t \in Threads : ThreadStep(t)) \/ Receive \/ UNCHANGED vars
  PROVE  OrderInv'
<1>1. ASSUME NEW a \in Actions \ Conditional
      PROVE  /\ Known(a)' => Known(a) \/ done'[a]
             /\ done[a] => done'[a]
             /\ Touched(a)' => Touched(a)
  <2>1. CASE Same(a)
    BY <2>1 DEF Same, Known, Touched
  <2>2. ASSUME NEW t \in Threads, ThreadStep(t), ~Same(a)
        PROVE  /\ Known(a)' => Known(a) \/ done'[a]
               /\ done[a] => done'[a]
               /\ Touched(a)' => Touched(a)
    <3>1. CASE At(t, "callback")
      <4>1. dispatched'[a] = dispatched[a] /\ done'[a] = done[a] /\ var'[a] = var[a]
        BY <2>2, <3>1, ThreadTable DEF At
      <4> QED BY <4>1 DEF Known, Touched
    <3>2. CASE ~At(t, "callback")
      <4>1. /\ stack[t] # <<>> /\ Top(t).fn \in {"fail", "complete", "notdisp", "invdep"}
            /\ Top(t).idx = a /\ Completed(a)
        BY <2>2, <3>2, ThreadTable
      <4>2. Touched(a)
        BY <4>1, TopFits DEF CallInv, Fits
      <4> QED BY <4>1, <4>2 DEF Completed
    <3> QED BY <3>1, <3>2
  <2> QED BY <2>1, <2>2, OtherTable
<1>2. UNCHANGED mainVars
  BY LoopsKept
<1>0. /\ Repeated(curPhase)' <=> Repeated(curPhase)
      /\ \A a : Again(a)' <=> Again(a)
      /\ \A q : Called(q)' <=> Called(q)
  BY <1>2, SameCalls DEF mainVars, rangeVars
<1>3. DefinedInv'
  BY <1>0, <1>1 DEF OrderInv, DefinedInv
<1>5. FreshInv'
  BY <1>0, <1>1, <1>2 DEF OrderInv, FreshInv, mainVars, rangeVars
<1>4. AheadInv'
  <2>1. Ahead' = Ahead
    BY <1>2 DEF mainVars, rangeVars, Ahead
  <2>2. ~Repeated(curPhase)' => \A a \in Ahead : ~Touched(a)'
    <3> SUFFICES ASSUME ~Repeated(curPhase)', NEW a \in Ahead, Touched(a)' PROVE FALSE
      OBVIOUS
    <3>1. ~Touched(a) /\ a \in Actions
      BY <1>0, AheadActions DEF OrderInv, AheadInv
    <3> QED BY <1>1, <3>1 DEF Touched
  <2> QED BY <1>2, <2>1, <2>2 DEF AheadInv, OrderInv, mainVars
<1> QED BY <1>3, <1>4, <1>5 DEF OrderInv

(* Between two commands a defined variable means done. *)
LEMMA OutsideDefined ==
  ASSUME TypeOK, BarrierInv, PhaseInv, DefinedInv, Outside,
         NEW a \in Actions \ Conditional, Known(a)
  PROVE  done[a]
<1>1. CASE Again(a)
  <2>1. PICK n \in 1 .. Len(calls) : calls[n] = curPhase
    BY <1>1 DEF Again, Repeated
  <2>2. curPhase \in Phases
    <3>1. calls \in Seq(Phases)
      BY DEF TypeOK
    <3> QED BY <2>1, <3>1
  <2>3. curPhase # 0 /\ a \in InPhase(curPhase) \ Conditional
    BY <1>1, <2>2, TableType DEF Again, InPhase
  <2> QED BY <2>3, PhaseDone DEF PhaseInv, Outside
<1> QED BY <1>1 DEF DefinedInv

(* A phase that is dispatched for the first time finds its sequential       *)
(* actions untouched; each is then untouched until its turn comes.          *)
LEMMA OrderLookup ==
  ASSUME TypeOK, BarrierInv, PhaseInv, OrderInv, LookupStep
  PROVE  OrderInv'
<1>0. /\ Outside /\ UNCHANGED <<dispatched, done, var>> /\ DefinedInv
      /\ \A a : Known(a)' <=> Known(a)
      /\ \A a : Touched(a)' <=> Touched(a)
  BY DEF LookupStep, phase_lookup, phase_unknown, actionVars, Outside, Known, Touched, OrderInv
<1>1. DefinedInv'
  <2> SUFFICES ASSUME NEW a \in Actions \ Conditional, Known(a) PROVE done[a]
    BY <1>0 DEF DefinedInv
  <2> QED BY <1>0, OutsideDefined
<1>2. ASSUME NEW p \in Phases, NEW s \in Syncs, NEW n \in NoActs, phase_lookup(p, s, n)
      PROVE  FreshInv' /\ AheadInv'
  <2> DEFINE r == set_action_ranges(p)
  <2>1. /\ pc' = "group" /\ curPhase' = p /\ calls' = Append(calls, p)
        /\ first_g' = r.first_s /\ last_s' = r.last_s
    BY <1>2 DEF phase_lookup
  <2>2. r.first_s .. r.last_s - 1 = InPhase(p) \ Conditional
    BY RangesExact
  <2> HIDE DEF r
  <2>3. Ahead' = InPhase(p) \ Conditional
    BY <2>1, <2>2 DEF Ahead
  <2>4. /\ Called(p)'
        /\ \A q : Called(q) => Called(q)'
        /\ Called(p) => Repeated(curPhase)'
    BY <2>1, CallsGrow DEF Repeated
  <2>5. FreshInv'
    BY <1>0, <2>1, <2>4 DEF FreshInv, OrderInv
  <2>6. ASSUME ~Called(p), NEW a \in InPhase(p) \ Conditional
        PROVE  ~Touched(a)'
    BY <1>0, <2>6 DEF InPhase, FreshInv, OrderInv
  <2> QED BY <2>1, <2>3, <2>4, <2>5, <2>6 DEF AheadInv
<1>3. ASSUME NEW n \in NoActs, phase_unknown(n)
      PROVE  FreshInv' /\ AheadInv'
  <2>1. curPhase' = 0 /\ pc' = "idle" /\ UNCHANGED calls
    BY <1>3 DEF phase_unknown
  <2>2. FreshInv'
    BY <1>0, <2>1 DEF FreshInv, OrderInv, Called
  <2> QED BY <2>1, <2>2 DEF AheadInv, Ahead
<1> QED BY <1>1, <1>2, <1>3 DEF LookupStep, OrderInv

LEMMA OrderMain ==
  ASSUME TypeOK, BarrierInv, PhaseInv, OrderInv, MainStep, ~LookupStep
  PROVE  OrderInv'
<1>0. /\ num \in Nat /\ i \in Nat /\ DefinedInv /\ FreshInv /\ AheadInv
      /\ first_s \in 0 .. num /\ last_s \in 0 .. num
      /\ first_g \in 0 .. num /\ last_g \in 0 .. num
  BY TableType DEF TypeOK, OrderInv
<1>a. UNCHANGED <<curPhase, calls>>
  BY DEF MainStep, InPhaseStep, next_group, dispatch_group, wait_for_group, wait_for_all,
     setAbortInProgress, mark_cant_happen, record_status, server_dispatch_table_disarm,
     ServerFailedEssential, ServerDispatchPhase, rangeVars
<1>b. /\ Repeated(curPhase)' <=> Repeated(curPhase)
      /\ \A a : Again(a)' <=> Again(a)
      /\ \A q : Called(q)' <=> Called(q)
  BY <1>a, SameCalls
(* The action that is sent belongs to the phase. *)
<1>c. ASSUME pc = "dispatch", i < last_g
      PROVE  i \in Ahead /\ i \in Actions \ Conditional /\ phase[i] = curPhase /\ curPhase # 0
  <2>1. i \in Ahead /\ i \in first_s .. last_s - 1
    BY <1>0, <1>c DEF Ahead, BarrierInv, GroupBounds, SequentialRange
  <2> QED BY <1>c, <2>1 DEF BarrierInv, SequentialRange, PhaseInv, RangeInv, Outside
<1>d. ASSUME pc = "mark", i < last_c
      PROVE  i \in Conditional
  <2>1. curPhase # 0
    BY <1>d DEF PhaseInv, RangeInv, Outside
  <2>2. i \in first_c .. last_c - 1
    BY <1>0, <1>d, <2>1, RangesOf DEF PhaseInv, VisitedInv
  <2> QED BY <2>1, <2>2, RangesOf DEF PhaseInv
<1>1. DefinedInv'
  <2> SUFFICES ASSUME NEW a \in Actions \ Conditional, Known(a)', ~Again(a) PROVE done'[a]
    BY <1>b DEF DefinedInv
  <2>1. CASE Same(a)
    BY <1>0, <2>1 DEF DefinedInv, Same, Known
  <2>2. CASE /\ pc = "dispatch" /\ a = i /\ i < last_g /\ dispatch_group
             /\ noact => Completed(a)
             /\ ~noact => var'[a] = var[a]
    <3>1. a \in Ahead /\ ~Repeated(curPhase)
      BY <1>c, <2>2 DEF Again
    <3>2. ~Known(a)
      BY <1>0, <3>1 DEF AheadInv, Touched, DefinedInv
    <3> QED BY <2>2, <3>2 DEF Completed, Known
  <2>3. CASE Completed(a)
    BY <2>3 DEF Completed
  <2>4. CASE done'[a] = done[a] /\ var'[a] = var[a]
    BY <1>0, <2>4 DEF DefinedInv, Known
  <2> QED BY <2>1, <2>2, <2>3, <2>4, MainTable
<1>2. FreshInv'
  <2> SUFFICES ASSUME NEW a \in Actions \ Conditional, ~Called(phase[a]) PROVE ~Touched(a)'
    BY <1>0, <1>a, <1>b DEF FreshInv
  <2>1. ~Touched(a)
    BY <1>0 DEF FreshInv
  <2>2. ~(pc = "dispatch" /\ a = i /\ i < last_g) /\ ~(pc = "mark" /\ a = i /\ i < last_c)
    BY <1>0, <1>c, <1>d DEF FreshInv
  <2>3. dispatched'[a] = dispatched[a] /\ done'[a] = done[a]
    BY <2>2, MainTable DEF Same
  <2> QED BY <2>1, <2>3 DEF Touched
<1> SUFFICES AheadInv'
  BY <1>1, <1>2 DEF OrderInv
<1>3. CASE dispatch_group
  <2>1. pc = "dispatch" /\ i <= last_g /\ UNCHANGED <<last_s, last_g>>
    BY <1>0, <1>3 DEF dispatch_group, AheadInv, rangeVars
  <2>2. CASE i < last_g /\ dispatch_locked(i) /\ i' = i + 1 /\ UNCHANGED pc
    <3>1. Ahead' = i + 1 .. last_s - 1 /\ Ahead = i .. last_s - 1
      BY <2>1, <2>2 DEF Ahead
    <3>2. i \in Actions
      BY <1>0, <2>2 DEF Actions
    <3>3. \A a \in i + 1 .. last_s - 1 : a \in Ahead /\ a \in Actions /\ a # i
      BY <1>0, <3>1, AheadActions
    <3>4. ~Repeated(curPhase) => \A a \in i + 1 .. last_s - 1 : ~Touched(a)'
      BY <1>0, <2>2, <3>2, <3>3, Dispatches DEF AheadInv, Touched, Same
    <3>5. i' <= last_g
      BY <1>0, <2>2
    <3> QED BY <1>b, <2>1, <3>1, <3>4, <3>5 DEF AheadInv
  <2>3. CASE i >= last_g /\ pc' = "wait_group" /\ UNCHANGED actionVars
    <3>1. Ahead' = last_g .. last_s - 1 /\ Ahead = i .. last_s - 1 /\ i = last_g
      BY <1>0, <2>1, <2>3 DEF Ahead
    <3> QED BY <1>0, <1>b, <2>3, <3>1 DEF AheadInv, Touched, actionVars
  <2> QED BY <1>3, <2>2, <2>3 DEF dispatch_group
<1>4. CASE next_group
  <2>1. pc = "group" /\ UNCHANGED <<dispatched, done, last_s, first_g>>
    BY <1>4 DEF next_group, rangeVars, actionVars
  <2>2. CASE first_g < last_s /\ pc' = "dispatch" /\ i' = first_g
             /\ last_g' = set_group(sync, first_g, last_s)
    <3>1. Ahead' = first_g .. last_s - 1 /\ Ahead = first_g .. last_s - 1
      BY <2>1, <2>2 DEF Ahead
    <3>2. last_g' \in first_g + 1 .. last_s
      <4>1. first_g \in Nat
        BY <1>0
      <4> QED BY <1>0, <2>2, <4>1, GroupRange
    <3> QED BY <1>0, <1>b, <2>1, <2>2, <3>1, <3>2 DEF AheadInv, Touched
  <2>3. CASE pc' = "wait_all"
    BY <2>3 DEF AheadInv, Ahead
  <2> QED BY <1>4, <2>2, <2>3 DEF next_group
<1>5. CASE wait_for_group
  <2>1. /\ pc = "wait_group" /\ UNCHANGED <<dispatched, done, last_s, last_g>>
        /\ \/ pc' = "wait_group"
           \/ pc' = "group" /\ first_g' = last_g
    BY <1>5 DEF wait_for_group, check_actions_done, rangeVars, actionVars
  <2>2. Ahead' = Ahead
    BY <2>1 DEF Ahead
  <2> QED BY <1>0, <1>b, <2>1, <2>2 DEF AheadInv, Touched
<1>6. CASE \/ wait_for_all \/ setAbortInProgress \/ mark_cant_happen \/ record_status
           \/ server_dispatch_table_disarm \/ ServerFailedEssential \/ ServerDispatchPhase
  <2>1. pc' \notin {"group", "dispatch", "wait_group"}
    BY <1>6 DEF wait_for_all, check_actions_done, setAbortInProgress, mark_cant_happen,
       record_status, server_dispatch_table_disarm, ServerFailedEssential, ServerDispatchPhase
  <2> QED BY <2>1 DEF AheadInv, Ahead
<1> QED BY <1>3, <1>4, <1>5, <1>6 DEF MainStep, InPhaseStep

LEMMA OrderNext ==
  TypeOK /\ BarrierInv /\ CallInv /\ PhaseInv /\ OrderInv /\ [Next]_vars => OrderInv'
BY OrderMain, OrderLookup, OrderCallbacks DEF Next

LEMMA OrderInit == Init => OrderInv
BY DEF Init, OrderInv, DefinedInv, FreshInv, AheadInv, Ahead, Known, Touched

(* A thread dispatches a conditional action when its references are defined. *)
LEMMA OrderImplied == TypeOK /\ CallInv /\ OrderInv => DependencyOrder
<1> SUFFICES ASSUME TypeOK, CallInv, OrderInv, NEW t \in Threads, At(t, "dispatch"),
                    NEW d \in Refs(Top(t).idx)
             PROVE  /\ var[d] # UNKNOWN_VAR
                    /\ d \in Conditional \/ done[d] \/ Again(d)
  BY DEF DependencyOrder, Again
<1>1. Known(d) /\ d \in Actions
  BY TopFits DEF CallInv, Fits, At, Refs
<1> QED BY <1>1 DEF Known, OrderInv, DefinedInv

(***************************************************************************)
(* For every dispatch table and however often its phases are dispatched: a  *)
(* thread that is about to dispatch a conditional action does so when every *)
(* action its condition names has reported a completion, and the sequential *)
(* ones are not in flight again, unless they belong to a phase that is      *)
(* being dispatched once more.                                              *)
(***************************************************************************)
THEOREM DependenciesFirst == Spec => []DependencyOrder
BY TypeCorrect, BarrierInit, BarrierNext, CallInit, CallNext, PhaseInit, PhaseNext,
   OrderInit, OrderNext, OrderImplied, PTL DEF Spec

-----------------------------------------------------------------------------
(***************************************************************************)
(* What a phase leaves behind.  That a status recorded in the tree stays    *)
(* the status of the action needs an argument about late callbacks: once an *)
(* action is done, no job of it is live, none is left in the list but the   *)
(* one the receiver is about to pop, and the receiver is not completing it. *)
(* A failed handshake would break this: the main thread then calls back the *)
(* jobs of the connection itself, and the receiver may hold a copy of one.  *)
(***************************************************************************)

(* Returning from a call that did not wake the receiver. *)
LEMMA ShapeTail ==
  ASSUME NEW s \in Seq(Frames), s # <<>>, Shape(s), s[1].fn \notin Woken
  PROVE  /\ Tail(s) \in Seq(Frames) /\ Tail(s) # <<>> /\ Shape(Tail(s))
         /\ Bottom(Tail(s)) = Bottom(s) /\ Tail(s)[1].fn \notin Completing
<1>1. /\ Len(s) \in Nat \ {0} /\ Tail(s) \in Seq(Frames) /\ Len(Tail(s)) = Len(s) - 1
      /\ \A n \in 1 .. Len(Tail(s)) : Tail(s)[n] = s[n + 1]
  BY HeadTailProperties, EmptySeq
<1>2. Len(s) # 1
  <2>1. 1 \in 1 .. Len(s)
    BY <1>1
  <2>2. s[1].fn \in Woken <=> 1 = Len(s)
    BY <2>1 DEF Shape
  <2> QED BY <2>2
<1>3. Tail(s) # <<>>
  <2>1. Len(Tail(s)) # 0
    BY <1>1, <1>2
  <2> QED BY <2>1, EmptySeq
<1>4. Shape(Tail(s))
  <2> SUFFICES ASSUME NEW n \in 1 .. Len(Tail(s))
               PROVE  /\ Tail(s)[n].fn \in Woken <=> n = Len(Tail(s))
                      /\ Tail(s)[n].fn \in Completing => n = 1
    BY DEF Shape
  <2>1. n + 1 \in 1 .. Len(s) /\ n + 1 # 1 /\ Tail(s)[n] = s[n + 1]
    BY <1>1
  <2>2. (s[n + 1].fn \in Woken <=> n + 1 = Len(s)) /\ s[n + 1].fn \notin Completing
    BY <2>1 DEF Shape
  <2>3. n = Len(Tail(s)) <=> n + 1 = Len(s)
    BY <1>1
  <2> QED BY <2>1, <2>2, <2>3
<1>5. Bottom(Tail(s)) = Bottom(s)
  BY <1>1, <1>2 DEF Bottom
<1>6. Tail(s)[1].fn \notin Completing
  <2>1. 1 \in 1 .. Len(Tail(s)) /\ 2 \in 1 .. Len(s)
    BY <1>1, <1>2
  <2>2. Tail(s)[1] = s[1 + 1] /\ 1 + 1 = 2
    BY <1>1, <2>1
  <2>3. s[2].fn \in Completing => 2 = 1
    BY <2>1 DEF Shape
  <2>4. s[2].fn \notin Completing
    BY <2>3
  <2>5. Tail(s)[1] = s[2]
    BY <2>2
  <2> QED BY <2>4, <2>5
<1> QED BY <1>1, <1>3, <1>4, <1>5, <1>6

(* A call from one that is not completing an action. *)
LEMMA ShapePush ==
  ASSUME NEW u \in Seq(Frames), u # <<>>, Shape(u), u[1].fn \notin Completing,
         NEW g \in Frames, g.fn \notin Woken
  PROVE  /\ <<g>> \o u \in Seq(Frames) /\ <<g>> \o u # <<>> /\ Shape(<<g>> \o u)
         /\ Bottom(<<g>> \o u) = Bottom(u) /\ Head(<<g>> \o u) = g /\ (<<g>> \o u)[1] = g
<1> DEFINE v == <<g>> \o u
<1>1. /\ v \in Seq(Frames) /\ Len(v) = Len(u) + 1 /\ Len(u) \in Nat \ {0}
      /\ v[1] = g /\ \A n \in 2 .. Len(v) : v[n] = u[n - 1]
  BY ConcatProperties, EmptySeq
<1> HIDE DEF v
<1>2. v # <<>> /\ Head(v) = g
  BY <1>1
<1>3. Shape(v)
  <2> SUFFICES ASSUME NEW n \in 1 .. Len(v)
               PROVE  /\ v[n].fn \in Woken <=> n = Len(v)
                      /\ v[n].fn \in Completing => n = 1
    BY DEF Shape
  <2>1. CASE n = 1
    BY <1>1, <2>1
  <2>2. CASE n # 1
    <3>1. n - 1 \in 1 .. Len(u) /\ v[n] = u[n - 1]
      BY <1>1, <2>2
    <3>2. u[n - 1].fn \in Woken <=> n - 1 = Len(u)
      BY <3>1 DEF Shape
    <3>3. u[n - 1].fn \in Completing => n - 1 = 1
      BY <3>1 DEF Shape
    <3>4. u[n - 1].fn \notin Completing
      BY <3>1, <3>3
    <3> QED BY <1>1, <3>1, <3>2, <3>4
  <2> QED BY <2>1, <2>2
<1>4. Bottom(v) = Bottom(u)
  BY <1>1 DEF Bottom
<1> QED BY <1>1, <1>2, <1>3, <1>4 DEF v

(* The moves of the receiver inside the call that woke it. *)
LEMMA ReceiverMoves ==
  ASSUME TypeOK, ReceiverShape, stack["receiver"] # <<>>, Top("receiver").fn \notin Woken,
         NEW f \in Frames, NEW g \in Frames, f.fn \notin Woken, g.fn \notin Woken,
         \/ Return("receiver")
         \/ Goto("receiver", f)
         \/ f.fn \notin Completing /\ GotoCalling("receiver", f, g)
  PROVE  /\ stack'["receiver"] # <<>> /\ ReceiverShape'
         /\ Bottom(stack'["receiver"]) = Bottom(stack["receiver"])
         /\ \/ Top("receiver")'.fn \notin Completing
            \/ Goto("receiver", f) /\ Top("receiver")' = f
            \/ GotoCalling("receiver", f, g) /\ Top("receiver")' = g
<1> DEFINE s == stack["receiver"]
<1>1. /\ stack \in [Threads -> Seq(Frames)] /\ "receiver" \in Threads
  BY DEF TypeOK, Threads
<1>2. s \in Seq(Frames) /\ s # <<>> /\ Shape(s) /\ Top("receiver") = Head(s)
  BY <1>1 DEF ReceiverShape, Top
<1> HIDE DEF s
<1>3. s[1].fn \notin Woken
  BY <1>2
<1>4. /\ Tail(s) \in Seq(Frames) /\ Tail(s) # <<>> /\ Shape(Tail(s))
      /\ Bottom(Tail(s)) = Bottom(s) /\ Tail(s)[1].fn \notin Completing
  BY <1>2, <1>3, ShapeTail
<1>5. CASE Return("receiver")
  <2>1. stack'["receiver"] = Tail(s)
    BY <1>1, <1>5 DEF Return, s
  <2>2. Head(Tail(s)) = Tail(s)[1]
    BY <1>4
  <2> QED BY <1>4, <2>1, <2>2 DEF ReceiverShape, Top, s
<1>6. CASE Goto("receiver", f)
  <2>1. stack'["receiver"] = <<f>> \o Tail(s)
    BY <1>1, <1>6 DEF Goto, s
  <2>2. /\ <<f>> \o Tail(s) # <<>> /\ Shape(<<f>> \o Tail(s))
        /\ Bottom(<<f>> \o Tail(s)) = Bottom(s) /\ Head(<<f>> \o Tail(s)) = f
    BY <1>4, ShapePush
  <2> QED BY <1>6, <2>1, <2>2 DEF ReceiverShape, Top, s
<1>7. CASE f.fn \notin Completing /\ GotoCalling("receiver", f, g)
  <2> DEFINE u == <<f>> \o Tail(s)
  <2>1. stack'["receiver"] = <<g>> \o u
    BY <1>1, <1>7 DEF GotoCalling, s
  <2>2. /\ u \in Seq(Frames) /\ u # <<>> /\ Shape(u) /\ Bottom(u) = Bottom(s)
        /\ u[1].fn \notin Completing
    BY <1>4, <1>7, ShapePush
  <2> HIDE DEF u
  <2>3. /\ <<g>> \o u # <<>> /\ Shape(<<g>> \o u)
        /\ Bottom(<<g>> \o u) = Bottom(s) /\ Head(<<g>> \o u) = g
    BY <2>2, ShapePush
  <2> QED BY <1>7, <2>1, <2>3 DEF ReceiverShape, Top, s
<1> QED BY <1>5, <1>6, <1>7

(***************************************************************************)
(* What a step of the receiver does to its stack and to the jobs: the call  *)
(* that woke it ends; a job of a lost connection is called back; a callback *)
(* is taken out of its job; or it works on the conditional actions that     *)
(* depend on what it completed.                                             *)
(***************************************************************************)
Stays == stack'["receiver"] # <<>> /\ Bottom(stack'["receiver"]) = Bottom(stack["receiver"])

Ends ==
  /\ stack'["receiver"] = <<>>
  /\ Top("receiver").fn \in Woken /\ Bottom(stack["receiver"]) = Top("receiver")
  /\ UNCHANGED live
  /\ jobs' \subseteq jobs
  /\ Top("receiver").fn = "pop" =>
       jobs' = jobs \ ({<<Top("receiver").idx, Top("receiver").by>>} \ live)

Loses ==
  /\ Stays /\ Top("receiver").fn = "lost" /\ Bottom(stack["receiver"]).fn = "lost"
  /\ UNCHANGED live
  /\ \E j \in jobs : /\ jobs' = jobs \ {j}
                     /\ Top("receiver")' = CallJob("callback", j, PATH_DOWN)

CallsBack ==
  /\ Stays /\ Top("receiver").fn = "callback"
  /\ UNCHANGED jobs
  /\ live' = live \ {<<Top("receiver").idx, Top("receiver").by>>}
  /\ Top("receiver")'.fn \in Completing =>
       Top("receiver")'.fn = "complete" /\ Top("receiver")'.idx = Top("receiver").idx

WorksOn ==
  /\ Stays /\ Top("receiver").fn # "callback"
  /\ jobs' \subseteq jobs \cup (Conditional \X Threads)
  /\ live' \subseteq live \cup (Conditional \X Threads)
  /\ Top("receiver")'.fn \in Completing => Top("receiver")'.idx \in Conditional

LEMMA ReceiverStep ==
  ASSUME "handshake" \notin Faults, TypeOK, CallInv, ReceiverShape, ThreadStep("receiver")
  PROVE  ReceiverShape' /\ (Ends \/ Loses \/ CallsBack \/ WorksOn)
<1>1. "receiver" \in Threads /\ stack \in [Threads -> Seq(Frames)] /\ jobs \subseteq Actions \X Threads
  BY DEF Threads, TypeOK
<1>2. stack["receiver"] # <<>>
  BY <1>1, FitsStep
<1>3. PICK f \in Frames : f = Top("receiver") /\ Fits("receiver", f)
                          /\ f = stack["receiver"][1]
  BY <1>1, <1>2, TopFits DEF CallInv
<1>4. /\ f.idx \in Actions /\ f.st \in Statuses /\ f.by \in Threads /\ f.k \in Nat \ {0}
      /\ f.fn \in CondFns => f.idx \in Conditional
      /\ f.fn \in {"send", "sent", "fail"} => f.idx \in Conditional
      /\ f.fn # "cleanup"
  BY <1>3 DEF Frames, Fits
<1>5. \A fn : At("receiver", fn) => f.fn = fn
  BY <1>3 DEF At
<1>6. Unset \in Statuses /\ PATH_DOWN \in Statuses
  BY StatusType
<1>7. \A fn \in Fns, idx \in Actions, st \in Statuses :
        /\ (fn \in CondFns => idx \in Conditional) => Call(fn, idx, st) \in Frames
        /\ Call(fn, idx, st).fn = fn /\ Call(fn, idx, st).idx = idx
  BY CallType DEF Call
(* The moves of a call that is not the one that woke it. *)
<1>8. ASSUME f.fn \notin Woken, f.fn # "callback",
             NEW g \in Frames, NEW h \in Frames, g.fn \notin Woken \cup Completing, h.fn \notin Woken,
             h.fn \in Completing => h.idx \in Conditional,
             \/ Return("receiver") \/ Goto("receiver", g) \/ GotoCalling("receiver", g, h),
             jobs' \subseteq jobs \cup (Conditional \X Threads),
             live' \subseteq live \cup (Conditional \X Threads)
      PROVE  ReceiverShape' /\ WorksOn
  BY <1>2, <1>3, <1>8, ReceiverMoves DEF WorksOn, Stays
(* The call that woke it returns. *)
<1>9. ASSUME f.fn \in Woken, Return("receiver")
      PROVE  /\ ReceiverShape' /\ stack'["receiver"] = <<>>
             /\ Bottom(stack["receiver"]) = f
  <2>0. stack["receiver"] \in Seq(Frames) /\ 1 \in 1 .. Len(stack["receiver"])
    BY <1>1, <1>2, EmptySeq
  <2>1. Len(stack["receiver"]) = 1
    BY <1>3, <1>9, <2>0 DEF ReceiverShape, Shape
  <2>2. Tail(stack["receiver"]) = <<>>
    <3>1. Tail(stack["receiver"]) \in Seq(Frames) /\ Len(Tail(stack["receiver"])) = 0
      BY <1>2, <2>0, <2>1, HeadTailProperties
    <3> QED BY <3>1, EmptySeq
  <2>3. stack'["receiver"] = <<>>
    BY <1>1, <1>9, <2>2 DEF Return
  <2>4. ReceiverShape'
    BY <2>3 DEF ReceiverShape, Shape
  <2> QED BY <1>3, <2>1, <2>3, <2>4 DEF Bottom
<1> USE <1>1, <1>2, <1>3, <1>4, <1>5, <1>6
<1>11. CASE dispatch("receiver")
  <2>1. f.fn = "dispatch" /\ Goto("receiver", AfterDispatchLocked(f.idx)) /\ UNCHANGED <<jobs, live>>
    BY <1>11 DEF dispatch, jobVars
  <2>2. /\ AfterDispatchLocked(f.idx) \in Frames
        /\ AfterDispatchLocked(f.idx).fn \in {"cascade", "send"}
    BY <1>7 DEF AfterDispatchLocked, Fns, CondFns
  <2> QED BY <1>8, <2>1, <2>2 DEF Woken, Completing
<1>12. CASE send_message("receiver")
  <2> DEFINE own == <<f.idx, "receiver">>
  <2>1. /\ f.fn = "send" /\ f.idx \in Conditional
        /\ \/ /\ GotoCalling("receiver", Call("fail", f.idx, PATH_DOWN),
                                         Call("complete", f.idx, Unset))
              /\ UNCHANGED <<jobs, live>>
           \/ /\ Goto("receiver", Call("sent", f.idx, Unset))
              /\ jobs' = jobs \cup {own} /\ live' = live \cup {own}
    BY <1>12 DEF send_message, jobVars
  <2>2. /\ Call("fail", f.idx, PATH_DOWN) \in Frames /\ Call("fail", f.idx, PATH_DOWN).fn = "fail"
        /\ Call("complete", f.idx, Unset) \in Frames /\ Call("complete", f.idx, Unset).fn = "complete"
        /\ Call("complete", f.idx, Unset).idx = f.idx
        /\ Call("sent", f.idx, Unset) \in Frames /\ Call("sent", f.idx, Unset).fn = "sent"
    BY <1>7 DEF Fns, CondFns
  <2>3. own \in Conditional \X Threads
    BY <2>1
  <2>4. /\ jobs' \subseteq jobs \cup (Conditional \X Threads)
        /\ live' \subseteq live \cup (Conditional \X Threads)
    BY <2>1, <2>3
  <2> HIDE DEF own
  <2>5. CASE GotoCalling("receiver", Call("fail", f.idx, PATH_DOWN), Call("complete", f.idx, Unset))
    BY <1>8, <2>1, <2>2, <2>4, <2>5 DEF Woken, Completing
  <2>6. CASE Goto("receiver", Call("sent", f.idx, Unset))
    BY <1>8, <2>1, <2>2, <2>4, <2>6 DEF Woken, Completing
  <2> QED BY <2>1, <2>5, <2>6
<1>13. CASE handshake("receiver")
  <2>1. f.fn = "sent" /\ Return("receiver") /\ UNCHANGED <<jobs, live>>
    BY <1>13 DEF handshake
  <2>2. Call("cascade", f.idx, Unset) \in Frames /\ Call("cascade", f.idx, Unset).fn = "cascade"
    BY <1>7 DEF Fns, CondFns
  <2> QED BY <1>8, <2>1, <2>2 DEF Woken, Completing
<1>14. CASE pop_by_conid("receiver")
  <2>1. f.fn = "lost" /\ UNCHANGED live
    BY <1>14 DEF pop_by_conid, connVars
  <2>2. CASE Return("receiver") /\ UNCHANGED jobs
    BY <1>9, <2>1, <2>2 DEF Ends, Woken
  <2>3. ASSUME NEW j \in jobs, jobs' = jobs \ {j},
               Start("receiver", CallJob("callback", j, PATH_DOWN))
        PROVE  ReceiverShape' /\ Loses
    <3>1. /\ CallJob("callback", j, PATH_DOWN) \in Frames
          /\ CallJob("callback", j, PATH_DOWN).fn = "callback"
      BY CallJobType DEF Fns, CondFns, CallJob, Call
    <3>2. stack'["receiver"] = <<CallJob("callback", j, PATH_DOWN)>> \o stack["receiver"]
      BY <2>3 DEF Start
    <3>3. Bottom(stack["receiver"]) = f
      BY <2>1 DEF ReceiverShape, Shape, Woken, Bottom
    <3>4. /\ stack'["receiver"] # <<>> /\ ReceiverShape'
          /\ Bottom(stack'["receiver"]) = Bottom(stack["receiver"])
          /\ Top("receiver")' = CallJob("callback", j, PATH_DOWN)
      <4> DEFINE g == CallJob("callback", j, PATH_DOWN)
                 s == stack["receiver"]
      <4>1. g \in Frames /\ g.fn \notin Woken
        BY <3>1 DEF Woken
      <4>2. s \in Seq(Frames) /\ s # <<>> /\ Shape(s) /\ s[1].fn \notin Completing
        BY <2>1 DEF ReceiverShape, Completing
      <4> HIDE DEF g, s
      <4>3. /\ <<g>> \o s # <<>> /\ Shape(<<g>> \o s)
            /\ Bottom(<<g>> \o s) = Bottom(s) /\ Head(<<g>> \o s) = g
        BY <4>1, <4>2, ShapePush
      <4> QED BY <3>2, <4>3 DEF g, s, ReceiverShape, Top
    <3> QED BY <2>1, <2>3, <3>3, <3>4 DEF Loses, Stays
  <2> QED BY <1>14, <2>1, <2>2, <2>3 DEF pop_by_conid, JobsOn
<1>15. CASE dispatch_failed("receiver") \/ not_dispatched("receiver") \/ invalid_dependency_end("receiver")
  <2>1. /\ f.fn \in {"fail", "notdisp", "invend"} /\ Goto("receiver", Call("cascade", f.idx, Unset))
        /\ UNCHANGED <<jobs, live>>
    BY <1>15 DEF dispatch_failed, not_dispatched, invalid_dependency_end, jobVars
  <2>2. Call("cascade", f.idx, Unset) \in Frames /\ Call("cascade", f.idx, Unset).fn = "cascade"
    BY <1>7 DEF Fns, CondFns
  <2> QED BY <1>8, <2>1, <2>2 DEF Woken, Completing
<1>16. CASE Job_callback_done("receiver")
  <2> DEFINE g == Call("complete", f.idx, Unset)
  <2>1. /\ f.fn = "callback" /\ UNCHANGED jobs /\ live' = live \ {<<f.idx, f.by>>}
        /\ Return("receiver") \/ Goto("receiver", g)
    BY <1>16 DEF Job_callback_done
  <2>2. g \in Frames /\ g.fn = "complete" /\ g.idx = f.idx
    BY <1>7 DEF Fns, CondFns
  <2> HIDE DEF g
  <2>3. /\ stack'["receiver"] # <<>> /\ ReceiverShape'
        /\ Bottom(stack'["receiver"]) = Bottom(stack["receiver"])
        /\ Top("receiver")'.fn \notin Completing \/ Top("receiver")' = g
    BY <2>1, <2>2, ReceiverMoves DEF Woken, Completing
  <2> QED BY <2>1, <2>2, <2>3 DEF CallsBack, Stays
<1>17. CASE Job_pop("receiver")
  <2>1. /\ f.fn = "pop" /\ Return("receiver") /\ UNCHANGED live
        /\ jobs' = jobs \ ({<<f.idx, f.by>>} \ live)
    BY <1>17 DEF Job_pop
  <2> QED BY <1>9, <2>1 DEF Ends, Woken
<1>18. CASE before("receiver")
  <2>1. f.fn = "before" /\ Return("receiver") /\ UNCHANGED <<jobs, live>>
    BY <1>18 DEF before, jobVars
  <2> QED BY <1>9, <2>1 DEF Ends, Woken
<1>19. CASE action_done("receiver")
  <2>1. /\ f.fn = "complete" /\ UNCHANGED <<jobs, live>>
        /\ Return("receiver") \/ Goto("receiver", Call("cascade", f.idx, Unset))
    BY <1>19 DEF action_done, jobVars
  <2>2. Call("cascade", f.idx, Unset) \in Frames /\ Call("cascade", f.idx, Unset).fn = "cascade"
    BY <1>7 DEF Fns, CondFns
  <2> QED BY <1>8, <2>1, <2>2 DEF Woken, Completing
<1>20. CASE cascade("receiver")
  <2>1. /\ f.fn = "cascade" /\ UNCHANGED <<jobs, live>>
        /\ Return("receiver") \/ Goto("receiver", Call("refs", f.idx, Unset))
    BY <1>20 DEF cascade, jobVars
  <2>2. Call("refs", f.idx, Unset) \in Frames /\ Call("refs", f.idx, Unset).fn = "refs"
    BY <1>7 DEF Fns, CondFns
  <2> QED BY <1>8, <2>1, <2>2 DEF Woken, Completing
<1>21. CASE reference_check("receiver")
  <2> DEFINE cidx == referenced_by[f.idx][f.k]
             next == [f EXCEPT !.k = @ + 1]
  <2>1. /\ f.fn = "refs"
        /\ \/ Return("receiver")
           \/ Goto("receiver", next)
           \/ /\ cidx \in Conditional
              /\ \E fn \in {"invdep", "notdisp", "dispatch"} :
                   GotoCalling("receiver", next, Call(fn, cidx, Unset))
    BY <1>21, ReferenceStep DEF CallInv, At
  <2>2. UNCHANGED <<jobs, live>>
    BY <1>21 DEF reference_check, jobVars
  <2>3. next \in Frames /\ next.fn = "refs"
    BY <2>1 DEF Frames
  <2> HIDE DEF next
  <2>4. ASSUME cidx \in Conditional, NEW fn \in {"invdep", "notdisp", "dispatch"},
               GotoCalling("receiver", next, Call(fn, cidx, Unset))
        PROVE  ReceiverShape' /\ WorksOn
    <3>1. cidx \in Actions
      BY <2>4, TableType
    <3> HIDE DEF cidx
    <3>2. Call(fn, cidx, Unset) \in Frames /\ Call(fn, cidx, Unset).fn = fn
      BY <1>7, <2>4, <3>1 DEF Fns, CondFns
    <3> QED BY <1>8, <2>1, <2>2, <2>3, <2>4, <3>2 DEF Woken, Completing
  <2>5. CASE Return("receiver") \/ Goto("receiver", next)
    BY <1>8, <2>1, <2>2, <2>3, <2>5 DEF Woken, Completing
  <2> QED BY <2>1, <2>4, <2>5
<1>22. CASE invalid_dependency("receiver")
  <2>1. /\ f.fn = "invdep" /\ f.idx \in Conditional /\ UNCHANGED <<jobs, live>>
        /\ GotoCalling("receiver", Call("invend", f.idx, Unset), Call("cascade", f.idx, Unset))
    BY <1>22 DEF invalid_dependency, jobVars, CondFns
  <2>2. /\ Call("cascade", f.idx, Unset) \in Frames /\ Call("cascade", f.idx, Unset).fn = "cascade"
        /\ Call("invend", f.idx, Unset) \in Frames /\ Call("invend", f.idx, Unset).fn = "invend"
    BY <1>7, <2>1 DEF Fns, CondFns
  <2> QED BY <1>8, <2>1, <2>2 DEF Woken, Completing
<1> QED BY <1>11, <1>12, <1>13, <1>14, <1>15, <1>16, <1>17, <1>18, <1>19, <1>20,
           <1>21, <1>22 DEF ThreadStep

(* A thread changes its own stack only. *)
LEMMA OwnStack ==
  ASSUME TypeOK, CallInv, NEW t \in Threads, ThreadStep(t), NEW u \in Threads \ {t}
  PROVE  stack'[u] = stack[u]
<1>1. [Next]_vars
  BY DEF Next
<1>2. stack[t] \in Seq(FrameOf(t)')
  BY <1>1, StackFitsGrows DEF CallInv, FramesFit
<1>3. PICK f \in FrameOf(t)', g \in FrameOf(t)' :
        stack[t] # <<>> /\ (Goto(t, f) \/ Return(t) \/ GotoCalling(t, f, g) \/ Start(t, f))
  BY FitsStep
<1> QED BY <1>2, <1>3, StackOf

(* The main thread registers a job when it sends, and removes none. *)
Sends(a) == send_message("main") /\ Top("main").idx = a

LEMMA MainJobs ==
  ASSUME "handshake" \notin Faults, TypeOK, CallInv, ThreadStep("main")
  PROVE  \/ UNCHANGED <<jobs, live>>
         \/ \E a \in Actions : /\ Sends(a) /\ jobs' = jobs \cup {<<a, "main">>}
                               /\ live' = live \cup {<<a, "main">>}
<1>1. "main" \in Threads
  BY DEF Threads
<1>2. stack["main"] # <<>>
  BY <1>1, FitsStep
<1>3. PICK f \in Frames : f = Top("main") /\ Fits("main", f)
  BY <1>1, <1>2, TopFits DEF CallInv
<1>4. f.fn \notin Woken \cup {"cleanup", "callback"}
  BY <1>3 DEF Fits, Woken
<1>5. CASE send_message("main")
  <2>1. f.idx \in Actions
    BY <1>3 DEF Frames
  <2> QED BY <1>3, <1>5, <2>1 DEF send_message, Sends, jobVars
<1>6. CASE handshake("main")
  BY <1>6 DEF handshake
<1>7. CASE pop_by_conid("main") \/ Job_callback_done("main") \/ Job_pop("main") \/ before("main")
  BY <1>3, <1>4, <1>7 DEF pop_by_conid, Job_callback_done, Job_pop, before, At, Woken
<1> QED BY <1>5, <1>6, <1>7 DEF ThreadStep, dispatch, dispatch_failed, action_done, cascade,
           reference_check, not_dispatched, invalid_dependency, invalid_dependency_end, jobVars

(* A quiet action stays quiet as long as nothing new is known of it. *)
LEMMA QuietSame ==
  ASSUME NEW a \in Actions, Quiet(a), stack'["receiver"] = stack["receiver"],
         \A t \in Threads : /\ <<a, t>> \in jobs' => <<a, t>> \in jobs
                            /\ <<a, t>> \in live' => <<a, t>> \in live
  PROVE  Quiet(a)'
BY DEF Quiet, OnlyToPop, NoLive, ToppedBy, Top, Bottom

(***************************************************************************)
(* A sequential action that is quiet stays so until the main thread sends   *)
(* it: the receiver is woken for a registered job only, and Job_pop removes *)
(* the one that is left.                                                    *)
(***************************************************************************)
LEMMA QuietKept ==
  ASSUME "handshake" \notin Faults, TypeOK, CallInv, ReceiverShape, [Next]_vars,
         NEW a \in Actions \ Conditional, Quiet(a), ~Sends(a)
  PROVE  Quiet(a)'
<1>0. "main" \in Threads /\ "receiver" \in Threads
      /\ \A t \in Threads : t = "main" \/ t = "receiver"
  BY DEF Threads
<1>1. CASE ThreadStep("receiver")
  <2>1. CASE Ends
    <3>1. ASSUME NEW t \in Threads, <<a, t>> \in jobs'
          PROVE  FALSE
      <4>1. <<a, t>> \in jobs /\ <<a, t>> \notin live
        BY <2>1, <3>1 DEF Ends, Quiet, NoLive
      <4>2. Top("receiver").fn = "pop" /\ Top("receiver").idx = a /\ Top("receiver").by = t
        BY <2>1, <4>1 DEF Ends, Quiet, OnlyToPop
      <4>3. jobs' = jobs \ ({<<a, t>>} \ live)
        BY <2>1, <4>2 DEF Ends
      <4> QED BY <3>1, <4>1, <4>3
    <3>2. OnlyToPop(a)'
      BY <3>1 DEF OnlyToPop
    <3>3. NoLive(a)'
      BY <2>1 DEF Ends, Quiet, NoLive
    <3>4. ~ToppedBy(Completing, a)'
      BY <2>1 DEF Ends, ToppedBy
    <3> QED BY <3>2, <3>3, <3>4 DEF Quiet
  <2>2. CASE Loses
    <3>1. \A t \in Threads : <<a, t>> \notin jobs
      BY <2>2 DEF Loses, Quiet, OnlyToPop
    <3>2. PICK j \in jobs : /\ jobs' = jobs \ {j}
                            /\ Top("receiver")' = CallJob("callback", j, PATH_DOWN)
      BY <2>2 DEF Loses
    <3>3. j \in Actions \X Threads
      BY DEF TypeOK
    <3>4. j[1] # a
      <4>1. PICK b \in Actions, t \in Threads : j = <<b, t>>
        BY <3>3
      <4> QED BY <3>1, <4>1
    <3>5. Top("receiver")'.idx # a
      BY <3>2, <3>4 DEF CallJob, Call
    <3>6. OnlyToPop(a)' /\ NoLive(a)'
      BY <2>2, <3>1, <3>2 DEF Loses, Quiet, NoLive, OnlyToPop
    <3>7. ~ToppedBy(Completing, a)'
      BY <3>5 DEF ToppedBy
    <3> QED BY <3>6, <3>7 DEF Quiet
  <2>3. CASE CallsBack
    <3>1. OnlyToPop(a)'
      BY <2>3 DEF CallsBack, Stays, Quiet, OnlyToPop
    <3>2. NoLive(a)'
      BY <2>3 DEF CallsBack, Quiet, NoLive
    <3>3. ~ToppedBy(Completing, a)'
      BY <1>0, <1>1, <2>3, FitsStep DEF CallsBack, Quiet, ToppedBy, Completing
    <3> QED BY <3>1, <3>2, <3>3 DEF Quiet
  <2>4. CASE WorksOn
    <3>1. \A t \in Threads : (<<a, t>> \in jobs' => <<a, t>> \in jobs)
                             /\ (<<a, t>> \in live' => <<a, t>> \in live)
      BY <2>4 DEF WorksOn
    <3>2. OnlyToPop(a)'
      BY <2>4, <3>1 DEF WorksOn, Stays, Quiet, OnlyToPop
    <3>3. NoLive(a)'
      BY <3>1 DEF Quiet, NoLive
    <3>4. ~ToppedBy(Completing, a)'
      BY <2>4 DEF WorksOn, ToppedBy
    <3> QED BY <3>2, <3>3, <3>4 DEF Quiet
  <2> QED BY <1>1, <2>1, <2>2, <2>3, <2>4, ReceiverStep
<1>2. CASE ThreadStep("main")
  <2>1. stack'["receiver"] = stack["receiver"]
    BY <1>0, <1>2, OwnStack
  <2>2. \A t \in Threads : (<<a, t>> \in jobs' => <<a, t>> \in jobs)
                           /\ (<<a, t>> \in live' => <<a, t>> \in live)
    BY <1>2, MainJobs
  <2> QED BY <2>1, <2>2, QuietSame
<1>3. CASE Receive
  <2>1. stack["receiver"] = <<>> /\ UNCHANGED <<jobs, live>>
    BY <1>3 DEF Receive, job_starting, job_finished, connection_lost, jobVars
  <2>2. \A t \in Threads : <<a, t>> \notin jobs
    BY <2>1 DEF Quiet, OnlyToPop
  <2>3. OnlyToPop(a)' /\ NoLive(a)'
    BY <2>1, <2>2 DEF Quiet, OnlyToPop, NoLive
  <2>4. stack \in [Threads -> Seq(Frames)]
    BY DEF TypeOK
  <2>5. ASSUME NEW f \in Frames, Start("receiver", f)
        PROVE  Top("receiver")' = f
    <3>1. stack'["receiver"] = <<f>> \o <<>>
      BY <1>0, <2>1, <2>4, <2>5 DEF Start
    <3> QED BY <3>1 DEF Top
  <2>6. ASSUME NEW idx \in Actions, job_starting(idx)
        PROVE  ~ToppedBy(Completing, a)'
    <3>1. Call("before", idx, Unset) \in Frames /\ Call("before", idx, Unset).fn = "before"
      BY StatusType, CallType DEF Fns, CondFns, Call
    <3> QED BY <2>5, <2>6, <3>1 DEF job_starting, ToppedBy, Completing
  <2>7. ASSUME NEW c \in Actions \X Threads, connection_lost(c)
        PROVE  ~ToppedBy(Completing, a)'
    <3>1. CallJob("lost", c, Unset) \in Frames /\ CallJob("lost", c, Unset).fn = "lost"
      BY StatusType, CallJobType DEF Fns, CondFns, CallJob, Call
    <3> QED BY <2>5, <2>7, <3>1 DEF connection_lost, ToppedBy, Completing
  <2>8. ASSUME NEW j \in Actions \X Threads, NEW st \in Replies, job_finished(j, st)
        PROVE  ~ToppedBy(Completing, a)'
    <3>1. stack'["receiver"] = <<CallJob("callback", j, st), CallJob("pop", j, st)>>
      BY <1>0, <2>4, <2>8 DEF job_finished
    <3>2. Top("receiver")' = CallJob("callback", j, st)
      BY <3>1 DEF Top
    <3>3. j[1] # a
      BY <2>2, <2>8 DEF job_finished, Answerable
    <3> QED BY <3>2, <3>3 DEF ToppedBy, CallJob, Call
  <2>9. ~ToppedBy(Completing, a)'
    BY <1>3, <2>6, <2>7, <2>8 DEF Receive
  <2> QED BY <2>3, <2>9 DEF Quiet
<1>4. CASE MainStep
  <2>1. stack'["receiver"] = stack["receiver"] /\ UNCHANGED <<jobs, live>>
    <3>1. CASE dispatch_group
      BY <1>0, <3>1 DEF dispatch_group, Start, jobVars, TypeOK
    <3>2. CASE ~dispatch_group
      BY <1>4, <3>2 DEF MainStep, InPhaseStep, next_group, wait_for_group, wait_for_all,
         setAbortInProgress, mark_cant_happen, record_status, server_dispatch_table_disarm,
         ServerFailedEssential, ServerDispatchPhase, LookupStep, phase_lookup, phase_unknown, jobVars
    <3> QED BY <3>1, <3>2
  <2> QED BY <2>1, QuietSame
<1>5. CASE UNCHANGED vars
  BY <1>5, QuietSame DEF vars
<1> QED BY <1>0, <1>1, <1>2, <1>3, <1>4, <1>5 DEF Next

(* A sequential action that is not in flight is quiet: it is done, or it    *)
(* was never sent.                                                          *)
LEMMA QuietIdle ==
  ASSUME TypeOK, CallInv, QuietInv, NEW a \in Actions \ Conditional, ~InFlight(a)
  PROVE  Quiet(a)
<1>1. CASE done[a]
  BY <1>1 DEF QuietInv
<1>2. CASE ~done[a]
  <2>1. ~Touched(a)
    BY <1>2 DEF InFlight, Touched
  <2>2. \A t \in Threads : <<a, t>> \notin jobs /\ <<a, t>> \notin live
    BY <2>1 DEF CallInv, JobsFit
  <2>3. ~ToppedBy(Completing, a)
    <3>1. SUFFICES ASSUME ToppedBy(Completing, a) PROVE FALSE
      OBVIOUS
    <3>2. "receiver" \in Threads /\ stack["receiver"] # <<>>
      BY <3>1 DEF Threads, ToppedBy
    <3>3. PICK f \in Frames : f = Top("receiver") /\ Fits("receiver", f)
      BY <3>2, TopFits DEF CallInv
    <3> QED BY <2>1, <3>1, <3>3 DEF ToppedBy, Fits, Completing
  <2> QED BY <2>2, <2>3 DEF Quiet, OnlyToPop, NoLive
<1> QED BY <1>1, <1>2

(* What the main thread sends or gives up is quiet, and when it sends a     *)
(* sequential action that is all it does.                                   *)
LEMMA MainTop ==
  ASSUME TypeOK, QuietInv, stack["main"] # <<>>, Top("main").idx \notin Conditional
  PROVE  /\ Top("main").fn \in {"send", "complete", "fail"} => Quiet(Top("main").idx)
         /\ Top("main").fn = "send" => /\ Len(stack["main"]) = 1 /\ Tail(stack["main"]) = <<>>
                                       /\ ~done[Top("main").idx]
<1>1. stack["main"] \in Seq(SendingOf) /\ stack["main"] \in Seq(Frames)
  BY DEF QuietInv, TypeOK, Threads
<1>2. Top("main") \in SendingOf /\ Top("main") \in Frames
  BY <1>1, HeadTailProperties DEF Top
<1>3. ASSUME Top("main").fn = "send"
      PROVE  /\ Len(stack["main"]) = 1 /\ Tail(stack["main"]) = <<>>
             /\ ~done[Top("main").idx]
  <2>1. Top("main") \in SequentialSends
    BY <1>2, <1>3 DEF SequentialSends
  <2>2. stack["main"] \notin Seq(Frames \ SequentialSends)
    <3>1. SUFFICES ASSUME stack["main"] \in Seq(Frames \ SequentialSends) PROVE FALSE
      OBVIOUS
    <3>2. Top("main") \in Frames \ SequentialSends
      BY <3>1, HeadTailProperties DEF Top
    <3> QED BY <2>1, <3>2
  <2>3. Len(stack["main"]) = 1 /\ ~done[Top("main").idx]
    BY <2>2 DEF QuietInv, SendShape
  <2>4. Tail(stack["main"]) \in Seq(Frames) /\ Len(Tail(stack["main"])) = 0
    BY <1>1, <2>3, HeadTailProperties
  <2> QED BY <2>3, <2>4, EmptySeq
<1> QED BY <1>2, <1>3 DEF SendingOf

(* Only a quiet action that is not done is sent, and the stack shows it. *)
LEMMA SendsQuiet ==
  ASSUME TypeOK, QuietInv, NEW a \in Actions \ Conditional, Sends(a)
  PROVE  Quiet(a) /\ ~done[a]
BY MainTop DEF Sends, send_message, At

LEMMA SendsMoves ==
  ASSUME TypeOK, NEW a \in Actions, Sends(a)
  PROVE  stack["main"] # <<>> /\ stack'["main"] # stack["main"]
<1>1. stack \in [Threads -> Seq(Frames)] /\ "main" \in Threads
  BY DEF TypeOK, Threads
<1>2. stack["main"] \in Seq(Frames) /\ stack["main"] # <<>> /\ Head(stack["main"]).fn = "send"
  BY <1>1 DEF Sends, send_message, At, Top
<1>3. Tail(stack["main"]) \in Seq(Frames)
  BY <1>2, HeadTailProperties
<1>4. a \in Actions /\ Top("main").idx = a
  BY DEF Sends
<1>5. CASE GotoCalling("main", Call("fail", a, PATH_DOWN), Call("complete", a, Unset))
  <2> DEFINE g == Call("complete", a, Unset)
             f == Call("fail", a, PATH_DOWN)
  <2>1. f \in Frames /\ g \in Frames /\ g.fn = "complete"
    BY StatusType, CallType DEF Fns, CondFns, Call
  <2>2. stack'["main"] = <<g>> \o (<<f>> \o Tail(stack["main"]))
    BY <1>1, <1>5 DEF GotoCalling
  <2> HIDE DEF f, g
  <2>3. <<f>> \o Tail(stack["main"]) \in Seq(Frames)
    BY <1>3, <2>1, ConcatProperties
  <2>4. Head(<<g>> \o (<<f>> \o Tail(stack["main"]))) = g
    BY <2>1, <2>3
  <2>5. Head(stack'["main"]).fn = "complete"
    BY <2>1, <2>2, <2>4
  <2> QED BY <1>2, <2>5
<1>6. CASE Goto("main", Call("sent", a, Unset))
  <2> DEFINE f == Call("sent", a, Unset)
  <2>1. f \in Frames /\ f.fn = "sent"
    BY StatusType, CallType DEF Fns, CondFns, Call
  <2>2. stack'["main"] = <<f>> \o Tail(stack["main"])
    BY <1>1, <1>6 DEF Goto
  <2> HIDE DEF f
  <2>3. Head(<<f>> \o Tail(stack["main"])) = f
    BY <1>3, <2>1
  <2>4. Head(stack'["main"]).fn = "sent"
    BY <2>1, <2>2, <2>3
  <2> QED BY <1>2, <2>4
<1> QED BY <1>2, <1>4, <1>5, <1>6 DEF Sends, send_message

(* Done actions are quiet. *)
LEMMA QuietDone ==
  ASSUME "handshake" \notin Faults, TypeOK, BarrierInv, CallInv, PhaseInv, QuietInv, [Next]_vars,
         NEW a \in Actions \ Conditional, done'[a]
  PROVE  Quiet(a)'
<1>0. /\ "main" \in Threads /\ "receiver" \in Threads
      /\ \A t \in Threads : t = "main" \/ t = "receiver"
      /\ ReceiverShape
  BY DEF Threads, QuietInv
<1>1. CASE done[a]
  BY <1>1, SendsQuiet, QuietKept DEF QuietInv
<1>2. CASE ~done[a] /\ ThreadStep("receiver")
  <2>1. stack["receiver"] # <<>>
    BY <1>0, <1>2, FitsStep
  <2>2. PICK f \in Frames : f = Top("receiver") /\ Fits("receiver", f)
    BY <1>0, <2>1, TopFits DEF CallInv
  <2>3. f.fn \in {"fail", "complete", "notdisp", "invdep"} /\ f.idx = a
    BY <1>0, <1>2, <2>2, ThreadTable DEF Same
  <2>4. f.fn = "complete"
    BY <2>2, <2>3 DEF Fits, Frames, CondFns
  <2>5. OnlyToPop(a) /\ NoLive(a)
    BY <2>1, <2>2, <2>3, <2>4 DEF QuietInv, ToppedBy, Completing
  <2>6. WorksOn
    BY <1>0, <1>2, <2>2, <2>4, ReceiverStep DEF Ends, Loses, CallsBack, Woken
  <2>7. \A t \in Threads : (<<a, t>> \in jobs' => <<a, t>> \in jobs)
                           /\ (<<a, t>> \in live' => <<a, t>> \in live)
    BY <2>6 DEF WorksOn
  <2>8. OnlyToPop(a)'
    BY <2>5, <2>6, <2>7 DEF WorksOn, Stays, OnlyToPop
  <2>9. NoLive(a)' /\ ~ToppedBy(Completing, a)'
    BY <2>5, <2>6, <2>7 DEF WorksOn, NoLive, ToppedBy
  <2> QED BY <2>8, <2>9 DEF Quiet
<1>3. CASE ~done[a] /\ ThreadStep("main")
  <2>1. stack["main"] # <<>>
    BY <1>0, <1>3, FitsStep
  <2>2. Top("main").fn \in {"fail", "complete", "notdisp", "invdep"} /\ Top("main").idx = a
    BY <1>0, <1>3, ThreadTable DEF Same, At
  <2>3. Top("main") \in Frames
    BY <1>0, <2>1, TopFits DEF CallInv
  <2>4. Top("main").fn \in {"fail", "complete"}
    BY <2>2, <2>3 DEF Frames, CondFns
  <2>5. Quiet(a) /\ ~Sends(a)
    BY <2>1, <2>2, <2>4, MainTop DEF Sends, send_message, At
  <2> QED BY <1>0, <2>5, QuietKept
<1>4. CASE ~done[a] /\ MainStep
  <2>1. CASE pc = "dispatch" /\ a = i /\ dispatch_group
    <3>1. ~InFlight(a)
      BY <2>1 DEF BarrierInv, FlightBounds, Actions
    <3>2. Quiet(a)
      BY <3>1, QuietIdle
    <3>3. ~Sends(a)
      BY <2>1 DEF Sends, send_message, At, dispatch_group
    <3> QED BY <1>0, <3>2, <3>3, QuietKept
  <2>2. CASE pc = "mark" /\ a = i /\ i < last_c
    <3>1. curPhase # 0 /\ i >= first_c /\ i \in Nat /\ last_c \in 0 .. num /\ num \in Nat
      BY <2>2, TableType DEF PhaseInv, RangeInv, VisitedInv, TypeOK, Outside
    <3>2. first_c \in 0 .. num /\ first_c .. last_c - 1 \subseteq Conditional
      BY <3>1, RangesOf DEF PhaseInv
    <3>3. i \in first_c .. last_c - 1
      BY <2>2, <3>1, <3>2
    <3> QED BY <2>2, <3>2, <3>3
  <2> QED BY <1>4, <2>1, <2>2, MainTable DEF Same
<1>5. CASE ~done[a] /\ (Receive \/ UNCHANGED vars)
  BY <1>5, OtherTable DEF Same
<1> QED BY <1>0, <1>1, <1>2, <1>3, <1>4, <1>5 DEF Next

(* What the receiver is completing has no job left but the one to pop, and  *)
(* no live one once it was called back.                                     *)
LEMMA QuietCalls ==
  ASSUME "handshake" \notin Faults, TypeOK, CallInv, QuietInv, [Next]_vars,
         NEW a \in Actions \ Conditional, ToppedBy(Completing, a)'
  PROVE  OnlyToPop(a)' /\ (ToppedBy({"complete"}, a)' => NoLive(a)')
<1>0. /\ "main" \in Threads /\ "receiver" \in Threads
      /\ \A t \in Threads : t = "main" \/ t = "receiver"
      /\ ReceiverShape
  BY DEF Threads, QuietInv
<1>1. ~Quiet(a)' /\ stack'["receiver"] # <<>> /\ Top("receiver")'.fn \in Completing
      /\ Top("receiver")'.idx = a
  BY DEF Quiet, ToppedBy
<1>2. ~Quiet(a) \/ Sends(a)
  BY <1>0, <1>1, QuietKept
<1>3. \A j \in jobs \cup live : j[1] = a => j = <<a, "main">>
  <2> TAKE j \in jobs \cup live
  <2>1. j \in Actions \X Threads
    BY DEF TypeOK
  <2> QED BY <2>1 DEF CallInv, JobsFit
<1>4. ASSUME stack'["receiver"] = stack["receiver"], ~Sends(a),
             \A t \in Threads : /\ <<a, t>> \in jobs' => <<a, t>> \in jobs
                                /\ <<a, t>> \in live' => <<a, t>> \in live
      PROVE  OnlyToPop(a)' /\ (ToppedBy({"complete"}, a)' => NoLive(a)')
  <2>1. ToppedBy(Completing, a) /\ Top("receiver")' = Top("receiver")
    BY <1>1, <1>4 DEF ToppedBy, Top
  <2>2. OnlyToPop(a)'
    BY <1>4, <2>1 DEF QuietInv, OnlyToPop
  <2>3. ASSUME Top("receiver")'.fn = "complete" PROVE NoLive(a)'
    <3>1. NoLive(a)
      BY <2>1, <2>3 DEF QuietInv, ToppedBy
    <3> QED BY <1>4, <3>1 DEF NoLive
  <2> QED BY <2>2, <2>3 DEF ToppedBy
<1>5. CASE ThreadStep("receiver")
  <2>1. PICK f \in Frames : f = Top("receiver") /\ Fits("receiver", f) /\ stack["receiver"] # <<>>
    BY <1>0, <1>5, FitsStep, TopFits DEF CallInv
  <2>2. CASE Ends
    BY <1>1, <2>2 DEF Ends
  <2>3. CASE Loses
    <3>1. PICK j \in jobs : /\ jobs' = jobs \ {j}
                            /\ Top("receiver")' = CallJob("callback", j, PATH_DOWN)
      BY <2>3 DEF Loses
    <3>2. j = <<a, "main">> /\ Top("receiver")'.fn = "callback"
      BY <1>1, <1>3, <3>1 DEF CallJob, Call
    <3>3. \A t \in Threads : <<a, t>> \notin jobs'
      BY <1>3, <3>1, <3>2
    <3> QED BY <3>2, <3>3 DEF OnlyToPop, ToppedBy
  <2>4. CASE CallsBack
    <3>1. f.fn = "callback" /\ f.idx = a /\ f.by = "main"
      BY <1>1, <2>1, <2>4 DEF CallsBack, Fits
    <3>2. OnlyToPop(a)
      BY <2>1, <3>1 DEF QuietInv, ToppedBy, Completing
    <3>3. OnlyToPop(a)'
      BY <2>4, <3>2 DEF CallsBack, Stays, OnlyToPop
    <3>4. live' = live \ {<<a, "main">>}
      BY <2>1, <2>4, <3>1 DEF CallsBack
    <3>5. NoLive(a)'
      BY <1>3, <3>4 DEF NoLive
    <3> QED BY <3>3, <3>5
  <2>5. CASE WorksOn
    BY <1>1, <2>5 DEF WorksOn
  <2> QED BY <1>0, <1>5, <2>2, <2>3, <2>4, <2>5, ReceiverStep
<1>6. CASE ThreadStep("main")
  <2>1. stack'["receiver"] = stack["receiver"]
    BY <1>0, <1>6, OwnStack
  <2>2. ~Sends(a)
    <3>1. SUFFICES ASSUME Sends(a) PROVE FALSE
      OBVIOUS
    <3>2. ~ToppedBy(Completing, a)
      BY <3>1, SendsQuiet DEF Quiet
    <3> QED BY <1>1, <2>1, <3>2 DEF ToppedBy, Top
  <2>3. \A t \in Threads : /\ <<a, t>> \in jobs' => <<a, t>> \in jobs
                           /\ <<a, t>> \in live' => <<a, t>> \in live
    BY <1>6, <2>2, MainJobs
  <2> QED BY <1>4, <2>1, <2>2, <2>3
<1>7. CASE Receive
  <2>1. stack["receiver"] = <<>> /\ UNCHANGED <<jobs, live>> /\ stack \in [Threads -> Seq(Frames)]
    BY <1>7 DEF Receive, job_starting, job_finished, connection_lost, jobVars, TypeOK
  <2>2. ASSUME NEW f \in Frames, Start("receiver", f)
        PROVE  Top("receiver")' = f
    <3>1. stack'["receiver"] = <<f>> \o <<>>
      BY <1>0, <2>1, <2>2 DEF Start
    <3> QED BY <3>1 DEF Top
  <2>3. ASSUME NEW idx \in Actions, job_starting(idx)
        PROVE  FALSE
    <3>1. Call("before", idx, Unset) \in Frames /\ Call("before", idx, Unset).fn = "before"
      BY StatusType, CallType DEF Fns, CondFns, Call
    <3> QED BY <1>1, <2>2, <2>3, <3>1 DEF job_starting, Completing
  <2>4. ASSUME NEW c \in Actions \X Threads, connection_lost(c)
        PROVE  FALSE
    <3>1. CallJob("lost", c, Unset) \in Frames /\ CallJob("lost", c, Unset).fn = "lost"
      BY StatusType, CallJobType DEF Fns, CondFns, CallJob, Call
    <3> QED BY <1>1, <2>2, <2>4, <3>1 DEF connection_lost, Completing
  <2>5. ASSUME NEW j \in Actions \X Threads, NEW st \in Replies, job_finished(j, st)
        PROVE  OnlyToPop(a)' /\ ~ToppedBy({"complete"}, a)'
    <3>1. stack'["receiver"] = <<CallJob("callback", j, st), CallJob("pop", j, st)>> /\ j \in jobs
      BY <1>0, <2>1, <2>5 DEF job_finished, Answerable
    <3>2. Top("receiver")' = CallJob("callback", j, st)
      BY <3>1 DEF Top
    <3>3. j = <<a, "main">> /\ Top("receiver")'.fn = "callback"
      BY <1>1, <1>3, <3>1, <3>2 DEF CallJob, Call
    <3>4. Bottom(stack'["receiver"]) = CallJob("pop", j, st)
      BY <3>1 DEF Bottom
    <3>5. /\ Bottom(stack'["receiver"]).fn = "pop" /\ Bottom(stack'["receiver"]).idx = a
          /\ Bottom(stack'["receiver"]).by = "main"
      BY <3>3, <3>4 DEF CallJob, Call
    <3>6. \A t \in Threads : <<a, t>> \in jobs' => t = "main"
      BY <1>3, <2>1
    <3> QED BY <1>1, <3>3, <3>5, <3>6 DEF OnlyToPop, ToppedBy
  <2> QED BY <1>7, <2>3, <2>4, <2>5 DEF Receive
<1>8. CASE MainStep \/ UNCHANGED vars
  <2>1. stack'["receiver"] = stack["receiver"] /\ UNCHANGED <<jobs, live>>
    <3>1. CASE dispatch_group
      BY <1>0, <3>1 DEF dispatch_group, Start, jobVars, TypeOK
    <3>2. CASE ~dispatch_group
      BY <1>8, <3>2 DEF MainStep, InPhaseStep, next_group, wait_for_group, wait_for_all,
         setAbortInProgress, mark_cant_happen, record_status, server_dispatch_table_disarm,
         ServerFailedEssential, ServerDispatchPhase, LookupStep, phase_lookup, phase_unknown, jobVars, vars
    <3> QED BY <3>1, <3>2
  <2>2. ToppedBy(Completing, a)
    BY <1>1, <2>1 DEF ToppedBy, Top
  <2>3. ~Quiet(a)
    BY <2>2 DEF Quiet
  <2>4. ~Sends(a)
    BY <2>3, SendsQuiet
  <2> QED BY <1>4, <2>1, <2>4
<1> QED BY <1>0, <1>5, <1>6, <1>7, <1>8 DEF Next

(***************************************************************************)
(* The calls of the main thread: it never starts to send a sequential       *)
(* action from within a call, and what it completes or gives up is quiet.   *)
(***************************************************************************)
Settles(f) == f.fn \in {"complete", "fail"} /\ f.idx \notin Conditional => Quiet(f.idx)'

LEMMA MainCalls ==
  ASSUME "handshake" \notin Faults, TypeOK, CallInv, QuietInv, ThreadStep("main")
  PROVE  \E f, g \in Frames \ SequentialSends :
           /\ Settles(f) /\ Settles(g)
           /\ Return("main") \/ Goto("main", f) \/ GotoCalling("main", f, g)
<1>1. "main" \in Threads /\ "receiver" \in Threads \ {"main"}
  BY DEF Threads
<1>2. stack["main"] # <<>> /\ stack'["receiver"] = stack["receiver"]
  BY <1>1, FitsStep, OwnStack
<1>3. PICK f \in Frames : f = Top("main") /\ Fits("main", f)
  BY <1>1, <1>2, TopFits DEF CallInv
<1>4. /\ f.idx \in Actions /\ f.st \in Statuses /\ f.k \in Nat \ {0}
      /\ f.fn \in CondFns => f.idx \in Conditional
      /\ f.fn \notin Woken \cup {"cleanup", "callback"}
  BY <1>3 DEF Frames, Fits, Woken
<1>5. \A fn : At("main", fn) => f.fn = fn
  BY <1>3 DEF At
<1>6. Unset \in Statuses /\ PATH_DOWN \in Statuses
  BY StatusType
(* Most calls concern no sequential action that could complete late. *)
<1>7. ASSUME NEW fn \in Fns \ {"complete", "fail"}, NEW idx \in Actions, NEW st \in Statuses,
             fn \in CondFns \cup {"send"} => idx \in Conditional
      PROVE  Call(fn, idx, st) \in Frames \ SequentialSends /\ Settles(Call(fn, idx, st))
  <2>1. Call(fn, idx, st) \in Frames /\ Call(fn, idx, st).fn = fn /\ Call(fn, idx, st).idx = idx
    BY <1>7, CallType DEF Call
  <2> QED BY <1>7, <2>1 DEF SequentialSends, Settles
<1>8. Call("cascade", f.idx, Unset) \in Frames \ SequentialSends
      /\ Settles(Call("cascade", f.idx, Unset))
  BY <1>4, <1>6, <1>7 DEF Fns, CondFns
<1> USE <1>1, <1>2, <1>3, <1>4, <1>5, <1>6
<1>11. CASE dispatch("main")
  <2>1. f.fn = "dispatch" /\ Goto("main", AfterDispatchLocked(f.idx)) /\ f.idx \in Conditional
    BY <1>11 DEF dispatch, CondFns
  <2>2. /\ AfterDispatchLocked(f.idx) \in Frames \ SequentialSends
        /\ Settles(AfterDispatchLocked(f.idx))
    BY <1>7, <2>1 DEF AfterDispatchLocked, Fns, CondFns
  <2> QED BY <2>1, <2>2
<1>12. CASE send_message("main")
  <2> DEFINE fail == Call("fail", f.idx, PATH_DOWN)
             complete == Call("complete", f.idx, Unset)
             sent == Call("sent", f.idx, Unset)
  <2>1. /\ f.fn = "send"
        /\ \/ /\ GotoCalling("main", fail, complete)
              /\ UNCHANGED <<jobs, live>>
           \/ Goto("main", sent)
    BY <1>12 DEF send_message, jobVars
  <2>2. sent \in Frames \ SequentialSends /\ Settles(sent)
    BY <1>7 DEF Fns, CondFns
  <2>3. /\ fail \in Frames /\ fail.fn = "fail" /\ fail.idx = f.idx
        /\ complete \in Frames /\ complete.fn = "complete" /\ complete.idx = f.idx
    BY CallType DEF Fns, CondFns, Call
  <2> HIDE DEF fail, complete, sent
  <2>4. CASE GotoCalling("main", fail, complete) /\ UNCHANGED <<jobs, live>>
    <3>1. f.idx \notin Conditional => Quiet(f.idx)'
      BY <2>1, <2>4, MainTop, QuietSame
    <3>2. Settles(fail) /\ Settles(complete)
      BY <2>3, <3>1 DEF Settles
    <3>3. fail \in Frames \ SequentialSends /\ complete \in Frames \ SequentialSends
      BY <2>3 DEF SequentialSends
    <3> QED BY <2>4, <3>2, <3>3
  <2> QED BY <2>1, <2>2, <2>4
<1>13. CASE handshake("main")
  <2>1. Return("main")
    BY <1>13 DEF handshake
  <2> QED BY <1>8, <2>1
<1>14. CASE \/ dispatch_failed("main") \/ not_dispatched("main") \/ invalid_dependency_end("main")
            \/ action_done("main")
  <2>1. Return("main") \/ Goto("main", Call("cascade", f.idx, Unset))
    BY <1>14 DEF dispatch_failed, not_dispatched, invalid_dependency_end, action_done
  <2> QED BY <1>8, <2>1
<1>15. CASE cascade("main")
  <2>1. Return("main") \/ Goto("main", Call("refs", f.idx, Unset))
    BY <1>15 DEF cascade
  <2>2. Call("refs", f.idx, Unset) \in Frames \ SequentialSends
        /\ Settles(Call("refs", f.idx, Unset))
    BY <1>7 DEF Fns, CondFns
  <2> QED BY <2>1, <2>2
<1>16. CASE reference_check("main")
  <2> DEFINE cidx == referenced_by[f.idx][f.k]
             next == [f EXCEPT !.k = @ + 1]
  <2>1. /\ f.fn = "refs"
        /\ \/ Return("main")
           \/ Goto("main", next)
           \/ /\ cidx \in Conditional
              /\ \E fn \in {"invdep", "notdisp", "dispatch"} :
                   GotoCalling("main", next, Call(fn, cidx, Unset))
    BY <1>16, ReferenceStep DEF CallInv, At
  <2>2. next \in Frames /\ next.fn = "refs"
    BY <2>1 DEF Frames
  <2> HIDE DEF next
  <2>3. next \in Frames \ SequentialSends /\ Settles(next)
    BY <2>2 DEF SequentialSends, Settles
  <2>4. ASSUME cidx \in Conditional, NEW fn \in {"invdep", "notdisp", "dispatch"}
        PROVE  Call(fn, cidx, Unset) \in Frames \ SequentialSends
               /\ Settles(Call(fn, cidx, Unset))
    <3>1. cidx \in Actions
      BY <2>4, TableType
    <3> HIDE DEF cidx
    <3> QED BY <1>7, <2>4, <3>1 DEF Fns, CondFns
  <2> QED BY <2>1, <2>3, <2>4
<1>17. CASE invalid_dependency("main")
  <2>1. /\ f.fn = "invdep" /\ f.idx \in Conditional
        /\ GotoCalling("main", Call("invend", f.idx, Unset), Call("cascade", f.idx, Unset))
    BY <1>17 DEF invalid_dependency, CondFns
  <2>2. Call("invend", f.idx, Unset) \in Frames \ SequentialSends
        /\ Settles(Call("invend", f.idx, Unset))
    BY <1>7, <2>1 DEF Fns, CondFns
  <2> QED BY <1>8, <2>1, <2>2
<1>18. CASE \/ pop_by_conid("main") \/ Job_callback_done("main") \/ Job_pop("main")
            \/ before("main")
  BY <1>18 DEF pop_by_conid, Job_callback_done, Job_pop, before, Woken
<1> QED BY <1>11, <1>12, <1>13, <1>14, <1>15, <1>16, <1>17, <1>18 DEF ThreadStep

(* A frame of the main thread stays as quiet as it was, unless it is sent. *)
LEMMA SendingKept ==
  ASSUME "handshake" \notin Faults, TypeOK, CallInv, ReceiverShape, [Next]_vars,
         NEW s \in Seq(SendingOf), \A a \in Actions \ Conditional : ~Sends(a)
  PROVE  s \in Seq(SendingOf')
<1>1. SendingOf \subseteq SendingOf'
  <2>1. ASSUME NEW f \in SendingOf PROVE f \in SendingOf'
    <3>1. f \in Frames /\ f.idx \in Actions
      BY DEF SendingOf, Frames
    <3>2. f.fn \in {"send", "complete", "fail"} /\ f.idx \notin Conditional => Quiet(f.idx)'
      <4>1. SUFFICES ASSUME f.fn \in {"send", "complete", "fail"}, f.idx \notin Conditional
                     PROVE  Quiet(f.idx)'
        OBVIOUS
      <4>2. Quiet(f.idx) /\ ~Sends(f.idx)
        BY <3>1, <4>1 DEF SendingOf
      <4> QED BY <3>1, <4>1, <4>2, QuietKept
    <3> QED BY <3>1, <3>2 DEF SendingOf
  <2> QED BY <2>1
<1> QED BY <1>1

(* The main thread's stack after a step of its own. *)
LEMMA MainStackOwn ==
  ASSUME "handshake" \notin Faults, TypeOK, CallInv, QuietInv, ThreadStep("main")
  PROVE  SendShape' /\ stack'["main"] \in Seq(SendingOf')
<1>1. PICK f \in Frames \ SequentialSends, g \in Frames \ SequentialSends :
        /\ Settles(f) /\ Settles(g)
        /\ Return("main") \/ Goto("main", f) \/ GotoCalling("main", f, g)
  BY MainCalls
<1>2. /\ "main" \in Threads /\ stack \in [Threads -> Seq(Frames)]
      /\ stack["main"] # <<>> /\ stack["main"] \in Seq(SendingOf)
  BY FitsStep DEF Threads, TypeOK, QuietInv
<1>3. f \in SendingOf' /\ g \in SendingOf'
  <2>1. ASSUME NEW h \in Frames \ SequentialSends, Settles(h)
        PROVE  h \in SendingOf'
    <3>1. h.fn \in {"send", "complete", "fail"} /\ h.idx \notin Conditional => Quiet(h.idx)'
      BY <2>1 DEF SequentialSends, Settles
    <3> QED BY <3>1 DEF SendingOf
  <2> QED BY <1>1, <2>1
<1>4. CASE \E a \in Actions \ Conditional : Sends(a)
  <2>1. Tail(stack["main"]) = <<>>
    BY <1>2, <1>4, MainTop DEF Sends, send_message, At
  <2>2. \/ stack'["main"] = <<>>
        \/ stack'["main"] = <<f>> \o <<>>
        \/ stack'["main"] = <<g>> \o (<<f>> \o <<>>)
    BY <1>1, <1>2, <2>1 DEF Return, Goto, GotoCalling
  <2>3. stack'["main"] = <<>> \/ stack'["main"] = <<f>> \/ stack'["main"] = <<g, f>>
    BY <2>2
  <2>4. stack'["main"] \in Seq({f, g})
    <3>1. <<>> \in Seq({f, g}) /\ <<f>> \in Seq({f, g}) /\ <<g, f>> \in Seq({f, g})
      OBVIOUS
    <3> QED BY <2>3, <3>1
  <2>5. stack'["main"] \in Seq(Frames \ SequentialSends)
    BY <1>1, <2>4
  <2>6. stack'["main"] \in Seq(SendingOf')
    BY <1>3, <2>4
  <2> QED BY <2>5, <2>6 DEF SendShape, SequentialSends
<1>5. CASE \A a \in Actions \ Conditional : ~Sends(a)
  <2>1. stack["main"] \in Seq(SendingOf')
    BY <1>2, <1>5, SendingKept DEF QuietInv, Next
  <2>2. stack'["main"] \in Seq(SendingOf')
    BY <1>1, <1>2, <1>3, <2>1, StackOf
  <2>3. stack["main"] \in Seq(Frames \ SequentialSends)
    <3>1. SUFFICES ASSUME Top("main") \in SequentialSends
                   PROVE  FALSE
      <4>1. SendShape
        BY DEF QuietInv
      <4> QED BY <4>1 DEF SendShape
    <3>2. Top("main").fn = "send" /\ Top("main").idx \in Actions \ Conditional
      BY <3>1 DEF SequentialSends, Frames
    <3>3. send_message("main")
      BY <3>2 DEF ThreadStep, dispatch, handshake, pop_by_conid, dispatch_failed,
         Job_callback_done, Job_pop, action_done, before, cascade, reference_check,
         not_dispatched, invalid_dependency, invalid_dependency_end, At
    <3> QED BY <1>5, <3>2, <3>3 DEF Sends
  <2>4. stack'["main"] \in Seq(Frames \ SequentialSends)
    BY <1>1, <1>2, <2>3, StackOf
  <2> QED BY <2>2, <2>4 DEF SendShape, SequentialSends
<1> QED BY <1>4, <1>5

(* ... and after a step that leaves it alone: an action about to be sent is *)
(* not completed meanwhile.                                                 *)
LEMMA MainStackSame ==
  ASSUME "handshake" \notin Faults, TypeOK, CallInv, QuietInv, [Next]_vars,
         stack'["main"] = stack["main"], ~ThreadStep("main"),
         MainStep => stack["main"] = <<>> \/ UNCHANGED done
  PROVE  SendShape' /\ stack'["main"] \in Seq(SendingOf')
<1>1. /\ "main" \in Threads /\ "receiver" \in Threads /\ stack \in [Threads -> Seq(Frames)]
      /\ \A t \in Threads : t = "main" \/ t = "receiver"
      /\ stack["main"] \in Seq(SendingOf)
  BY DEF Threads, TypeOK, QuietInv
<1>2. \A a \in Actions \ Conditional : ~Sends(a)
  BY SendsMoves
<1>3. stack'["main"] \in Seq(SendingOf')
  BY <1>1, <1>2, SendingKept DEF QuietInv
<1>4. CASE stack["main"] \in Seq(Frames \ SequentialSends)
  <2>1. stack'["main"] \in Seq(Frames \ SequentialSends)
    BY <1>4
  <2> QED BY <1>3, <2>1 DEF SendShape, SequentialSends
<1>5. CASE Len(stack["main"]) = 1 /\ Top("main") \in SequentialSends /\ ~done[Top("main").idx]
  <2>1. stack["main"] # <<>>
    <3>1. Len(stack["main"]) # 0 /\ Len(<<>>) = 0
      BY <1>5, EmptySeq
    <3> QED BY <3>1
  <2>2. PICK a \in Actions \ Conditional : a = Top("main").idx
    BY <1>5 DEF SequentialSends, Frames
  <2>3. Quiet(a)
    BY <1>5, <2>1, <2>2, MainTop DEF SequentialSends
  <2>4. ~done'[a]
    <3>1. CASE ThreadStep("receiver")
      <4>1. stack["receiver"] # <<>>
        BY <1>1, <3>1, FitsStep
      <4>2. PICK f \in Frames : f = Top("receiver") /\ Fits("receiver", f)
        BY <1>1, <4>1, TopFits DEF CallInv
      <4>3. SUFFICES ASSUME done'[a] PROVE FALSE
        OBVIOUS
      <4>4. f.fn \in {"fail", "complete", "notdisp", "invdep"} /\ f.idx = a
        BY <1>1, <1>5, <2>2, <3>1, <4>2, <4>3, ThreadTable DEF Same
      <4>5. f.fn = "complete"
        BY <4>2, <4>4 DEF Fits, Frames, CondFns
      <4> QED BY <2>3, <4>1, <4>2, <4>4, <4>5 DEF Quiet, ToppedBy, Completing
    <3>2. CASE MainStep
      BY <1>5, <2>1, <2>2, <3>2
    <3>3. CASE Receive \/ UNCHANGED vars
      BY <1>5, <2>2, <3>3, OtherTable DEF Same
    <3> QED BY <1>1, <3>1, <3>2, <3>3 DEF Next
  <2>5. Len(stack'["main"]) = 1 /\ Top("main")' = Top("main")
    BY <1>5 DEF Top
  <2>6. ~done'[Top("main")'.idx]
    BY <2>2, <2>4, <2>5
  <2> QED BY <1>3, <1>5, <2>5, <2>6 DEF SendShape, SequentialSends
<1> QED BY <1>4, <1>5 DEF QuietInv, SendShape

(* ... and after the loop of ServerDispatchPhase started to send an action. *)
LEMMA MainStackGroup ==
  ASSUME "handshake" \notin Faults, TypeOK, BarrierInv, CallInv, QuietInv, dispatch_group,
         stack'["main"] # stack["main"]
  PROVE  SendShape' /\ stack'["main"] \in Seq(SendingOf')
<1>1. /\ "main" \in Threads /\ "receiver" \in Threads \ {"main"} /\ stack \in [Threads -> Seq(Frames)]
      /\ i \in Nat /\ num \in Nat /\ first_g \in 0 .. num /\ last_g \in 0 .. num
      /\ last_s \in 0 .. num /\ first_s \in 0 .. num /\ noact \in BOOLEAN
  BY TableType DEF Threads, TypeOK
<1>2. /\ pc = "dispatch" /\ stack["main"] = <<>> /\ i < last_g
      /\ dispatch_locked(i) /\ Start("main", AfterDispatchLocked(i))
  BY DEF dispatch_group
<1>3. i \in first_s .. last_s - 1
  BY <1>1, <1>2 DEF BarrierInv, SequentialRange, GroupBounds
<1>4. PICK a \in Actions \ Conditional : a = i
  BY <1>2, <1>3 DEF BarrierInv, SequentialRange
<1>5. PICK f : f = AfterDispatchLocked(a)
  OBVIOUS
<1>6. /\ f \in Frames /\ f.idx = a
      /\ f.fn = IF noact THEN "cascade" ELSE "send"
  BY <1>5, StatusType, CallType DEF AfterDispatchLocked, Fns, CondFns, Call
<1>7. stack'["main"] = <<f>> /\ stack'["receiver"] = stack["receiver"]
  <2>1. stack'["main"] = <<f>> \o <<>> /\ stack'["receiver"] = stack["receiver"]
    BY <1>1, <1>2, <1>4, <1>5 DEF Start
  <2> QED BY <2>1
<1>8. Quiet(a)'
  <2>1. ~InFlight(a)
    BY <1>1, <1>2, <1>4 DEF BarrierInv, FlightBounds
  <2>2. Quiet(a) /\ UNCHANGED <<jobs, live>>
    BY <2>1, QuietIdle DEF dispatch_group, jobVars
  <2> QED BY <1>7, <2>2, QuietSame
<1>9. f \in SendingOf'
  BY <1>6, <1>8 DEF SendingOf
<1>10. SendShape'
  <2>1. Len(stack'["main"]) = 1 /\ Top("main")' = f
    BY <1>7 DEF Top
  <2>2. CASE noact
    <3>1. f \in Frames \ SequentialSends
      BY <1>6, <2>2 DEF SequentialSends
    <3>2. stack'["main"] \in Seq(Frames \ SequentialSends)
      BY <1>7, <3>1
    <3> QED BY <3>2 DEF SendShape, SequentialSends
  <2>3. CASE ~noact
    <3>1. ~done'[a]
      BY <1>2, <1>4, <2>3, Dispatches
    <3>2. f \in SequentialSends
      BY <1>6, <2>3 DEF SequentialSends
    <3> QED BY <1>6, <2>1, <3>1, <3>2 DEF SendShape, SequentialSends
  <2> QED BY <2>2, <2>3
<1> QED BY <1>7, <1>9, <1>10

(* The receiver's stack keeps its shape. *)
LEMMA ShapeNext ==
  ASSUME "handshake" \notin Faults, TypeOK, CallInv, QuietInv, [Next]_vars
  PROVE  ReceiverShape'
<1>1. /\ "main" \in Threads /\ "receiver" \in Threads /\ stack \in [Threads -> Seq(Frames)]
      /\ \A t \in Threads : t = "main" \/ t = "receiver"
      /\ ReceiverShape
  BY DEF Threads, TypeOK, QuietInv
<1>2. CASE stack'["receiver"] = stack["receiver"]
  BY <1>1, <1>2 DEF ReceiverShape
<1>3. ASSUME NEW f \in Frames, f.fn \in Woken, stack["receiver"] = <<>>, Start("receiver", f)
      PROVE  ReceiverShape'
  <2>1. stack'["receiver"] = <<f>> \o <<>>
    BY <1>1, <1>3 DEF Start
  <2>2. stack'["receiver"] = <<f>>
    BY <2>1
  <2> QED BY <1>3, <2>2 DEF ReceiverShape, Shape, Woken, Completing
<1>4. CASE Receive
  <2>1. stack["receiver"] = <<>>
    BY <1>4 DEF Receive, job_starting, job_finished, connection_lost
  <2>2. ASSUME NEW idx \in Actions, job_starting(idx)
        PROVE  ReceiverShape'
    <3>1. Call("before", idx, Unset) \in Frames /\ Call("before", idx, Unset).fn = "before"
      BY StatusType, CallType DEF Fns, CondFns, Call
    <3> QED BY <1>3, <2>1, <2>2, <3>1 DEF job_starting, Woken
  <2>3. ASSUME NEW c \in Actions \X Threads, connection_lost(c)
        PROVE  ReceiverShape'
    <3>1. CallJob("lost", c, Unset) \in Frames /\ CallJob("lost", c, Unset).fn = "lost"
      BY StatusType, CallJobType DEF Fns, CondFns, CallJob, Call
    <3> QED BY <1>3, <2>1, <2>3, <3>1 DEF connection_lost, Woken
  <2>4. ASSUME NEW j \in Actions \X Threads, NEW st \in Replies, job_finished(j, st)
        PROVE  ReceiverShape'
    <3>1. stack'["receiver"] = <<CallJob("callback", j, st), CallJob("pop", j, st)>>
      BY <1>1, <2>4 DEF job_finished
    <3>2. CallJob("callback", j, st).fn = "callback" /\ CallJob("pop", j, st).fn = "pop"
      BY DEF CallJob, Call
    <3>3. PICK f, g : f = CallJob("callback", j, st) /\ g = CallJob("pop", j, st)
      OBVIOUS
    <3>4. stack'["receiver"] = <<f, g>> /\ f.fn = "callback" /\ g.fn = "pop"
      BY <3>1, <3>2, <3>3
    <3> QED BY <3>4 DEF ReceiverShape, Shape, Woken, Completing
  <2> QED BY <1>4, <2>2, <2>3, <2>4 DEF Receive
<1>5. CASE ThreadStep("receiver")
  BY <1>1, <1>5, ReceiverStep
<1>6. CASE ThreadStep("main")
  BY <1>1, <1>2, <1>6, OwnStack
<1>7. CASE dispatch_group
  BY <1>1, <1>2, <1>7 DEF dispatch_group, Start
<1>8. CASE (MainStep /\ ~dispatch_group) \/ UNCHANGED vars
  BY <1>2, <1>8 DEF MainStep, InPhaseStep, next_group, wait_for_group, wait_for_all,
     setAbortInProgress, mark_cant_happen, record_status, server_dispatch_table_disarm,
     ServerFailedEssential, ServerDispatchPhase, LookupStep, phase_lookup, phase_unknown, vars
<1> QED BY <1>1, <1>4, <1>5, <1>6, <1>7, <1>8 DEF Next

(* The main thread's calls happen in the loop that sends a group. *)
LEMMA MainStackNext ==
  ASSUME "handshake" \notin Faults, TypeOK, BarrierInv, CallInv, QuietInv, [Next]_vars
  PROVE  MainEmpty' /\ SendShape' /\ stack'["main"] \in Seq(SendingOf')
<1>1. /\ "main" \in Threads /\ "receiver" \in Threads \ {"main"}
      /\ stack \in [Threads -> Seq(Frames)]
      /\ \A t \in Threads : t = "main" \/ t = "receiver"
      /\ pc # "dispatch" => stack["main"] = <<>>
  BY DEF Threads, TypeOK, QuietInv, MainEmpty
<1>2. CASE ThreadStep("main")
  <2>1. stack["main"] # <<>>
    BY <1>1, <1>2, FitsStep
  <2>2. pc' = pc
    BY <1>1, <1>2, LoopsKept DEF mainVars
  <2> QED BY <1>1, <1>2, <2>1, <2>2, MainStackOwn DEF MainEmpty
<1>3. CASE ~ThreadStep("main") /\ (ThreadStep("receiver") \/ Receive \/ UNCHANGED vars)
  <2>1. stack'["main"] = stack["main"]
    <3>1. CASE Receive
      BY <1>1, <3>1 DEF Receive, job_starting, job_finished, connection_lost, Start
    <3> QED BY <1>1, <1>3, <3>1, OwnStack DEF vars
  <2>2. pc' = pc
    BY <1>1, <1>3, LoopsKept DEF mainVars
  <2>3. MainStep => stack["main"] = <<>> \/ UNCHANGED done
    BY <1>1, <2>2 DEF MainStep, InPhaseStep, dispatch_group, next_group, wait_for_group,
       wait_for_all, setAbortInProgress, mark_cant_happen, record_status,
       server_dispatch_table_disarm, ServerFailedEssential, ServerDispatchPhase,
     LookupStep, phase_lookup, phase_unknown
  <2> QED BY <1>1, <1>3, <2>1, <2>2, <2>3, MainStackSame DEF MainEmpty
<1>4. CASE ~ThreadStep("main") /\ MainStep
  <2>1. stack["main"] = <<>>
    BY <1>1, <1>4 DEF MainStep, InPhaseStep, dispatch_group, next_group, wait_for_group,
       wait_for_all, setAbortInProgress, mark_cant_happen, record_status,
       server_dispatch_table_disarm, ServerFailedEssential, ServerDispatchPhase,
     LookupStep, phase_lookup, phase_unknown
  <2>2. CASE stack'["main"] = stack["main"]
    BY <1>4, <2>1, <2>2, MainStackSame DEF MainEmpty
  <2>3. CASE stack'["main"] # stack["main"]
    <3>1. dispatch_group
      BY <1>4, <2>3 DEF MainStep, InPhaseStep, next_group, wait_for_group,
         wait_for_all, setAbortInProgress, mark_cant_happen, record_status,
         server_dispatch_table_disarm, ServerFailedEssential, ServerDispatchPhase,
     LookupStep, phase_lookup, phase_unknown
    <3>2. pc' = "dispatch"
      BY <2>3, <3>1 DEF dispatch_group
    <3> QED BY <2>3, <3>1, <3>2, MainStackGroup DEF MainEmpty
  <2> QED BY <2>2, <2>3
<1> QED BY <1>1, <1>2, <1>3, <1>4 DEF Next

(* Late callbacks: the invariant holds in every reachable state. *)
LEMMA QuietNext ==
  ASSUME "handshake" \notin Faults
  PROVE  TypeOK /\ BarrierInv /\ CallInv /\ PhaseInv /\ QuietInv /\ [Next]_vars => QuietInv'
<1> SUFFICES ASSUME TypeOK, BarrierInv, CallInv, PhaseInv, QuietInv, [Next]_vars
             PROVE  QuietInv'
  OBVIOUS
<1>1. MainEmpty' /\ ReceiverShape' /\ SendShape' /\ stack'["main"] \in Seq(SendingOf')
  BY MainStackNext, ShapeNext
<1>2. ASSUME NEW a \in Actions \ Conditional
      PROVE  /\ done'[a] => Quiet(a)'
             /\ ToppedBy(Completing, a)' => OnlyToPop(a)'
             /\ ToppedBy({"complete"}, a)' => NoLive(a)'
  <2>1. ToppedBy({"complete"}, a)' => ToppedBy(Completing, a)'
    BY DEF ToppedBy, Completing
  <2> QED BY <2>1, QuietDone, QuietCalls
<1> QED BY <1>1, <1>2 DEF QuietInv

LEMMA QuietInit == Init => QuietInv
<1> SUFFICES ASSUME Init PROVE QuietInv
  OBVIOUS
<1>1. /\ stack["main"] = <<>> /\ stack["receiver"] = <<>> /\ pc = "idle"
      /\ \A a \in Actions : ~done[a]
  BY DEF Init, Threads
<1>2. MainEmpty /\ ReceiverShape
  BY <1>1 DEF MainEmpty, ReceiverShape, Shape
<1>3. SendShape /\ stack["main"] \in Seq(SendingOf)
  BY <1>1, EmptySeq DEF SendShape
<1> QED BY <1>1, <1>2, <1>3 DEF QuietInv, ToppedBy

(* A recorded status stays, until the next DISPATCH/PHASE, the status of    *)
(* the action: nothing that is still on its way completes the action again. *)
Held(a) == recorded[a] /\ nci[a] = status[a]

LEMMA HeldKept ==
  ASSUME TypeOK, CallInv, QuietInv, pc \in {"idle", "record_s"}, [Next]_vars,
         NEW a \in Actions \ Conditional, done[a], Held(a)
  PROVE  Held(a)'
<1>1. /\ "main" \in Threads /\ "receiver" \in Threads /\ stack["main"] = <<>> /\ Quiet(a)
      /\ \A t \in Threads : t = "main" \/ t = "receiver"
  BY DEF Threads, QuietInv, MainEmpty
<1>2. ASSUME Same(a), nci' = nci PROVE Held(a)'
  BY <1>2 DEF Same, Held
<1>3. CASE \E t \in Threads : ThreadStep(t)
  <2>1. ThreadStep("receiver") /\ stack["receiver"] # <<>>
    BY <1>1, <1>3, FitsStep
  <2>2. PICK f \in Frames : f = Top("receiver") /\ Fits("receiver", f)
    BY <1>1, <2>1, TopFits DEF CallInv
  <2>3. ~(f.fn \in {"callback", "complete"} /\ f.idx = a)
    BY <1>1, <2>1, <2>2 DEF Quiet, ToppedBy, Completing
  <2>4. ~(f.fn \in {"fail", "notdisp", "invdep"} /\ f.idx = a)
    BY <2>2 DEF Fits, Frames, CondFns
  <2>5. Same(a)
    BY <1>1, <2>1, <2>2, <2>3, <2>4, ThreadTable DEF At
  <2>6. nci' = nci
    BY <1>3, LoopsKept DEF mainVars
  <2> QED BY <1>2, <2>5, <2>6
<1>4. CASE Receive \/ UNCHANGED vars
  BY <1>2, <1>4, OtherTable, LoopsKept DEF mainVars
<1>5. CASE record_status
  <2>1. /\ UNCHANGED status
        /\ nci'[a] = nci[a]
        /\ i \in Actions \/ UNCHANGED recorded
    BY <1>5, RecordStep DEF Held
  <2>2. recorded'[a]
    <3>1. MainStep
      BY <1>5 DEF MainStep, InPhaseStep
    <3> QED BY <3>1, MainTable DEF Held, Same, Completed, record_status, dispatch_group
  <2> QED BY <2>1, <2>2 DEF Held
<1>6. CASE MainStep /\ ~record_status
  <2>1. UNCHANGED <<actionVars, nci>>
    BY <1>6 DEF MainStep, InPhaseStep, dispatch_group, next_group, wait_for_group,
       wait_for_all, setAbortInProgress, mark_cant_happen,
       server_dispatch_table_disarm, ServerFailedEssential, ServerDispatchPhase,
     LookupStep, phase_lookup, phase_unknown
  <2> QED BY <1>2, <2>1 DEF actionVars, Same
<1> QED BY <1>3, <1>4, <1>5, <1>6 DEF Next

LEMMA RecordedNext ==
  ASSUME TypeOK, BarrierInv, CallInv, PhaseInv, QuietInv, RecordedInv, [Next]_vars
  PROVE  RecordedInv'
<1>0. /\ num \in Nat /\ i \in Nat
      /\ ~Outside => curPhase # 0
  BY TableType DEF TypeOK, PhaseInv, RangeInv
(* What record_status has been at stays recorded. *)
<1>1. ASSUME pc \in {"idle", "record_s"}, curPhase # 0
      PROVE  /\ first_s \in Nat /\ last_s \in Nat
             /\ \A a \in first_s .. last_s - 1 : /\ a \in Actions \ Conditional
                                                 /\ a \in InPhase(curPhase) \ Conditional
                                                 /\ done[a]
                                                 /\ Held(a) => Held(a)'
  <2>1. /\ first_s \in 0 .. num /\ last_s \in 0 .. num
        /\ first_s .. last_s - 1 = InPhase(curPhase) \ Conditional
    BY <1>1, RangesOf DEF PhaseInv
  <2>2. \A a \in first_s .. last_s - 1 : a \in Actions \ Conditional /\ done[a]
    BY <1>1, <2>1, PhaseDone DEF PhaseInv
  <2> QED BY <1>0, <1>1, <2>1, <2>2, HeldKept
<1>2. CASE UNCHANGED <<pc, i, curPhase, noact, first_s, last_s>>
  <2>1. ASSUME pc = "record_s" PROVE \A a \in first_s .. i - 1 : Held(a)'
    <3>1. i \in first_s .. last_s /\ curPhase # 0
      BY <1>0, <2>1 DEF PhaseInv, VisitedInv, Outside
    <3> QED BY <1>0, <1>1, <2>1, <3>1 DEF RecordedInv, Held
  <2>2. ASSUME pc = "idle", curPhase # 0, ~noact PROVE \A a \in first_s .. last_s - 1 : Held(a)'
    BY <1>1, <2>2 DEF RecordedInv, Held
  <2> QED BY <1>2, <2>1, <2>2 DEF RecordedInv, Held
<1>3. CASE record_status
  <2> DEFINE last == IF pc = "record_c" THEN last_c ELSE last_s
  <2>1. /\ pc \in {"record_c", "record_s"}
        /\ UNCHANGED <<curPhase, noact, first_s, last_s, done, status>>
        /\ \/ /\ i < last /\ i' = i + 1 /\ pc' = pc
              /\ done[i] /\ ~recorded[i] => nci'[i] = status[i] /\ recorded'[i]
           \/ i >= last /\ i' = first_s /\ pc' = IF pc = "record_c" THEN "record_s" ELSE "idle"
    BY <1>3, RecordStep DEF rangeVars
  <2>2. curPhase # 0 /\ ~noact
    BY <1>0, <2>1 DEF RecordedInv, Outside
  <2>3. CASE pc = "record_c"
    <3>1. first_s \in Nat
      BY <2>2, RangesOf DEF PhaseInv
    <3>2. ~(pc' = "idle") /\ (pc' = "record_s" => i' = first_s)
      BY <2>1, <2>3
    <3>3. \A a \in first_s .. first_s - 1 : FALSE
      BY <3>1
    <3> QED BY <2>1, <2>2, <3>2, <3>3 DEF RecordedInv
  <2>4. CASE pc = "record_s"
    <3>1. i \in first_s .. last_s /\ first_s \in Nat /\ last_s \in Nat
      BY <1>1, <2>2, <2>4 DEF PhaseInv, VisitedInv
    <3>2. \A a \in first_s .. i - 1 : Held(a)'
      BY <1>0, <1>1, <2>2, <2>4, <3>1 DEF RecordedInv, Held
    <3>3. CASE i < last_s
      <4>1. i' = i + 1 /\ pc' = pc
            /\ (done[i] /\ ~recorded[i] => nci'[i] = status[i] /\ recorded'[i])
        BY <2>1, <2>4, <3>1, <3>3
      <4>2. i \in InPhase(curPhase) \ Conditional /\ i \in Actions /\ done[i]
        BY <1>1, <2>2, <2>4, <3>1, <3>3
      <4>3. ~recorded[i]
        <5>1. i < num /\ PassedAt(i)
          BY <1>0, <2>2, <4>2 DEF PhaseInv, PassedInv, Actions
        <5> QED BY <1>0, <2>4, <4>2, <5>1 DEF PassedAt, Reached, Outside
      <4>4. recorded'[i] /\ nci'[i] = status'[i]
        BY <2>1, <4>1, <4>2, <4>3
      <4>5. \A a \in first_s .. i' - 1 : recorded'[a] /\ nci'[a] = status'[a]
        BY <1>0, <3>1, <3>2, <4>1, <4>4 DEF Held
      <4> QED BY <2>1, <2>2, <2>4, <4>1, <4>5 DEF RecordedInv
    <3>4. CASE i >= last_s
      <4>1. pc' = "idle" /\ i = last_s
        BY <1>0, <2>1, <2>4, <3>1, <3>4
      <4>2. \A a \in first_s .. last_s - 1 : recorded'[a] /\ nci'[a] = status'[a]
        BY <3>2, <4>1 DEF Held
      <4> QED BY <2>1, <2>2, <4>1, <4>2 DEF RecordedInv
    <3> QED BY <1>0, <3>1, <3>3, <3>4
  <2> QED BY <2>1, <2>3, <2>4
<1>4. CASE mark_cant_happen /\ ~UNCHANGED pc
  BY <1>4 DEF mark_cant_happen, rangeVars, RecordedInv
<1>5. CASE pc' \notin {"idle", "record_c", "record_s"}
  BY <1>5 DEF RecordedInv
<1>6. CASE (\E t \in Threads : ThreadStep(t)) \/ Receive \/ UNCHANGED vars
  BY <1>2, <1>6, LoopsKept DEF mainVars, rangeVars
<1>7. CASE MainStep /\ ~record_status
  <2>1. CASE server_dispatch_table_disarm \/ ServerFailedEssential
    BY <1>2, <2>1 DEF server_dispatch_table_disarm, ServerFailedEssential, rangeVars
  <2>2. CASE ServerDispatchPhase \/ \E p \in Phases, s \in Syncs, n \in NoActs : phase_lookup(p, s, n)
    BY <1>5, <2>2 DEF ServerDispatchPhase, phase_lookup
  <2>5. CASE \E n \in NoActs : phase_unknown(n)
    BY <2>5 DEF phase_unknown, RecordedInv
  <2>3. CASE next_group \/ dispatch_group \/ wait_for_group \/ wait_for_all \/ setAbortInProgress
    BY <1>5, <2>3 DEF next_group, dispatch_group, wait_for_group, wait_for_all,
       setAbortInProgress, check_actions_done
  <2>4. CASE mark_cant_happen
    BY <1>4, <1>5, <2>4 DEF mark_cant_happen
  <2> QED BY <1>7, <2>1, <2>2, <2>3, <2>4, <2>5 DEF MainStep, LookupStep, InPhaseStep
<1> QED BY <1>3, <1>6, <1>7 DEF Next

(***************************************************************************)
(* ServerDispatchPhase reports the truth (PhaseReport): when it returned,    *)
(* every sequential action of the phase is done, and the status record_status *)
(* stored in the tree is the action's status, and remains so until the next *)
(* DISPATCH/PHASE whatever replies, lost connections and failed connects    *)
(* come in between.  The hypothesis is needed: with one action and a        *)
(* handshake that fails after its reply was sent, the status recorded in    *)
(* the tree is overwritten by that of the handshake.                        *)
(***************************************************************************)
THEOREM ReportTrue ==
  ASSUME "handshake" \notin Faults
  PROVE  Spec => []PhaseReport
<1> DEFINE Inv == /\ TypeOK /\ BarrierInv /\ CallInv /\ PhaseInv
                  /\ QuietInv /\ RecordedInv
<1>1. Init => Inv
  <2>1. Init => RecordedInv
    BY DEF Init, RecordedInv
  <2> QED BY <2>1, TypeInit, BarrierInit, CallInit, PhaseInit, QuietInit
<1>2. Inv /\ [Next]_vars => Inv'
  BY TypeNext, BarrierNext, CallNext, PhaseNext, QuietNext, RecordedNext
<1>3. Inv => PhaseReport
  <2> SUFFICES ASSUME Inv, pc = "idle", curPhase # 0, NEW a \in InPhase(curPhase) \ Conditional
               PROVE  done[a] /\ (noact \/ (recorded[a] /\ nci[a] = status[a]))
    BY DEF PhaseReport
  <2>1. done[a]
    BY PhaseDone DEF PhaseInv
  <2>2. a \in first_s .. last_s - 1
    BY RangesOf DEF PhaseInv
  <2> QED BY <2>1, <2>2 DEF RecordedInv
<1> QED BY <1>1, <1>2, <1>3, PTL DEF Spec
================================================================================
