----------------------------- MODULE ActionTable -----------------------------
(***************************************************************************)
(* The dispatch table as ServerBuildDispatchTable leaves it: the ActionInfo *)
(* fields that never change while phases are dispatched, and the look-ups   *)
(* ServerDispatchPhase makes in it.  The entries are indexed 0 .. num-1, as *)
(* in the code.                                                             *)
(***************************************************************************)
EXTENDS Integers, Sequences

CONSTANTS
  num,            \* table->num: the actions that are on
  phase,          \* phase[i], a number of PHASE_NUMBER_LOOKUP or 0x1000000x
  sequence,       \* sequence[i], 0 for a conditional action
  Conditional,    \* the actions whose condition is not NULL
  referenced_by,  \* referenced_by[i]: the conditional actions that name i
  when,           \* when[c]: the kind of expression of a conditional action
  server,         \* server[i]: the action server i is sent to
  Essential       \* the actions whose node has NciM_ESSENTIAL set

Actions == 0 .. num - 1

(***************************************************************************)
(* The phase numbers PHASE_NUMBER_LOOKUP knows; every other phase number in *)
(* the table is one of the 0x1000000x marks of an action that is not to be  *)
(* dispatched.                                                              *)
(***************************************************************************)
CONSTANT Phases

WhenKinds == {"same", "all", "any", "invalid"}

ASSUME TableType ==
  /\ num \in Nat
  /\ phase \in [Actions -> Int]
  /\ sequence \in [Actions -> Int]
  /\ Conditional \subseteq Actions
  /\ referenced_by \in [Actions -> Seq(Conditional)]
  /\ when \in [Conditional -> WhenKinds]
  /\ Essential \subseteq Actions
  /\ Phases \subseteq Nat \ {0}
  /\ DOMAIN server = Actions

(***************************************************************************)
(* What qsort with compare_actions and the reading of the WHEN field leave  *)
(* in a phase that can be dispatched: conditional actions have sequence 0   *)
(* and come first, the others have a positive sequence and follow in order. *)
(***************************************************************************)
ASSUME TableSorted ==
  /\ \A i, j \in Actions :
       i < j => \/ phase[i] < phase[j]
                \/ phase[i] = phase[j] /\ sequence[i] <= sequence[j]
  /\ \A i \in Conditional : sequence[i] = 0
  /\ \A i \in Actions \ Conditional : phase[i] \in Phases => sequence[i] > 0

InPhase(p) == {i \in Actions : phase[i] = p}

(***************************************************************************)
(* FIND_NEXT_ACTION(START, END, CONDITION): the first index from START on   *)
(* that meets the condition, or END.                                        *)
(***************************************************************************)
FIND_NEXT_ACTION(start, end, Cond) ==
  CHOOSE i \in start .. end :
    /\ i = end \/ i \in Cond
    /\ \A j \in start .. i - 1 : j \notin Cond

(***************************************************************************)
(* set_action_ranges: the conditional actions of the phase are              *)
(* first_c .. last_c-1 and the sequential ones first_s .. last_s-1.         *)
(***************************************************************************)
set_action_ranges(p) ==
  LET i0 == FIND_NEXT_ACTION(0, num, InPhase(p))
      hasCond == i0 \in Conditional
      i1 == IF hasCond
              THEN FIND_NEXT_ACTION(i0 + 1, num,
                                    Actions \ (InPhase(p) \cap Conditional))
              ELSE i0
      hasSeq == i1 \in InPhase(p)
  IN  [first_c |-> IF hasCond THEN i0 ELSE num,
       last_c  |-> IF hasCond THEN i1 ELSE num,
       first_s |-> IF hasSeq THEN i1 ELSE num,
       last_s  |-> IF hasSeq
                     THEN FIND_NEXT_ACTION(i1 + 1, num, Actions \ InPhase(p))
                     ELSE num]

(***************************************************************************)
(* set_group: the group that starts at first_g ends before the first action *)
(* whose sequence, divided by SYNCH, differs.                               *)
(***************************************************************************)
Group(i, sync) == sequence[i] \div (IF sync < 1 THEN 1 ELSE sync)

set_group(sync, first_g, last_s) ==
  FIND_NEXT_ACTION(first_g + 1, last_s,
                   {i \in Actions : Group(i, sync) # Group(first_g, sync)})

(***************************************************************************)
(* Completion statuses.  A status is a success when its low bit is set.     *)
(***************************************************************************)
Unset          == 0    \* calloc
SUCCESS        == 1
FAILED         == 2    \* any failure an action server reports
NOT_DISPATCHED == 4
CANT_HAPPEN    == 6
INVALID_DEPENDENCY == 8
PATH_DOWN      == 10
Statuses == {Unset, SUCCESS, FAILED, NOT_DISPATCHED, CANT_HAPPEN,
             INVALID_DEPENDENCY, PATH_DOWN}

IS_OK(st) == st % 2 = 1

(***************************************************************************)
(* The actions the condition of c names: if_add_reference put c in their    *)
(* referenced_by lists.                                                     *)
(***************************************************************************)
Refs(c) == {d \in Actions : \E k \in DOMAIN referenced_by[d] : referenced_by[d][k] = c}

UNKNOWN_VAR == -1   \* the variable still holds _$_$_$_UNDEFINED
INVALID     == -2   \* any other error of the evaluation

(* Mutant of TdiGetLong: an undefined variable counts as a failure. *)
TdiGetLong_no_unknown(c, var) ==
  LET good == {d \in Refs(c) : var[d] # UNKNOWN_VAR /\ IS_OK(var[d])} IN
  IF good = {} THEN 0 ELSE 1

(***************************************************************************)
(* TdiGetLong(actions[c].condition, &doit), given the values of the public  *)
(* variables _ACTION_nid: UNKNOWN_VAR while one of them is undefined, else  *)
(* the number the expression yields ("same" is an expression that is just   *)
(* the name of another action).                                             *)
(***************************************************************************)
TdiGetLong(c, var) ==
  LET R == Refs(c)
      bool(b) == IF b THEN 1 ELSE 0
  IN  IF \E d \in R : var[d] = UNKNOWN_VAR THEN UNKNOWN_VAR
      ELSE CASE when[c] = "invalid" -> INVALID
             [] when[c] = "same"    -> var[CHOOSE d \in R : TRUE]
             [] when[c] = "all"     -> bool(\A d \in R : IS_OK(var[d]))
             [] OTHER               -> bool(\E d \in R : IS_OK(var[d]))
=============================================================================
