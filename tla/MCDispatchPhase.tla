--------------------------- MODULE MCDispatchPhase ---------------------------
(***************************************************************************)
(* Small dispatch tables for model checking DispatchPhase.  A row of a table *)
(* is an action: its phase, its sequence (0: conditional), the kind of its  *)
(* condition, the indices the condition names, and its server.              *)
(***************************************************************************)
EXTENDS DispatchPhase, FiniteSets, SequencesExt

Row(p, s, kind, refs, srv) == [phase |-> p, sequence |-> s, when |-> kind, refs |-> refs, server |-> srv]
Seqn(p, s, srv) == Row(p, s, "", {}, srv)
Cond(p, kind, refs, srv) == Row(p, 0, kind, refs, srv)

(* Two groups on two servers; a condition on the first action, and one on   *)
(* that which cannot be evaluated.                                          *)
Chain == <<Cond(1, "same", {2}, "s1"), Cond(1, "invalid", {0}, "s2"),
           Seqn(1, 1, "s1"), Seqn(1, 2, "s2")>>

(* Conditions of a phase that is dispatched after, or between, two runs of  *)
(* the phase their references are in.                                       *)
Across == <<Seqn(1, 1, "s1"), Seqn(1, 2, "s2"),
            Cond(2, "same", {0}, "s1"), Cond(2, "any", {0, 2}, "s2")>>

(* A conjunction over two groups, followed by a third group. *)
Conjunction == <<Cond(1, "all", {1, 2}, "s1"), Seqn(1, 1, "s1"), Seqn(1, 2, "s1"), Seqn(1, 3, "s1")>>

(* A condition on one of two actions that are sent to a server together. *)
Together == <<Cond(1, "all", {1}, "s1"), Seqn(1, 1, "s1"), Seqn(1, 1, "s1")>>

CONSTANT Table

Rows == 0 .. Len(Table) - 1
RowOf(a) == Table[a + 1]

MCnum == Len(Table)
MCphase == [a \in Rows |-> RowOf(a).phase]
MCsequence == [a \in Rows |-> RowOf(a).sequence]
MCConditional == {a \in Rows : RowOf(a).when # ""}
MCreferenced_by ==
  [a \in Rows |-> SetToSortSeq({c \in Rows : a \in RowOf(c).refs}, <)]
MCwhen == [c \in MCConditional |-> RowOf(c).when]
MCserver == [a \in Rows |-> RowOf(a).server]
MCEssential == {a \in Rows : a % 2 = 0}
MCPhases == {RowOf(a).phase : a \in Rows}
=============================================================================
