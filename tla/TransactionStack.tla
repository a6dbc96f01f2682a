--------------------------- MODULE TransactionStack ---------------------------
(***************************************************************************)
(* What nested storage transactions promise, without versions or dirty     *)
(* sets: a stack of complete views of the changes.  Level 1 is what is     *)
(* committed, each open transaction has a level on top of it, and only the *)
(* topmost level is ever written or read.                                  *)
(***************************************************************************)
EXTENDS Integers, Sequences

CONSTANTS
  Location,   \* what can be written
  Content,    \* what a location can be given
  Untouched   \* the content of a location that was never written

VARIABLES
  levels,     \* the views, the innermost transaction last
  protected,  \* how many transactions the runtime may not close
  in_runtime  \* whether the runtime is executing

stack == <<levels, protected, in_runtime>>

Blank == [l \in Location |-> Untouched]

Depth == Len(levels) - 1

StackInit ==
  /\ levels = <<Blank>>
  /\ protected = 0
  /\ in_runtime = FALSE

\* Some locations get a content, in the innermost transaction only.
Assign ==
  /\ levels' = [levels EXCEPT ![Len(levels)] = levels'[Len(levels)]]
  /\ \E c \in Content :
       \A l \in Location : levels'[Len(levels)][l] \in {levels[Len(levels)][l], c}
  /\ UNCHANGED <<protected, in_runtime>>

Begin ==
  /\ levels' = Append(levels, levels[Len(levels)])
  /\ UNCHANGED <<protected, in_runtime>>

MayClose == Depth > (IF in_runtime THEN protected ELSE 0)

\* The view of the innermost transaction becomes that of the one around it.
Commit ==
  /\ MayClose
  /\ levels' = Append(SubSeq(levels, 1, Len(levels) - 2), levels[Len(levels)])
  /\ UNCHANGED <<protected, in_runtime>>

\* The view of the transaction around it is back, exactly as it was.
Rollback ==
  /\ MayClose
  /\ levels' = SubSeq(levels, 1, Len(levels) - 1)
  /\ UNCHANGED <<protected, in_runtime>>

Enter ==
  /\ ~in_runtime
  /\ in_runtime' = TRUE
  /\ protected' = Depth
  /\ UNCHANGED levels

\* Whatever the runtime did not close is rolled back.
Exit ==
  /\ in_runtime
  /\ in_runtime' = FALSE
  /\ levels' = SubSeq(levels, 1, protected + 1)
  /\ UNCHANGED protected

\* The committed changes are taken away, with no transaction open.
Drain ==
  /\ Depth = 0
  /\ levels' = <<Blank>>
  /\ protected' = 0
  /\ in_runtime' = FALSE

StackNext ==
  Begin \/ Commit \/ Rollback \/ Enter \/ Exit \/ Drain \/ Assign

StackSpec == StackInit /\ [][StackNext]_stack
=============================================================================
