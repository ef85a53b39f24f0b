----------------------------- MODULE Snapshots -----------------------------
(***************************************************************************)
(* What revertible state promises the code that runs on it: a stack of     *)
(* whole states, the last of which is the current one.  Opening a frame    *)
(* keeps the state it began with, a failed frame brings back exactly that, *)
(* and a successful one hands its state to the frame below.  A failed      *)
(* frame cannot hand its state on, nor a successful one lose it.  Both     *)
(* virtual machines' state handling implements it: StackVM.tla by chained  *)
(* scopes, Journal.tla by an undo log.                                     *)
(***************************************************************************)
EXTENDS Integers, Sequences

VARIABLES
    stack,
    ok      \* whether the code that ended last has succeeded

Opened == stack # <<>>

kept(n) == SubSeq(stack, 1, n)

(* The current state changes, those kept do not; what runs without a frame *)
(* and fails changes nothing.                                              *)
Write ==
    /\ Len(stack') = Len(stack)
    /\ SubSeq(stack', 1, Len(stack) - 1) = kept(Len(stack) - 1)
    /\ Len(stack) = 1 /\ ~ok' => stack' = stack

(* A frame is opened; its first writes may come with it.                   *)
Enter ==
    /\ Len(stack') = Len(stack) + 1
    /\ SubSeq(stack', 1, Len(stack)) = stack

(* A frame succeeds, and the state it began with is given up.              *)
Commit ==
    /\ ok'
    /\ Len(stack) > 1
    /\ stack' = Append(kept(Len(stack) - 2), stack[Len(stack)])

(* One frame or several fail.                                              *)
Revert ==
    /\ ~ok'
    /\ \E k \in 1..(Len(stack) - 1) : stack' = kept(k)

SnapshotsSpec == Opened /\ [][Write \/ Enter \/ Commit \/ Revert]_<<stack, ok>>
=============================================================================
