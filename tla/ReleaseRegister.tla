-------------------------- MODULE ReleaseRegister --------------------------
(***************************************************************************)
(* What the chunk store promises about releases, without rows, chunks or   *)
(* transactions: a register that serves one pointer at a time, with a      *)
(* floor under which nothing is served again and one release pinned at     *)
(* that floor, until an explicit reset.                                    *)
(***************************************************************************)
EXTENDS Integers

CONSTANTS
    Pointers,
    Identity(_),    \* tells two releases apart
    null

VARIABLES
    floor,      \* the highest sequence accepted since the last reset
    pinned,     \* the identity that may be served at the floor, or null
    served      \* the pointer a reader is given, or null

vars == <<floor, pinned, served>>

Init == floor = -1 /\ pinned = null /\ served = null

(* The floor rises and pins another release, or it stays and its release is
   kept or forgotten, never replaced.  Nothing is pinned below sequence 0. *)
FloorHolds ==
    \/ floor' > floor
    \/ /\ floor' = floor
       /\ floor >= 0 => pinned' \in {pinned, null}

(* A reader is given a release above the floor, or the one pinned at it. *)
Serve ==
    /\ FloorHolds
    /\ served' \in Pointers
    /\ \/ served'.sequence > floor'
       \/ /\ served'.sequence = floor'
          /\ floor' >= 0 => Identity(served') = pinned'

(* A reader is given nothing: the pointer was withdrawn, or damaged. *)
Withdraw ==
    /\ FloorHolds
    /\ served' = null

(* The explicit reset is the only way down. *)
Reset ==
    /\ floor' = -1
    /\ pinned' = null
    /\ served' = null

Next == Serve \/ Withdraw \/ Reset

Spec == Init /\ [][Next]_vars
=============================================================================
