------------------------------ MODULE BundleOrder ------------------------------
(***************************************************************************)
(* What the fetch stage promises to the rest of the core: bundles are      *)
(* offered in program order, a jump accepted with one bundle redirects     *)
(* the order after the NEXT one (its delay slot), and there is no empty    *)
(* cycle but after reset and in front of a target that is not aligned to   *)
(* a 64-bit word.                                                          *)
(***************************************************************************)
EXTENDS ProgAddr

VARIABLES
  next,       \* address of the bundle that issues next
  redirect,   \* target of an accepted jump, or NoJump
  shown       \* the halfwords offered to the decoder, or Bubble

orderVars == <<next, redirect, shown>>

OrderInit ==
  /\ next = 0
  /\ redirect = NoJump
  /\ shown = Bubble

(* An empty cycle leaves the order alone.                                  *)
EmptyCycle ==
  /\ shown = Bubble
  /\ shown' \in {Bubble, BundleAt(next)}
  /\ UNCHANGED <<next, redirect>>

(* The bundle shown issues and, unless a jump is pending, its successor    *)
(* is shown at once; with it a new jump may be accepted.                   *)
Issue ==
  /\ shown = BundleAt(next)
  /\ redirect = NoJump
  /\ \E len \in Lengths : next' = Plus(next, len)
  /\ redirect' \in Addr \cup {NoJump}
  /\ shown' = BundleAt(next')

(* The delay slot issues; the target follows.                              *)
IssueDelaySlot ==
  /\ shown = BundleAt(next)
  /\ redirect # NoJump
  /\ next' = redirect
  /\ redirect' = NoJump
  /\ shown' = IF Offset(redirect) = 0 THEN BundleAt(redirect) ELSE Bubble

OrderNext == EmptyCycle \/ Issue \/ IssueDelaySlot

OrderSpec == OrderInit /\ [][OrderNext]_orderVars
=============================================================================
