------------------------------ MODULE GateBase ------------------------------
(***************************************************************************)
(* What the two gates before a prompt share: the agent sessions, and the   *)
(* server's clock, Date.now(), which the expiry of a sign-in and the rate  *)
(* limit of prompts read.                                                  *)
(***************************************************************************)
EXTENDS Integers

CONSTANTS
    Sess,          \* agent sessions
    MaxTime        \* the clock stops here

ASSUME ClockAssumption == MaxTime \in Nat

VARIABLE now

Tick == now < MaxTime /\ now' = now + 1
=============================================================================
