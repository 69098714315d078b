---------------------------- MODULE DeviceTokens ----------------------------
(***************************************************************************)
(* What the pairing of a machine and the registry of connected devices     *)
(* share: the table device_tokens of the server's database and the token   *)
(* in each machine's client.json.  A token stands for its row's id, which  *)
(* is also the id of the device.                                           *)
(***************************************************************************)
EXTENDS Integers, FiniteSets

CONSTANTS
    Machine,       \* machines of the user
    MaxTokens      \* tokens the server may mint

ASSUME TokensAssumption == MaxTokens \in Nat

Token   == 1..MaxTokens
NoToken == 0

VARIABLES
    tokens,        \* the rows of device_tokens
    saved          \* saved[m]: the token in client.json of machine m

TokensInit ==
    /\ tokens = {}
    /\ saved = [m \in Machine |-> NoToken]
=============================================================================
