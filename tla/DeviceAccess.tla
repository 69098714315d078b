---------------------------- MODULE DeviceAccess ----------------------------
(***************************************************************************)
(* The life of a device: a machine is paired, its daemon connects with the *)
(* token the pairing left in client.json, and the user may revoke it.  The *)
(* two components share the table of tokens and that file; a machine may   *)
(* be paired again while its daemon still runs with the former token.      *)
(***************************************************************************)
EXTENDS Pairing, DeviceRegistry

vars == <<tokens, saved, pairingVars, registryVars>>

Init == PairingInit /\ RegistryInit

Next ==
    \/ PairingNext /\ UNCHANGED registryVars
    \/ RegistryNext /\ UNCHANGED pairingVars

Spec == Init /\ [][Next]_vars

FairSpec == Spec /\ PairingFairness /\ RegistryFairness

-----------------------------------------------------------------------------
\* Every variable of both has its type.
TypeOK == PairingTypeOK /\ RegistryTypeOK
=============================================================================
