----------------------------- MODULE MCLocalHost -----------------------------
(* Small instances of LocalHost for TLC. *)
EXTENDS LocalHostProperties, TLC

CONSTANTS alice, bob

\* bob may only confirm; then he is dropped, and alice loses initialization.
Everything == (alice :> Action) @@ (bob :> {"resolve-identity"})
Reduced == alice :> (Action \ {"initialize-registry"})
Tables == {Everything, Reduced}
=============================================================================
