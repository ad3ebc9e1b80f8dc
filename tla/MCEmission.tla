----------------------------- MODULE MCEmission -----------------------------
(* A small instance of Emission for TLC. *)
EXTENDS EmissionProperties, TLC

CONSTANTS app, web, greeting, farewell, home, shop

TwoTargets == <<app, web>>
TwoKeys == {greeting, farewell}
TwoSources == {home, shop}

Places == greeting :> 1 @@ farewell :> 2 @@ home :> 3 @@ shop :> 4

\* A valid catalog, and one with a text changed and another invalid.
SmallCatalogs ==
    {greeting :> "one" @@ farewell :> "one",
     greeting :> "two" @@ farewell :> "invalid"}
\* The use of a message moves from one source to the other.
SmallUses ==
    {home :> {greeting} @@ shop :> {},
     home :> {} @@ shop :> TwoKeys}
=============================================================================
