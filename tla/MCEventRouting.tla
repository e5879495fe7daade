--------------------------- MODULE MCEventRouting ---------------------------
(* An instance of EventRouting for TLC: lamp is paired with hub h1 and shared *)
(* with h2, whose number for it is the canonical id of plug.                  *)
EXTENDS EventRouting, TLC

CONSTANTS h1, h2, lamp, plug
MCOwner == (lamp :> h1) @@ (plug :> h2)
MCMesh == (lamp :> {h1, h2}) @@ (plug :> {h2})
MCAlias == (h1 :> [d \in Devices |-> NoDevice])
           @@ (h2 :> ((lamp :> plug) @@ (plug :> NoDevice)))
MCSelected == {lamp, plug}
MCSelections == {{lamp, plug}, {plug}}
=============================================================================
