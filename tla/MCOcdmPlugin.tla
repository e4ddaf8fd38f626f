------------------------------ MODULE MCOcdmPlugin ------------------------------
(***************************************************************************)
(* Two CDMs on disk.  In the first configuration each has designators of   *)
(* its own; in the second both claim one, the first is configured twice,   *)
(* the second time with an empty list of designators, and an entry has no  *)
(* such list.                                                              *)
(***************************************************************************)
EXTENDS OcdmPlugin, TLC

CONSTANTS f1, f2, d1, d2, d3, c1

MCSystemName == (f1 :> "widevine") @@ (f2 :> "playready")

Configured(name, ds) == [name |-> name, isSet |-> TRUE, designators |-> ds]
Unset(name) == [name |-> name, isSet |-> FALSE, designators |-> {}]

MCConfigurations ==
    { <<Configured("widevine", {d1, d2}), Configured("playready", {d3})>>,
      <<Configured("widevine", {d1, d2}), Unset("playready"),
        Configured("playready", {d2, d3}), Configured("widevine", {})>> }
=============================================================================
