------------------------------ MODULE MCControl ------------------------------
(* Control with one remote action of each kind that changes something. It   *)
(* takes the stop of an adapter for one step that leaves nothing driven, as *)
(* SafetyStop does; that asks something of every adapter.                   *)
EXTENDS Control, TLC

CONSTANTS restart, reset, video

TheKinds ==
  (restart :> "restart_control" @@ reset :> "reset_safety" @@ video :> "restart_video")

LOCAL Contract == INSTANCE AdapterContract
LOCAL Repository == INSTANCE DriverTable

ASSUME EveryAdapterHonoursTheContract ==
  \A d \in DOMAIN Repository!Catalogue : Contract!HonoursContract(Repository!Catalogue[d])
==============================================================================
