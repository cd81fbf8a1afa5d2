------------------------ MODULE MCEventSubscription ------------------------
(* Instances of EventSubscription for TLC.                                 *)
EXTENDS EventSubscription

MCFilters == {{"block"}, {"block", "chat"}}
=============================================================================
