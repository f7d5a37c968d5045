--------------------------- MODULE MCLaunchSession --------------------------
(* Instances of LaunchSession for TLC.                                     *)
EXTENDS LaunchSession

CONSTANTS s1, s2

GamePrints == {"boot", "retry"}
GamePrintsAnything == AllLines
GameSpeaks == {"boot"}
EndsAnyhow == {"zero", "nonzero", "signal"}
EndsBadly == {"nonzero"}
NoRequests == {}
OnlyStops == {"stop"}
OnlyEdits == {"edit"}
StopsAndEdits == {"stop", "edit"}
=============================================================================
