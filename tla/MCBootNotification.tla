------------------------ MODULE MCBootNotification ------------------------
(* A station that boots twice, under two system configurations.           *)
EXTENDS BootNotification

Config(unknown, baseReport, accept, withRejected) ==
    [unknownChargerStatus |-> unknown, getBaseReportOnPending |-> baseReport,
     autoAccept |-> accept, bootWithRejectedVariables |-> withRejected]

MCConfigs == {Config("Pending", "yes", "yes", "no"), Config("Rejected", "no", "no", "yes")}
=============================================================================
