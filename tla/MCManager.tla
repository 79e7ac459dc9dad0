------------------------------- MODULE MCManager -------------------------------
(* Instances of Manager for TLC: where the signals interrupt main().       *)
EXTENDS Manager

(* SIGTERM and SIGINT anywhere before the Manager is deleted.              *)
MCAnywhere == Points \ Over
MCNowhere == {}

(* After start_control_relaying() has been called, not before.             *)
MCStarted == Points \ (Over \cup {"new", "start"})

(* SIGHUP while main() polls, and just after.                              *)
MCPolling == {"poll", "stop"}

(* SIGHUP while start_control_relaying() sets up.                          *)
MCSettingUp == StartPoints \ {"setup"}
================================================================================
