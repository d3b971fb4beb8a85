----------------------------- MODULE MCFtpServer -----------------------------
(* FtpServer with two clients, more than control_job_id_queue takes, that   *)
(* transfer data: one retrieves through the passive port, the other stores  *)
(* over an active connection and sends what is refused or changes nothing.  *)
EXTENDS FtpServer, TLC

CONSTANTS s1, s2

TwoThreads == {s1, s2}

TransferCommands ==
    s1 :> {"USER anonymous", "TYPE", "PASV", "RETR"}
    @@ s2 :> {"USER anonymous", "PASS", "PWD", "invalid", "PORT", "STOR"}
=============================================================================
