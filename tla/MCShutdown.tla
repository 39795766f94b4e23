------------------------------- MODULE MCShutdown -------------------------------
(* Shutdown, and with it LogicQueue, on a small instance: MysqlMgr, whose           *)
(* destructor logs, and UserMgr, whose sessions have sockets of IOServicePool.       *)
EXTENDS Shutdown, TLC

CONSTANTS mysql, users, io

MCUses == (mysql :> {"log"}) @@ (users :> {io}) @@ (io :> {})

================================================================================
