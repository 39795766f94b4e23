--------------------------------- MODULE MCHttp ---------------------------------
(* Http on a small instance.                                                       *)
EXTENDS Http, TLC

================================================================================
