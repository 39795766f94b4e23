------------------------------- MODULE MCFriends -------------------------------
(* Friends on a small instance: the tables accept every statement that they can     *)
(* accept together with the INSERT into friend, and one application is waiting.     *)
EXTENDS Friends, TLC

CONSTANTS u1, u2

AcceptedHere == {"apply_insert", "status_update", "friend_insert", "search"}
RecordedHere == {<<u1, u2>>}

================================================================================
