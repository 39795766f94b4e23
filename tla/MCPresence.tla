------------------------------- MODULE MCPresence -------------------------------
(* Presence on small instances.                                                  *)
EXTENDS Presence, TLC

\* connections, and users, are interchangeable (no liveness is checked in these runs)
PresenceSymmetry == Permutations(Sessions) \cup Permutations(Uids)

================================================================================
