------------------------------- MODULE Friendship -------------------------------
(* What the friend functions of the ChatServer promise: friendship is a symmetric    *)
(* relation that grows by whole pairs, and a user is told of a friend only when the  *)
(* two are friends.                                                                  *)
CONSTANT Uids

VARIABLES friends,   \* the friendship relation
          informed   \* <<u, v>>: u has been told that v is a friend

Init == friends = {} /\ informed = {}

Befriend(u, v) ==
  /\ friends' = friends \cup {<<u, v>>, <<v, u>>}
  /\ UNCHANGED informed

Tell(u, v) ==
  /\ <<u, v>> \in friends
  /\ informed' = informed \cup {<<u, v>>}
  /\ UNCHANGED friends

Next == \E u, v \in Uids : Befriend(u, v) \/ Tell(u, v)

Spec == Init /\ [][Next]_<<friends, informed>>

================================================================================
