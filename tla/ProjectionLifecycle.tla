------------------------ MODULE ProjectionLifecycle ------------------------
(***************************************************************************)
(* What the head unit promises about phone sessions, whatever threads and  *)
(* strands it uses to keep the promise: at most one phone is projected, a  *)
(* session that ended never comes back, and a session whose link is broken *)
(* is eventually ended.                                                    *)
(***************************************************************************)
CONSTANTS Conn,    \* the physical connections phones ever make
          NoConn   \* "no session"

VARIABLES serving, \* the connection being projected, or NoConn
          ended,   \* connections whose session was ended for good
          broken   \* connections whose control channel went dead

vars == <<serving, ended, broken>>

TypeOK == /\ serving \in Conn \cup {NoConn}
          /\ ended \subseteq Conn
          /\ broken \subseteq Conn

Init == serving = NoConn /\ ended = {} /\ broken = {}

(* A phone connects while nothing is projected. *)
Begin(c) == /\ serving = NoConn
            /\ c \notin ended
            /\ serving' = c
            /\ UNCHANGED <<ended, broken>>

(* A newly connected phone takes over from the one being projected. *)
Replace(c) == /\ serving # NoConn
              /\ c \notin ended \cup {serving}
              /\ ended' = ended \cup {serving}
              /\ serving' = c
              /\ UNCHANGED broken

(* The session is ended and the head unit waits for the next phone. *)
End == /\ serving # NoConn
       /\ ended' = ended \cup {serving}
       /\ serving' = NoConn
       /\ UNCHANGED broken

(* The control channel of a session dies. *)
Break(c) == /\ c \notin broken
            /\ c = serving \/ c \in ended
            /\ broken' = broken \cup {c}
            /\ UNCHANGED <<serving, ended>>

Next == End \/ \E c \in Conn : Begin(c) \/ Replace(c) \/ Break(c)

(* A broken session is owed its end; phones come when they like. *)
BrokenIsEnded == \A c \in Conn : (serving = c /\ c \in broken) ~> (serving # c)

Safety == Init /\ [][Next]_vars

Spec == Safety /\ BrokenIsEnded
=============================================================================
