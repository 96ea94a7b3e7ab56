-------------------------- MODULE CommandAuthority --------------------------
(***************************************************************************)
(* What the safety latch promises the rest of the client, without epochs,  *)
(* events or threads: a command is granted authority while the controller  *)
(* is armed, a stop (and a reset) takes the authority of every command     *)
(* that holds one, and authority that was taken is never given back: a     *)
(* command whose authority was revoked can no longer complete.             *)
(***************************************************************************)
CONSTANT Commands

VARIABLES armed,      \* may a new command be granted authority
          authority   \* Commands -> {"none", "held", "revoked", "spent"}

vars == <<armed, authority>>

Authority == {"none", "held", "revoked", "spent"}

Init == /\ armed = TRUE
        /\ authority = [c \in Commands |-> "none"]

Move(c, from, to) == /\ authority[c] = from
                     /\ authority' = [authority EXCEPT ![c] = to]

Grant(c) == armed /\ Move(c, "none", "held") /\ UNCHANGED armed
Spend(c) == Move(c, "held", "spent") /\ UNCHANGED armed
Drop(c)  == Move(c, "held", "revoked") /\ UNCHANGED armed

\* Every authority held at the moment of a stop or of a reset is lost.
RevokeAll == authority' = [c \in Commands |-> IF authority[c] = "held" THEN "revoked"
                                              ELSE authority[c]]

Stop  == armed' = FALSE /\ RevokeAll
Rearm == armed' = TRUE /\ RevokeAll

Next == \/ Stop
        \/ Rearm
        \/ \E c \in Commands : Grant(c) \/ Spend(c) \/ Drop(c)

Spec == Init /\ [][Next]_vars
=============================================================================
