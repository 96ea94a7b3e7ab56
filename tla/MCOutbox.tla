------------------------------ MODULE MCOutbox ------------------------------
(* Outbox for TLC: subjects are numbers, their JSON keys in numeric order.  *)
EXTENDS Outbox

Keys1 == <<1>>
Keys2 == <<1, 2>>
Keys3 == <<1, 2, 3>>
=============================================================================
