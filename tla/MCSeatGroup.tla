------------------------------ MODULE MCSeatGroup ------------------------------
(* Three seats, two at once, two children each: a seat waits in the queue    *)
(* while two others run, fail, sleep out a limit or are stopped.             *)
EXTENDS SeatGroup

MCNumTasks == 3
MCLimit == 2
MCMaxTurns == 2
=============================================================================
