------------------------------ MODULE Executor ------------------------------
(***************************************************************************)
(* What rocket::EventLoop promises to the threads that hand it work: the   *)
(* tasks form one queue, they are executed one at a time in the order in   *)
(* which they were added, each of them once, and none is dropped while the *)
(* loop goes on.  EventLoop.tla is shown to implement this module.         *)
(***************************************************************************)
EXTENDS Sequences

CONSTANT Task          \* everything that can be handed to addTask

VARIABLE queue         \* the tasks added and not executed yet, oldest first

Init == queue = <<>>

Submit == \E t \in Task : queue' = Append(queue, t)

Execute == /\ queue # <<>>
           /\ queue' = Tail(queue)

Next == Submit \/ Execute

Spec == Init /\ [][Next]_queue
=============================================================================
