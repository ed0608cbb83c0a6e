---------------------------- MODULE MCEventQueue ----------------------------
(* A small instance of the event queue. *)
EXTENDS EventQueue

(* Two workers of the same topics of events and one of commands. *)
TwoWorkersAndOne ==
    [c \in {"first", "second", "commands"} |->
        IF c = "commands" THEN <<"delivery.commands">> ELSE <<"shipment", "delivery">>]
=============================================================================
