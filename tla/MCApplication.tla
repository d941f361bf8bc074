--------------------------- MODULE MCApplication ---------------------------
(* Instances of Application for TLC.                                       *)
EXTENDS Application, TLC

CONSTANTS w1, w2, w3, p1, p2, p3

Plain == [windows |-> {}, crashes |-> 0, faults |-> 0, settings |-> MaxSettings,
          commands |-> TRUE, unguarded |-> {}]

(* Three windows, or two and a renderer that crashes, with the service     *)
(* switched off; a window with both, beside a service with a fault that is *)
(* switched off; a service with more faults and new settings; and what the *)
(* code does not guard against.                                            *)
MCSessions ==
    {[Plain EXCEPT !.windows = {w1, w2, w3}, !.commands = FALSE],
     [Plain EXCEPT !.windows = {w1, w2}, !.crashes = 1],
     [Plain EXCEPT !.windows = {w1}, !.crashes = 1, !.faults = 1, !.settings = 1],
     [Plain EXCEPT !.faults = 3, !.settings = 0],
     [Plain EXCEPT !.faults = 1, !.settings = 0, !.unguarded = {"unrecorded"}],
     [Plain EXCEPT !.settings = 0, !.unguarded = {"overlap"}]}
=============================================================================
