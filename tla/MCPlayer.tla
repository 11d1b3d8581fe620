------------------------------ MODULE MCPlayer ------------------------------
EXTENDS Player

App(thread, isLive, does, reports) ==
    [app |-> thread, live |-> isLive, ops |-> does, sink |-> reports]
Polite == {"Tune", "Stop", "Seek", "Switch"}

(* Applications on the main loop, whose calls come from events too, and on *)
(* a thread of their own, one of which zaps from stream to stream.         *)
PlaySet ==
    {App("call", TRUE, Polite, {"underflow", "internal"}),
     App("call", FALSE, Polite \cup {"Zap"}, {"eos"}),
     App("app", TRUE, {"Tune", "Seek", "Switch"}, {"underflow", "internal", "frame"}),
     App("app", TRUE, {"Tune", "Seek", "Switch"}, {"eos", "frame"}),
     App("app", FALSE, {"Tune", "Stop", "Seek"}, {"underflow", "eos"}),
     App("app", TRUE, {"Tune", "Stop"}, {"internal", "eos", "frame"}),
     App("app", TRUE, {"Tune", "Zap", "Stop"}, {"internal", "frame"})}
=============================================================================
