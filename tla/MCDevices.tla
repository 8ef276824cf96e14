------------------------------ MODULE MCDevices ------------------------------
EXTENDS System, TLC

CONSTANTS t0, t1, t2, byte1, byte2, h1, h2

MCDisk == 1
MCSer  == 2
MCEmu  == 3
MCJunk == 4
MCSlots == 1..4
MCDrivers == 1..3
MCPlatters == {0 :> byte1 @@ 1 :> byte2}
MCMessage == <<"nl">>

Plan(a, b, slots) ==
  [job |-> (t0 :> "none" @@ t1 :> a @@ t2 :> b), slots |-> slots, typed |-> <<"x", "cr", "x">>, cpus |-> 1, stuck |-> FALSE, args |-> <<>>, menu |-> "none"]
MenuPlan(a, slots, text, n) == [Plan(a, "none", slots) EXCEPT !.typed = text, !.cpus = n, !.menu = "prompt"]
MCPlans ==
  { Plan("disk", "disk", {MCDisk, MCJunk}),
    Plan("write", "write", {MCSer}),
    Plan("write", "print", {MCSer, MCJunk}),
    Plan("read", "read", {MCSer}),
    Plan("stdin", "print", {MCSer}),
    [Plan("disk", "none", {MCDisk, MCJunk}) EXCEPT !.stuck = TRUE],
    MenuPlan("print", {MCSer}, <<"x", "cr">>, 2),
    MenuPlan("none", {MCSer, MCEmu}, <<"x", "x", "bs", "cr">>, 1),
    [Plan("print", "none", {MCSer, MCEmu}) EXCEPT !.typed = <<>>, !.cpus = 2, !.args = <<"program", "quit">>],
    [Plan("emu", "none", {MCEmu}) EXCEPT !.args = <<"program", "quit">>] }
=============================================================================
