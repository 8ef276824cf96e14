------------------------------ MODULE MCSched -------------------------------
(* Two CPUs; cvtest2 and then cvtest with two threads, and a second of sleep. *)
EXTENDS Synch
MCWchans == {"donesem", "exitsem", "gatesem", "cpu_hatch", "testlock", "testcv", "lbolt"}
MCBoot == 0 :> "boot0" @@ 1 :> "boot1"
MCScript ==
  "boot0" :> thread_start_cpus \o <<<<"fork", "a">>, <<"fork", "b">>, <<"P", "exitsem">>, <<"P", "exitsem">>,
                                    <<"P", "donesem">>, <<"P", "donesem">>, <<"clocksleep", 1>>, <<"shutdown">>>>
  @@ "boot1" :> cpu_hatch
  @@ "a" :> sleepthread \o cvtestthread(0) \o <<<<"V", "donesem">>, <<"exit">>>>
  @@ "b" :> wakethread \o cvtestthread(1) \o <<<<"V", "donesem">>, <<"exit">>>>
=============================================================================
