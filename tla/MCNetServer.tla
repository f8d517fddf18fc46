------------------------------ MODULE MCNetServer ------------------------------
(* Instances of NetServer for TLC.                                          *)
EXTENDS NetServer

Way1 == [use |-> "sendfile", hosts |-> {"h1"}, cpus |-> 1, devs |-> 1, runs |-> 1,
         data |-> 1, early |-> FALSE, fails |-> FALSE, dies |-> {}]

CONSTANT Chosen

MCWays ==
  CASE Chosen = "sound" ->
         {[Way1 EXCEPT !.cpus = 2, !.devs = 2],
          [Way1 EXCEPT !.devs = 2, !.data = 5],
          [Way1 EXCEPT !.use = "send", !.cpus = 2, !.devs = 2],
          [Way1 EXCEPT !.use = "send", !.runs = 2, !.data = 2],
          [Way1 EXCEPT !.hosts = {"h1", "h2"}, !.data = 2, !.dies = {"h1"}],
          [Way1 EXCEPT !.use = "send", !.hosts = {"h1", "h2"}, !.dies = {"h1"}],
          [Way1 EXCEPT !.cpus = 2, !.devs = 2, !.fails = TRUE],
          [Way1 EXCEPT !.use = "send", !.cpus = 2, !.fails = TRUE]}
    [] Chosen = "unsound" ->
         {[Way1 EXCEPT !.cpus = 2, !.runs = 2],
          [Way1 EXCEPT !.use = "send", !.cpus = 2, !.early = TRUE],
          [Way1 EXCEPT !.runs = 2, !.dies = {"h1"}]}
=============================================================================
