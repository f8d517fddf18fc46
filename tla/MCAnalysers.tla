----------------------------- MODULE MCAnalysers -----------------------------
(* Small instances of Analysers: which workloads the kernel runs.           *)
EXTENDS Analysers

CONSTANTS disk, dm, p1, p2, none, n1

ABio(sec, len, pid) == [sec |-> sec, len |-> len, pid |-> pid, mapped |-> FALSE, pc |-> FALSE]
AScene(bios) == [bios |-> bios, requeues |-> 0, plugs |-> 0, losses |-> 0,
                 sleeps |-> FALSE, names |-> FALSE, batch |-> FALSE]
Three == <<ABio(10, 2, p1), ABio(12, 2, p2), ABio(8, 2, p1)>>
Two == <<ABio(10, 2, p1), ABio(12, 2, p2)>>
Through == [ABio(20, 2, p1) EXCEPT !.mapped = TRUE]

MCScenes == {
  [AScene(Three) EXCEPT !.batch = TRUE],
  [AScene(Two) EXCEPT !.requeues = 1],
  [AScene(<<Through, ABio(22, 2, p2)>>) EXCEPT !.plugs = 0],
  [AScene(<<Through, [ABio(5, 1, p2) EXCEPT !.pc = TRUE]>>) EXCEPT !.requeues = 1],
  [AScene(<<ABio(10, 2, p1)>>) EXCEPT !.sleeps = TRUE, !.names = TRUE, !.plugs = 1],
  [AScene(Two) EXCEPT !.losses = 1],
  [AScene(<<Through>>) EXCEPT !.losses = 2, !.requeues = 1, !.names = TRUE]}

MCDevices == {disk, dm}
MCPids == {p1, p2}
MCNames == {n1}
MCFound == {"Q", "D", "C"}
===============================================================================
