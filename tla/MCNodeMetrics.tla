----------------------------- MODULE MCNodeMetrics -----------------------------
(* Node metrics with a grid of three points and small values. *)
EXTENDS NodeMetrics

MCHistories == {{}, {0, 2}, {0, 3, 4}}
MCGauge == [s \in {"n1", "n2"} \X (0..4) |-> s[2] + (IF s[1] = "n1" THEN 1 ELSE 6)]
MCSize == [d \in {"sda", "sdb"} |-> IF d = "sda" THEN 6 ELSE 9]
MCFree == [s \in {"sda", "sdb"} \X (0..4) |-> s[2] + (IF s[1] = "sda" THEN 1 ELSE 5)]
MCTraffic == [s \in {"eth0", "docker0", "br-docker"} \X (0..4) |-> s[2] + 1]

\* One node is alive and one is not.
MCInit == Init /\ alive = [n \in Nodes |-> n = "n1"]
MCSpec == MCInit /\ [][Next]_vars
================================================================================
