-------------------------- MODULE MCRepairPlanning --------------------------
EXTENDS RepairPlanning

Lrc(type, k, l, g) == [type |-> type, k |-> k, l |-> l, g |-> g]
Rs(k, m) == [type |-> "RS", k |-> k, m |-> m]
Pc(type, k1, m1, k2, m2) == [type |-> type, k1 |-> k1, m1 |-> m1, k2 |-> k2, m2 |-> m2]

\* Random placement is explored with stripes of four to six blocks, or three columns.
MCSmallLrcs ==
  {Lrc("AZURE_LRC", 2, 1, 2), Lrc("AZURE_LRC_1", 2, 2, 1), Lrc("OPTIMAL_LRC", 2, 1, 2),
   Lrc("UNIFORM_CAUCHY_LRC", 1, 2, 1), Lrc("OPTIMAL_CAUCHY_LRC", 2, 1, 2)}
MCCodes ==
  {Lrc("AZURE_LRC", 2, 2, 2), Lrc("AZURE_LRC", 4, 2, 2), Lrc("AZURE_LRC_1", 4, 3, 2),
   Lrc("OPTIMAL_LRC", 4, 2, 2), Lrc("OPTIMAL_LRC", 4, 3, 2),
   Lrc("OPTIMAL_CAUCHY_LRC", 6, 2, 2), Lrc("OPTIMAL_CAUCHY_LRC", 4, 2, 2),
   Lrc("UNIFORM_CAUCHY_LRC", 4, 2, 2),
   Lrc("AZURE_LRC_1", 6, 2, 3), Lrc("OPTIMAL_LRC", 6, 2, 3),
   Lrc("UNIFORM_CAUCHY_LRC", 6, 2, 3), Lrc("OPTIMAL_CAUCHY_LRC", 6, 3, 2),
   Rs(4, 2), Rs(3, 2), Rs(3, 3), Pc("PC", 2, 1, 2, 1), Pc("HV_PC", 2, 1, 2, 1)}
  \cup MCSmallLrcs
MCRandomlyPlaced == {Rs(4, 2), Pc("PC", 2, 1, 2, 1)} \cup MCSmallLrcs
MCTargetCodes == {Rs(3, 2), Rs(3, 3), Lrc("AZURE_LRC", 2, 2, 2)}
==============================================================================
