---------------------------- MODULE MCStripeMerge ----------------------------
EXTENDS StripeMerge

Rs(k, m) == [type |-> "RS", k |-> k, m |-> m]
Azu(k, l, g) == [type |-> "AZURE_LRC", k |-> k, l |-> l, g |-> g]
Pc(type, k1, m1, k2, m2) == [type |-> type, k1 |-> k1, m1 |-> m1, k2 |-> k2, m2 |-> m2]
Try(code, rule, x, first) == [code |-> code, rule |-> rule, x |-> x, first |-> first]

MCSetups ==
  {Try(Rs(3, 2), "AGGREGATED", 2, {0, 1}),
   Try(Rs(2, 2), "DISPERSED", 2, {0}),
   Try(Rs(2, 2), "RAND", 2, {0}),
   Try(Rs(3, 1), "AGGREGATED", 2, {0}),
   Try(Rs(2, 2), "AGGREGATED", 3, {0}),
   Try(Rs(2, 2), "AGGREGATED", 4, {0}),
   Try(Azu(4, 2, 2), "AGGREGATED", 2, {0}),
   Try(Azu(3, 1, 2), "RAND", 2, {0}),
   Try(Azu(3, 2, 2), "AGGREGATED", 2, {0}),
   Try(Pc("PC", 2, 1, 2, 1), "VERTICAL", 2, {0, 1}),
   Try(Pc("PC", 2, 1, 1, 2), "VERTICAL", 2, {0}),
   Try(Pc("PC", 2, 1, 2, 1), "HORIZONTAL", 2, {0}),
   Try(Pc("PC", 2, 2, 1, 1), "AGGREGATED", 2, {0}),
   Try(Pc("PC", 1, 1, 1, 1), "RAND", 2, {0}),
   Try(Pc("HV_PC", 2, 1, 2, 1), "HORIZONTAL", 2, {0})}
============================================================
