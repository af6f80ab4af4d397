---- MODULE MCSupervisor ----
EXTENDS Supervisor, TLC
CONSTANTS w1, w2, p1, p2, k1
TwoProcs == w1 :> p1 @@ w2 :> p2
OneKey == w1 :> k1 @@ w2 :> k1
====
