----------------------------- MODULE MCSelect -----------------------------
\* Small instances of Select.
EXTENDS Select, TLC

CONSTANTS t1, t2, d1, d2, f1

In(d)  == [fd |-> d, events |-> {"in"}]
Out(d) == [fd |-> d, events |-> {"out"}]
Both(d) == [fd |-> d, events |-> {"in", "out"}]

\* Two descriptors without a timeout, one with.
SomeCalls ==
  t1 :> {[kind |-> "select", list |-> <<In(d1), Out(d2)>>, timed |-> FALSE]} @@
  t2 :> {[kind |-> "poll",   list |-> <<Both(d1)>>,        timed |-> TRUE]}
=============================================================================
