--------------------------- MODULE MCAccelerators ---------------------------
EXTENDS Accelerators

CONSTANTS one, two

\* Every operation, each pair of operands, and the two orders of a pair.
SomeCalls ==
  {[op |-> "add", x |-> one, y |-> two], [op |-> "sub", x |-> two, y |-> one],
   [op |-> "mul", x |-> one, y |-> one], [op |-> "div", x |-> two, y |-> two]}
  \cup {[op |-> o, x |-> a, y |-> Garbage] : o \in {"log2", "cos"}, a \in {one}}
  \cup {[op |-> o, x |-> a, y |-> Garbage] : o \in {"sqrt", "sin"}, a \in {two}}
=============================================================================
