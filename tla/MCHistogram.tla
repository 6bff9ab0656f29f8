----------------------------- MODULE MCHistogram -----------------------------
EXTENDS Histogram

\* Six rows of three pixels, with values below 0 and above the largest bin.
Pixels ==
  [r \in 0 .. 5 |-> [c \in 0 .. 2 |->
    << <<0, 2, 3>>, <<5, 1, 0>>, <<-1, 2, 2>>, <<1, 1, 4>>, <<2, 0, 1>>, <<3, 0, 2>> >>[r + 1][c + 1]]]

\* Shares that do not divide evenly, more cores than rows, an empty image, more
\* bins than cores and fewer; and one header that each limit rejects.
SomeHeaders ==
  {[w |-> 2, h |-> 5, max |-> 3], [w |-> 1, h |-> 2, max |-> 1], [w |-> 2, h |-> 0, max |-> 0],
   [w |-> 1, h |-> 3, max |-> 4], [w |-> 1, h |-> 6, max |-> 2], [w |-> 3, h |-> 3, max |-> 2]}

\* A tall image, and one as wide as it is high.
TwoShapes == {[w |-> 1, h |-> 3, max |-> 2], [w |-> 2, h |-> 2, max |-> 2]}
=============================================================================
