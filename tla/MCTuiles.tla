------------------------------ MODULE MCTuiles ------------------------------
EXTENDS Tuiles

\* Headers that select the end of a file of 3 bytes, or nothing of a file of 1
\* (the whole of it is then served, as it is without a header).
MCPlages ==
  {[forme |-> "suffixe", a |-> 0, b |-> 2],
   [forme |-> "depuis", a |-> 1, b |-> 0],
   [forme |-> "entre", a |-> 1, b |-> 3]}
=============================================================================
