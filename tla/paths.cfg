\* Every grid of five by three cells. Costs in thousandths: on a grid of a few
\* cells they compare as the reals do.
CONSTANTS
  Width = 5
  Height = 3
  Straight = 1000
  Diagonal = 1414
SPECIFICATION SearchSpec
INVARIANTS FindsShortest ClosedIsSettled
