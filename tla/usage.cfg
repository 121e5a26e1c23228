SPECIFICATION FairSpec
CONSTANTS
  Files = {f1, f2}
  Removable = {f1}
  Usages <- MCUsages
  Instants <- MCInstants
  MaxLines = 2
  Dst <- MCDst
INVARIANTS TypeOK SeenAreTotals WeekWindowRight
PROPERTIES FiguresSettle
CHECK_DEADLOCK FALSE
