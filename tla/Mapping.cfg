\* A grid of 8 x 8 cells, two classes, echoes at two distances, three updates.
SPECIFICATION Spec
CONSTANTS
  Headings = {0, 1}
  Labels = {gate, pole}
  Steps = {1}
  Ranges = {2, 5}
  Match = 2
  Near = 3
  Cell = 1
  Height = 8
  Width = 8
  None = None
  MaxMoved = 2
  MaxUpdates = 3
INVARIANT MappingInv
PROPERTY NeverOvercounts
PROPERTY ObservedOnce
PROPERTY CorrectionSmall
