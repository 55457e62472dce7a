\* transpose_submit on the three graded shapes, one behaviour each.
CONSTANT Shapes <- MCShapes
INIT Init
NEXT Next
INVARIANT TypeOK
INVARIANT InBounds
INVARIANT FinishedTransposed
\* The function returns: the final state has no successor.
CHECK_DEADLOCK FALSE
