SPECIFICATION Spec
CONSTANTS
  MaxNodes = 4
  Element = {1, 2}
INVARIANTS
  TypeOK
  PrevNeverElsewhere
  LookupsAgree
PROPERTIES
  OnlyPrependingSpoils
  EditsWhereAsked
  SortedStaysSorted
