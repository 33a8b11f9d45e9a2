CONSTANTS
  Texts <- MCTexts
  Trim <- MCTrim
  Empty = ""
  Sections = {"s", "t"}
  Keys = {"k", "m"}
  Values = {"", "v_"}
  Defaults = {"w"}
  Shipped <- MCShipped
  MaxLines = 5
SPECIFICATION Spec
PROPERTY ImplementsStore
PROPERTY OneSectionChanges
