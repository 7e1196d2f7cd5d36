SPECIFICATION Spec
CONSTANTS
  Items = {1, 2}
  NoItem = NoItem
  Size = 1
  MaxLen = 5
PROPERTY IsQueue
