SPECIFICATION Spec
CONSTANTS
  Crawlers = {1, 2}
  Size = 2
  MaxPerCall = 2
  Uint = 16
  MaxHeld = 4
INVARIANT ZeroOnlyWhenFull
