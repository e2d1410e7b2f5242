\* browser.close() may never return (the stop of the driver does); the health
\* probe plays no part.
SPECIFICATION HungCloseSpec
CONSTANTS
  Requests = {}
  TTL = 2
  MaxTime = 0
PROPERTIES
  StuckRenderEnds
