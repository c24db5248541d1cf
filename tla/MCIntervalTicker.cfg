SPECIFICATION IvFairSpec
CONSTANTS
  Poster <- RunnerAndDrainer
  MaxInterval = 3
  MaxRestart = 1
PROPERTY TickerConverges
