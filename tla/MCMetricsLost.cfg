SPECIFICATION Spec
CONSTANTS
  NoMetrics = NoMetrics
  MaxVersion = 3
PROPERTY
  MetricsNeverRegress
CHECK_DEADLOCK FALSE
