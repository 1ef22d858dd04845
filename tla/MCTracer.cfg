SPECIFICATION TracerSpec
CONSTANT Code <- MCCode
PROPERTIES
  KeepsPromise
  SpanExported
CHECK_DEADLOCK FALSE
