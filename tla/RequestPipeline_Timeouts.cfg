\* A call of the TypeScript SDK and one of the Python SDK against the timeout
\* both document.
SPECIFICATION SpecOfBoth
CONSTANTS
  r1 = r1
  r2 = r2
  Runs = {r1, r2}
  MaxRetries = 0
  Clients <- TypeScriptAndPython
PROPERTIES
  TimedCallSettles
\* A call that has settled does nothing more.
CHECK_DEADLOCK FALSE
