SPECIFICATION CrsSpec
CONSTANTS
  Objects = {o1, o2}
  Handlers = {"h1", "h2"}
  Ccc = {0, 1, 3}
INVARIANT ServedIsAnswered
