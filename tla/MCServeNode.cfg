\* Two clients that query, ping, cancel and hang up while generations are published.
CONSTANTS
  c1 = c1
  c2 = c2
  Conn = {c1, c2}
  Shards = 1
  Cap = 2
  K <- MCK
  MaxResultEntries = 1
  Calls <- MCCalls
  MaxGen = 2
SPECIFICATION Spec
INVARIANTS TypeOK PinSafe BooksBalance NobodyForgotten
CHECK_DEADLOCK FALSE
