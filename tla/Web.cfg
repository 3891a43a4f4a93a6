SPECIFICATION Spec
CONSTANTS
  Conns = {c1, c2, c3}
  Ips = {i1}
  NoTicket = NoTicket
  TokenSet = TRUE
  MAX_WEB_THREADS = 2
  RATE_GENERAL_LIMIT = 2
  RATE_GENERAL_WINDOW = 2
  RATE_AUTH_FAIL_LIMIT = 1
  RATE_AUTH_FAIL_WINDOW = 3
  SSE_TICKET_TTL = 2
  Mixes <- RequestMixes
  MaxTime = 2
SYMMETRY Symmetric
CHECK_DEADLOCK FALSE
INVARIANTS
  TypeOK ThreadsExact TicketOnce TicketFresh RateKept LockoutBounded OnlyAuthorized OkIsExecuted
PROPERTY ExecutedInOrder
