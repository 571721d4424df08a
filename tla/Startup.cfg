SPECIFICATION Spec
CONSTANTS
  MaxContexts = 2
  Conns = {c1, c2, c3}
  NoConn = NoConn
  max_startups = 2
  max_startups_begin = 1
  max_startups_rate = 30
  use_privsep = TRUE
  login_grace_time = TRUE
  rexec_flag = TRUE
  acquires_ctty = FALSE
  MaxRestarts = 1
INVARIANTS StartupsExact PamSound
PROPERTY StartupEnds
