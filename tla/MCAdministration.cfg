SPECIFICATION AdminSpec
CONSTANTS
  u1 = u1 u2 = u2 u3 = u3 s1 = s1 s2 = s2 k1 = k1
  api = api worker = worker a1 = a1 a2 = a2 a3 = a3 w1 = w1
  Users <- MCUsers
  Slots <- MCSlots
  Tokens <- MCTokens
  Procs <- MCProcs
  ConnsOf <- MCConnsOf
  Api = api
  NoLeague = NoLeague
  NoConn = NoConn
  MaxCalls = 5
  MaxFaults = 1
SYMMETRY MCSymmetry
INVARIANTS
  AdminTypeOK
  LeagueStaysInHand
  InviteAdmitsOnce
  OneRunAtATime
