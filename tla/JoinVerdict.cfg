\* One review screen beside the services; no other door.
SPECIFICATION MCSpec
CONSTANTS
  u1 = u1
  u2 = u2
  u3 = u3
  Users = {u1, u2, u3}
  NoUser = NoUser
  Founders = {u1}
  Admins = {u3}
  Colleagues = {u2}
  Doors = {"review"}
  MaxTenures = 2
  c1 = c1
  Codes = {c1}
  NoCode = NoCode
  r1 = r1
  r2 = r2
  Requests = {r1, r2}
  i1 = i1
  Invitations = {i1}
  MaxUses = 2
  MaxPending = 1
  MaxEffort = 4
  ManageCost = 3
SYMMETRY RowSymmetry
PROPERTIES OneVerdict
CHECK_DEADLOCK FALSE
