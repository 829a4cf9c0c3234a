SPECIFICATION MCSpec
CONSTANTS
  t1 = t1
  t2 = t2
  tv = tv
  appliance = appliance
  screen = screen
  safety = safety
  None = None
  Tenants = {t1, t2}
  Orders = {o1}
  Customers = {c1, c2}
  Devices = {d1, d2}
  Technicians = {cert, junior}
  Modules = {tv, appliance}
  Checklist <- MCChecklist
  Hazardous = {appliance}
  Certified = {cert}
  Sessions = {s1, s2}
  Logins <- MCLogins
  SyncKeys = {k1, k2}
  SeedTenant = t1
  SeedCustomer = c1
  SeedDevice = d1
  SeedModule = tv
  MaxTickets = 1
INVARIANTS ShopSafe SurfacesSafe
PROPERTIES ShopSteps
SYMMETRY MCSymmetry
CHECK_DEADLOCK FALSE
