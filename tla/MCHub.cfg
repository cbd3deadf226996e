CONSTANTS
  t1 = t1 t2 = t2 d1 = d1 d2 = d2 e1 = e1 e2 = e2 g1 = g1 g2 = g2
  None = None
  Replicas = {r1}
  Tenants = {t1, t2}
  TenantOrder <- MCTenantOrder
  Domains = {d1, d2}
  Emails = {e1, e2, g2}
  Groups = {g1, g2}
  Home <- MCHome
  AdminDomain = d1
  Declared = {t2}
  ServeChoices <- MCServeChoices
  SyncChoices <- MCSyncChoices
  Asking = {a1, a2}
  Operating = {o1, o2}
  Probing = {p1}
  FreshnessWindow = 2
  ReadTime = 0
  MaxTime = 3
  MaxEvents = 1
  MaxRefreshes = 1
  MaxRequests = 2
  FirstStandings <- MCStandings
  FirstOwner <- MCOwner
  FirstMembers <- MCMembers
  FirstSyncs <- MCSyncs
  FirstCold <- MCCold
SPECIFICATION Spec
CONSTRAINT FewAtOnce
SYMMETRY Symmetry
INVARIANTS AbsenceTrue StandingFresh GroupsWhole DecisionKept ExcludedGone
CHECK_DEADLOCK FALSE
