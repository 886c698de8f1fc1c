CONSTANTS
 m = m
 e = e
 h = h
 t1 = t1
 t2 = t2
 f1 = f1
 f2 = f2
 z1 = z1
 z2 = z2
 Drawn <- MCDrawn
 Phones = {e}
 Places <- MCPlaces
 None = None
 People = {m, e, h}
 Teams = {t1, t2}
 Customers = {f1, f2}
 Requests = {r1, r2}
 Hired <- MCHired
 Founded <- MCFounded
 Known <- MCKnown
 MaxChanges = 3
 MaxFixes = 3
 Zone = {z1, z2}
 Jobs = {j1, j2}
 Uploads = {s1, s2}
SPECIFICATION Spec
INVARIANTS MembersHaveATeam OfferedIsAllowed PresenceIsTrue ReportsMatchScreens
CHECK_DEADLOCK FALSE
SYMMETRY Symmetry
