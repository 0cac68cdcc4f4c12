SPECIFICATION CertSpec
CONSTANTS
  Apps = {a1}
  Domains = {d1, d2}
  External = {d2}
  Admin = my
  NoDomain = nd
  MaxEvents = 2
  MaxTicks = 2
  MaxBoth = 3
CHECK_DEADLOCK FALSE
INVARIANTS NginxReloads ServesNoExpired
