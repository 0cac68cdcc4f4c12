SPECIFICATION DnsSpec
CONSTANTS
  Apps = {a1}
  Subdomains = {l1, l2}
  UserHas = {l2}
  Admin = my
  Txt = txt
  Ips = {"ip1", "ip2"}
  NoLocation = nl
  MaxRecords = 4
  MaxChanges = 2
  MaxFailures = 1
INVARIANT DnsTypeOK
PROPERTIES UserTextsKept RecordsFollowAddress
