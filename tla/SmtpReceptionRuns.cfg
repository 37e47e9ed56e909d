SPECIFICATION Spec
CONSTANTS
  m1 = m1
  m2 = m2
  u1 = u1
  u2 = u2
  f1 = f1
  f2 = f2
  alias = alias
  local = local
  remote = remote
  Mailboxes = {m1, m2}
  Addresses = {alias, local, remote}
  Home <- SmallHome
  Users = {u1, u2}
  Senders = {f1, f2}
  Owned <- SmallOwned
  MaxRecipients = 2
  MaxTries = 2
  MaxFaults = 2
  Nobody = Nobody
SYMMETRY UserSymmetry
INVARIANTS SubmissionProtected SenderOwned RelayAuthorised EntryHasMessage OrphanedByFault
PROPERTIES AcceptedMeansQueued
