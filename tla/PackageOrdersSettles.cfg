CONSTANTS
  Events = {e1}
  Orders = {o1}
  demo = demo
  starter = starter
  premium = premium
  Codes = {demo, starter}
  Demo = demo
  Merchants = {m1}
  Reqs = {r1, r2}
  InitialCatalogue <- TwoTiers
  PackageForms <- Edits
  MaxEdits = 2
  Users = {"host", "admin"}
  EventForms = {"live"}
  Outcomes = {"COMPLETE"}
SPECIFICATION FairSpec
INVARIANTS LaunchGate IInv
PROPERTY PaymentSettles
