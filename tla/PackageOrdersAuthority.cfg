CONSTANTS
  Events = {e1}
  Orders = {o1}
  demo = demo
  starter = starter
  premium = premium
  Codes = {demo, starter}
  Demo = demo
  Merchants = {m1}
  Reqs = {r1}
  InitialCatalogue <- TwoTiers
  PackageForms <- Withdrawals
  MaxEdits = 1
  Users = {"host"}
  EventForms = {}
  Outcomes = {"COMPLETE"}
SPECIFICATION FairSpec
PROPERTY PaymentAuthoritative
