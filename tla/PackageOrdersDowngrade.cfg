CONSTANTS
  Events = {e1}
  Orders = {o1}
  demo = demo
  starter = starter
  premium = premium
  Codes = {demo, starter, premium}
  Demo = demo
  Merchants = {m1}
  Reqs = {r1}
  InitialCatalogue <- ThreeTiers
  PackageForms <- NoForms
  MaxEdits = 0
  Users = {"host"}
  EventForms = {}
  Outcomes = {"COMPLETE"}
SPECIFICATION Spec
PROPERTY HostPaymentNeverDowngrades
