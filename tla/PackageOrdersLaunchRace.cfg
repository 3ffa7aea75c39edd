CONSTANTS
  Events = {e1}
  Orders = {o1}
  demo = demo
  starter = starter
  premium = premium
  Codes = {demo, starter}
  Demo = demo
  Merchants = {m1}
  Reqs = {r1, r2}
  InitialCatalogue <- TwoTiers
  PackageForms <- NoForms
  MaxEdits = 0
  Users = {"host"}
  EventForms = {"live"}
  Outcomes = {"COMPLETE"}
SPECIFICATION Spec
PROPERTY LaunchesResolved
