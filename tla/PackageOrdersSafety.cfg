CONSTANTS
  Events = {e1}
  Orders = {o1, o2}
  demo = demo
  starter = starter
  premium = premium
  Codes = {demo, starter, premium}
  Demo = demo
  Merchants = {m1}
  Reqs = {r1, r2}
  InitialCatalogue <- ThreeTiers
  PackageForms <- NoForms
  MaxEdits = 0
  Users = {"host"}
  EventForms = {}
  Outcomes = {"COMPLETE", "FAILED"}
SYMMETRY Symmetric
SPECIFICATION Spec
INVARIANTS TypeOK OneOpenOrder FormMatchesOrder AckedSettled OutcomeExplained
PROPERTY ImplementsOrderBook
