SPECIFICATION Spec
CONSTANTS
  t1 = t1
  NoTenant = NoTenant
  Tenants = {t1}
  Calls = {c1, c2}
  OptionObjects <- TwoObjects
  Inputs <- ManyInputs
  Lookups <- GeoIp
  Consumers = 2
  Sinks = 2
  MaxChanges = 2
SYMMETRY Symmetry
INVARIANTS CountersReconcile OptionsWereInForce
