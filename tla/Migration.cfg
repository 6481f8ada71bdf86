SPECIFICATION MigrationSpec
CONSTANTS
  a1 = a1
  a2 = a2
  a3 = a3
  Processes = {a1, a2, a3}
INVARIANTS RevisionTrue CyclesRepeat SomeRunGoesOn
