CONSTANTS
  index = index  page = page  c1 = c1  c2 = c2
  Path = {index, page}  Entry = index
  Content = {c1, c2}
  Absent = Absent
  Block = {x}
  Seeded <- OnePage
  Edit <- Edits
  Client = {r1, r2, r3}
  Window = 2
  MaxCrashes = 1
  MaxFaults = 1
  Nobody = Nobody  Boot = Boot
SYMMETRY Interchangeable
CONSTRAINT Budget
SPECIFICATION Spec
INVARIANTS TypeOK Coherent OneActive TargetsStored EntrypointLast NobodyStranded
PROPERTY KeepsPromise
