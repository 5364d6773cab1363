SPECIFICATION Spec
CONSTANTS
  python = python
  pytorch = pytorch
  ml = ml
  backendRole = backendRole
  dataRole = dataRole
  nl = nl
  de = de
  request1 = request1
  request2 = request2
  backend = backend
  data = data
  before = before
  after = after
  None = None
  Skill <- SkillMC
  Specialist = {pytorch}
  MachineLearning = ml
  Role <- RoleMC
  FamilyOf <- FamilyOfMC
  Place <- PlaceMC
  Weight <- WeightMC
  Request <- RequestMC
  Dialect = {"sqlite", "postgresql"}
  Catalog <- CatalogMC
  Content <- ContentMC
  Says <- SaysMC
  Jobs <- JobsMC
  JobId = {1, 4}
  Status <- StatusMC
  Note <- NoteMC
  Query <- QueryMC
  MaxId = 2
  MaxRow = 2
  MaxToken = 2
INVARIANTS TypeOK ErasureComplete
PROPERTIES ActsForItsProfile AloneSucceeds PagesShowEachOnce
SYMMETRY Symmetric
