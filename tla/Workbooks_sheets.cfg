CONSTANTS
  Spelled = {"x", "X"}
  Fold <- Lower
  Code = {}
  Title = {}
  Unit = {}
  Doi = {"x"}
  OutputTitle = {"x"}
  Line = {6, 7}
  Sheet = {1, 2, 3}
  NoRut = NoRut
  Rut = {}
  Email = {}
  Nrc = {}
  Course = {}
  Section = {}
  NoCode = NoCode
  NoDoi = NoDoi
  Blank = Blank
SPECIFICATION WorkbooksSpec
INVARIANT EveryRowIsReported
