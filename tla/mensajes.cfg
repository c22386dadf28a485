SPECIFICATION Spec
CONSTANTS
  CantTareas = 2
  Movimientos = 2
  Pasos = 1
  Quantum = 2
  MaxSabotajes = 2
  MaxReanudaciones = 1
INVARIANTS
  RespuestasContadas
  CruceExplicado
PROPERTY TodosRespondidos
CHECK_DEADLOCK FALSE
