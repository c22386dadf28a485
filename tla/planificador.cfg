SPECIFICATION SpecJusta
CONSTANTS
  Tripulantes = {1, 2, 3}
  Nadie = Nadie
  GRADO_MULTITAREA = 2
  ALGORITMO = "RR"
  QUANTUM = 2
  Tareas <- Largas
  MaxOrdenes = 1
INVARIANTS
  TypeOK
  CupoConservado
  ColasContadas
  GradoRespetado
  SinCaida
PROPERTY TodosTerminan
CHECK_DEADLOCK FALSE
