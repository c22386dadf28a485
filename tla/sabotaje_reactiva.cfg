SPECIFICATION SpecSabotaje
CONSTANTS
  Tripulantes = {1, 2}
  Nadie = Nadie
  GRADO_MULTITAREA = 1
  ALGORITMO = "RR"
  QUANTUM = 2
  Tareas <- MismasTareas
  MaxOrdenes = 1
  MaxSabotajes = 1
INVARIANTS
  PlanificacionReactivada
CHECK_DEADLOCK FALSE
