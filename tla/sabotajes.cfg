SPECIFICATION SpecSabotaje
CONSTANTS
  Tripulantes = {1, 2}
  Nadie = Nadie
  GRADO_MULTITAREA = 1
  ALGORITMO = "RR"
  QUANTUM = 2
  Tareas <- MismasTareas
  MaxOrdenes = 1
  MaxSabotajes = 2
INVARIANTS
  TypeOKSabotaje
  CupoConSabotaje
  NadieOlvidado
CHECK_DEADLOCK FALSE
