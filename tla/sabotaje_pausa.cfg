SPECIFICATION SpecSabotaje
CONSTANTS
  Tripulantes = {1, 2}
  Nadie = Nadie
  GRADO_MULTITAREA = 1
  ALGORITMO = "FIFO"
  QUANTUM = 2
  Tareas <- Cortas
  MaxOrdenes = 3
  MaxSabotajes = 1
INVARIANTS
  EnUnaLista
  EstadoVeraz
CHECK_DEADLOCK FALSE
