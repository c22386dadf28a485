SPECIFICATION SpecExpulsion
CONSTANTS
  Tripulantes = {1, 2, 3}
  Nadie = Nadie
  GRADO_MULTITAREA = 1
  ALGORITMO = "RR"
  QUANTUM = 2
  Tareas <- TodosConIO
  MaxOrdenes = 1
  MaxExpulsiones = 3
INVARIANTS
  TypeOKExpulsion
  SinColgantes
  DispositivoContado
  CaidaExplicada
  EsperaDeLaVictima
CHECK_DEADLOCK FALSE
