SPECIFICATION Spec
CONSTANTS
  TAMANIO_MEMORIA = 13
  TAMANIO_PATOTA = 1
  TAMANIO_TRIPULANTE = 2
  TamaniosTareas <- Tareas
  MaxPatotas = 2
  MaxTripulantes = 2
INVARIANT ExpulsionResponde
CHECK_DEADLOCK FALSE
