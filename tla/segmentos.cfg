SPECIFICATION SpecHilos
CONSTANTS
  TAMANIO_MEMORIA = 10
  TAMANIO_PATOTA = 1
  TAMANIO_TRIPULANTE = 2
  TamaniosTareas <- Tareas
  MaxPatotas = 2
  MaxTripulantes = 3
  MaxMensajes = 1
INVARIANTS
  TypeOKHilos
  Teselado
  ElementosUbicados
  PunterosVeraces
  FallaExplicada
PROPERTY CopiaEstable ImplementaAsignador
CHECK_DEADLOCK FALSE
