SPECIFICATION Spec
CONSTANTS
  TAMANIO_PAGINA = 50
  TAMANIO_MEMORIA = 100
  TAMANIO_SWAP = 200
  TAMANIO_PATOTA = 8
  TAMANIO_TRIPULANTE = 21
  ENTERO = 4
  CARACTER = 1
  TamaniosTareas <- Tareas
  MaxPatotas = 2
  MaxTripulantes = 2
  MaxMensajes = 2
INVARIANTS
  TypeOK
  MarcosAlcanzan
  CompartidoExplicado
  NadaSePierde
  UnoPorPagina
  TablaCubre
CHECK_DEADLOCK FALSE
