SPECIFICATION Spec
CONSTANTS
  MaxTripulantes = 2
  Posiciones = 1
  MaxPatotas = 2
  MaxSeniales = 2
  MaxOrdenes = 2
  MaxSesiones = 2
INVARIANTS
  NumerosAcordados
  BitacoraPropia
 
CHECK_DEADLOCK FALSE
