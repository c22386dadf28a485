SPECIFICATION Spec
CONSTANTS
  o = o
  b = b
  t1 = t1
  t2 = t2
  Azar = Azar
  Vacio = Vacio
  Tripulantes <- LosTripulantes
  Recursos <- LosRecursos
  Basura = b
  BLOCK_SIZE = 16
  BLOCKS_AMOUNT = 5
  Sumas <- UnBloque
  Quitas <- UnBloque
  Largos <- Largo20
  MaxPedidos = 4
  MaxReinicios = 0
INVARIANT BitacoraIntacta
SYMMETRY Simetria
CHECK_DEADLOCK FALSE
