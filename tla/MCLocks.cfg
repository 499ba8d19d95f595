SPECIFICATION Spec
CONSTANTS
  Hilo = {h1, h2, h3}
  Ninguno <- Nada
  LargoPlazo = "FIFO"
  Rol <- RolDelKernel
  Reparto <- RepartoDelKernel
  Mutex <- MutexDelKernel
  Dato <- DatoDelKernel
  Secciones <- SeccionesDelKernel
  Rango <- RangoDelKernel
  Guardia <- GuardiaDelKernel
  SinGuardia <- RolSinGuardia
SYMMETRY Simetria
INVARIANTS SinEsperaCircular DatosExcluidos
