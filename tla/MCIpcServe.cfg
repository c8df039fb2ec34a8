SPECIFICATION ServeSpec
CONSTANTS
  a = a  b = b  c = c  irq = irq
  User = {a, b, c}
  IRQ = {irq}
  SpaceOf <- MCSpaceOf
  Version = {1}
  Root = a
  Pagers <- MCPagers
  Handlers = {Nil}
  Nil = Nil
  AnyThread = AnyThread
  AnyLocal = AnyLocal
PROPERTIES Served
CHECK_DEADLOCK FALSE
