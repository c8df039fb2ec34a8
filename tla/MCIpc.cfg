SPECIFICATION Spec
CONSTANTS
  a = a  b = b  c = c  irq = irq
  User = {a, b}
  IRQ = {irq}
  SpaceOf <- MCSpaceOf
  Version = {1}
  Root = a
  Pagers <- MCPagers
  Handlers <- MCPagers
  Nil = Nil
  AnyThread = AnyThread
  AnyLocal = AnyLocal
INVARIANTS IrqsExact SendqueuesExact
PROPERTIES HaltLasts NoMissedRendezvous
CHECK_DEADLOCK FALSE
