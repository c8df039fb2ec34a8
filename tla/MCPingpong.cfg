SPECIFICATION Spec
CONSTANTS
  Main = Main  Pager = Pager  Ping = Ping  Pong = Pong
  User = {Main, Pager, Ping, Pong}
  IRQ = {}
  SpaceOf <- MCSpaceOf
  Version = {1, 2}
  Root = Main
  Pagers = {}
  Handlers = {}
  Nil = Nil
  AnyThread = AnyThread
  AnyLocal = AnyLocal
  NUMMRS = 24
  Pages <- MCPages
  COLUMNS = 6
  LINES = 4
  ATTRIBUTE = 7
  Printers = {Main, Pager, Ping, Pong}
  WindowArgs <- MCWindow
  MaxWords = 24
  MRSTEPPING = 12
  ROUNDS = 2
INVARIANTS OnePrinter ResultShown MessagesArrive
PROPERTIES RoundEnds
CHECK_DEADLOCK FALSE
