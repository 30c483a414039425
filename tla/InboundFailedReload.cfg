SPECIFICATION InboundSpec
CONSTANTS
  Inbounds = {game}
  Transports <- MCTransports
  Transparent = {}
  Capacity = 2
  MaxVersion = 1
  web = web
  game = game
  proxy = proxy
INVARIANT
  ReloadApplied
CHECK_DEADLOCK FALSE
