SPECIFICATION FairSpec
CONSTANTS
    network = network
    world = world
    map = map
    challenge = challenge
    refusal = refusal
    hello = hello
    update = update
    spell = spell
    Threads = {network, world, map}
    Reader = network
    World = world
    Packets = {challenge, refusal, hello, update, spell}
    Challenge = challenge
    Refusal = refusal
    Dummy = Dummy
    Null = Null
    Script <- MCScript
    Large = {update}
    Capacity = 2
    MaxBlocks = 1
INVARIANTS TypeOK NodesSafe SessionSafe
PROPERTIES ImplementsStream SocketEnds
CHECK_DEADLOCK FALSE
