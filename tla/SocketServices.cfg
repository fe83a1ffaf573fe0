SPECIFICATION MCSpec
CONSTANTS
    SocketSlots = {1, 2}
    BufferCapacity = 1
    BacklogCapacity = 1
    GenerationMax = 3
    NoValue = NoValue
    Procs = {1}
    IncMax = 2
    RequestMax = 1
    Peers <- OnePeer
    Ports = {1}
    SynCells = {1}
    HandshakeSlots = {1}
    StreamSlots = {1}
    Budget = 1
    Protocol = {"TcpStream"}
    Calls = {"open", "bind", "listen", "accept", "send", "shutdown", "close"}
INVARIANTS
    SocketTablesAgree
    ClientOwnsTransport
PROPERTIES
    SocketsProgress
