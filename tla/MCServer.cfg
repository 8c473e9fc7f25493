\* The server stops at QU and when it dies, and the clients when they have sent
\* MaxSent characters: deadlock is not checked.
CONSTANTS
    first = first
    second = second
    a = a
    q = q
    NoClient = NoClient
    Eol = Eol
    Bad = Bad
    Clients = {first, second}
    Letters <- MCLetters
    Commands <- MCCommands
    Quit <- MCQuit
    ReplyLen <- MCReplyLen
    MaxSent <- MCMaxSent
    RcvBufLen = 3
    RcvCmdLen = 2
    SndRspLen = 2
    SocketLen = 1
SPECIFICATION FairSpec
INVARIANTS
    TypeOK
    LinesAreExecuted
    RepliesInOrder
    NoReplyIsKept
PROPERTY WaitingIsServed
CHECK_DEADLOCK FALSE
