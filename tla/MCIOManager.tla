---------------------------- MODULE MCIOManager ----------------------------
(* Model-checking instances of IOManager: one socket descriptor, two      *)
(* worker threads, and small scripts of hooked calls per fiber.            *)
EXTENDS IOManager, TLC

CONSTANTS w1, w2, f1, f2

MCWorkers == {w1, w2}
MCFibers  == {f1, f2}
MCFds     == {3}
MCOneWorker == {w1}

\* A full-duplex socket: one fiber reads twice, another writes once and
\* then closes the socket under the reader.
ScriptDuplexClose == f1 :> <<IoCall(3, "READ"), IoCall(3, "READ")>>
                  @@ f2 :> <<IoCall(3, "WRITE"), CloseCall(3)>>

\* A fiber that reads and then closes the socket, and a second reader.
ScriptReadCloseRead == f1 :> <<IoCall(3, "READ"), CloseCall(3)>>
                    @@ f2 :> <<IoCall(3, "READ")>>

\* A reader and a writer on a full-duplex socket.
ScriptDuplex == f1 :> <<IoCall(3, "READ")>>
             @@ f2 :> <<IoCall(3, "WRITE")>>

\* A single reader with SO_RCVTIMEO set; nobody ever writes to it.
ScriptTimedRead == f1 :> <<IoCall(3, "READ")>>
                @@ f2 :> <<>>

\* Two fibers reading the same blocking socket.
ScriptTwoReaders == f1 :> <<IoCall(3, "READ")>>
                 @@ f2 :> <<IoCall(3, "READ")>>

\* epoll_ctl always succeeds, or MOD/DEL may fail.
NoFaults   == {FALSE}
EpollFaults == BOOLEAN

DirsRW   == {"READ", "WRITE"}
DirsR    == {"READ"}
NoDirs   == {}
=============================================================================
