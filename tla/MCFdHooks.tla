------------------------------ MODULE MCFdHooks ------------------------------
EXTENDS FdHooks

\* Three descriptor numbers and three open file descriptions: numbers are
\* reused while others stay open, by sockets and by files.
MCFds3 == {3, 4, 5}
MCDescs3 == {1, 2, 3}
\* One number and one description: enough for a socket and its flags.
OneFd == {3}
OneDesc == {1}
OnlyHooked == {TRUE}
NonblockOnly == {TRUE}
BothArgs == {TRUE, FALSE}
\* Whole milliseconds, as most callers pass them.
WholeMs == {[sec |-> 1, usec |-> 0], [sec |-> 0, usec |-> 2000]}
NoTv == {}
FlagCalls == {"socket", "accept", "open", "close", "setfl", "ioctl", "setsockopt"}
IoctlCalls == {"socket", "ioctl"}
====
