---------------------------- MODULE MCConnectHook ----------------------------
EXTENDS ConnectHook

\* What connect_f on a non-blocking TCP socket returns at once.
SuccessOrPending == {"ok", "inprogress"}
AnyImmediate == {"ok", "inprogress", "refused"}
AllOutcomes == {"established", "ECONNREFUSED", "ETIMEDOUT"}
\* connect() and connect_with_timeout().
WithAndWithout == {TRUE, FALSE}
AllCtx == {"none", "file", "userNb", "blocking"}
BlockingOnly == {"blocking"}
====
