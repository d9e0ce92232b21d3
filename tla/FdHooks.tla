------------------------------- MODULE FdHooks -------------------------------
(***************************************************************************)
(* The fd bookkeeping of corlib: FdManager / FdCtx (src/corlib/           *)
(* fd_manager.cpp) and the hooks that create, close and configure         *)
(* descriptors (src/corlib/hook.cpp: socket, accept, close, fcntl, ioctl, *)
(* setsockopt), against the kernel's view: descriptor numbers refer to    *)
(* open file descriptions, which carry O_NONBLOCK and the socket          *)
(* timeouts.  corlib keeps every socket non-blocking in the kernel        *)
(* ("system" non-block) and remembers in FdCtx what the application asked *)
(* for ("user" non-block), so that a hooked blocking call can suspend the *)
(* fiber instead of the worker thread.                                     *)
(*                                                                         *)
(* A call is made by a thread with the hook enabled (a scheduler thread,  *)
(* t_hook_enable) or without.  `intent` is a history variable: the        *)
(* O_NONBLOCK setting the application last asked for on a description.   *)
(***************************************************************************)
EXTENDS Integers

CONSTANTS
  Fds,        \* descriptor numbers the process uses
  Descs,      \* open file descriptions (ids)
  HookModes,  \* values of t_hook_enable of the calling threads
  Calls,      \* the calls the application makes
  TimeVals,   \* timevals passed to setsockopt, as [sec, usec] records
  FionbioArgs,\* values passed to ioctl(FIONBIO)
  NoCtx,      \* empty slot of FdManager::m_datas
  NoDesc      \* descriptor number not open

Dirs == {"RCV", "SND"}   \* SO_RCVTIMEO, SO_SNDTIMEO

\* "No timeout": (uint64_t)-1 in FdCtx, MAX_SCHEDULE_TIMEOUT in the kernel.
NoTimeout == -1

ASSUME /\ Fds \subseteq Nat /\ HookModes \subseteq BOOLEAN
       /\ Calls \subseteq {"socket", "accept", "open", "close", "setfl",
                           "ioctl", "setsockopt"}

VARIABLES
  kfile,   \* kernel fd table: the description a number refers to
  dsock,   \* the description is a socket
  dnb,     \* O_NONBLOCK of the description
  dto,     \* the socket's SO_RCVTIMEO / SO_SNDTIMEO in ms
  intent,  \* O_NONBLOCK as the application last set it (history)
  ctx      \* FdManager::m_datas[fd]

vars == <<kfile, dsock, dnb, dto, intent, ctx>>

IsOpen(fd) == kfile[fd] # NoDesc
InUse(d) == \E fd \in Fds : kfile[fd] = d

\* The kernel hands out the lowest free descriptor number.
LowestFree == CHOOSE fd \in Fds : ~IsOpen(fd) /\ \A g \in Fds : ~IsOpen(g) => fd <= g

HasCtx(fd) == ctx[fd] # NoCtx

\* Mutant: the milliseconds of tv_usec subtracted.
HookMs_diff(tv) == tv.sec * 1000 - tv.usec \div 1000

\* The timeout FdCtx::setTimeout stores for a timeval (hook.cpp:622).
HookMs(tv) == tv.sec * 1000 + tv.usec \div 1000

\* Linux sock_set_timeout: tv_usec out of range is EDOM; a zero timeval
\* means no timeout; otherwise rounded up to the timer resolution (1 ms).
ValidTv(tv) == tv.usec \in 0..999999
KernelTo(tv) ==
  IF tv.sec = 0 /\ tv.usec = 0 THEN NoTimeout
  ELSE tv.sec * 1000 + (tv.usec + 999) \div 1000

-----------------------------------------------------------------------------
\* FdCtx::FdCtx / FdCtx::init on an open descriptor of description d:
\* fstat decides isSocket, and a socket is marked system-nonblocking
\* (m_isClosed is never set by the code, so it is left out).
NewCtx(isSock) ==
  [isSocket |-> isSock, sysNb |-> isSock, userNb |-> FALSE,
   to |-> [x \in Dirs |-> NoTimeout]]

\* Mutant: FdCtx::init without the fcntl_f that sets O_NONBLOCK.
GetOrCreate_noFcntl(fd, d, isSock, nb) ==
  IF HasCtx(fd)
    THEN /\ ctx' = ctx
         /\ dnb' = nb
    ELSE /\ ctx' = [ctx EXCEPT ![fd] = NewCtx(isSock)]
         /\ dnb' = nb

\* FdManager::FdManager: every slot of m_datas empty.
EmptySlots == [fd \in Fds |-> NoCtx]

\* FdManager::get(fd, true) right after fd was opened on d, with nb the
\* O_NONBLOCK flags at that point: a slot still holding a context is
\* returned as it is; an empty one gets a new FdCtx, whose init switches
\* a socket to O_NONBLOCK with fcntl_f.
GetOrCreate(fd, d, isSock, nb) ==
  IF HasCtx(fd)
    THEN /\ ctx' = ctx
         /\ dnb' = nb
    ELSE /\ ctx' = [ctx EXCEPT ![fd] = NewCtx(isSock)]
         /\ dnb' = IF isSock THEN [nb EXCEPT ![d] = TRUE] ELSE nb

\* The kernel opens a new description d behind the lowest free number;
\* a new socket or file starts blocking and without timeouts.
OpenDesc(d, isSock) ==
  /\ kfile' = [kfile EXCEPT ![LowestFree] = d]
  /\ dsock' = [dsock EXCEPT ![d] = isSock]
  /\ dto' = [dto EXCEPT ![d] = [x \in Dirs |-> NoTimeout]]
  /\ intent' = [intent EXCEPT ![d] = FALSE]

CanOpen(d) == (\E fd \in Fds : ~IsOpen(fd)) /\ ~InUse(d)

\* hook.cpp socket(): socket_f, then FdMgr::get(fd, true) if hooked.
Socket(h, d) ==
  /\ "socket" \in Calls
  /\ CanOpen(d)
  /\ OpenDesc(d, TRUE)
  /\ IF h THEN GetOrCreate(LowestFree, d, TRUE, [dnb EXCEPT ![d] = FALSE])
          ELSE /\ dnb' = [dnb EXCEPT ![d] = FALSE]
               /\ UNCHANGED ctx

\* hook.cpp accept(): do_io(accept_f) returns a new connected socket and
\* FdMgr::get(fd, true) is called whether or not the hook is enabled.
Accept(d) ==
  /\ "accept" \in Calls
  /\ CanOpen(d)
  /\ OpenDesc(d, TRUE)
  /\ GetOrCreate(LowestFree, d, TRUE, [dnb EXCEPT ![d] = FALSE])

\* open() of a regular file: not hooked, no FdCtx is made.
Open(d) ==
  /\ "open" \in Calls
  /\ CanOpen(d)
  /\ OpenDesc(d, FALSE)
  /\ dnb' = [dnb EXCEPT ![d] = FALSE]
  /\ UNCHANGED ctx

\* FdManager::del: the slot is reset.
Del(fd) == [ctx EXCEPT ![fd] = NoCtx]

\* hook.cpp close(): if hooked and fd has a context, cancelAll (the
\* waiters, modelled in IOManager) and FdMgr::del; then close_f.
Close(fd, h) ==
  /\ "close" \in Calls
  /\ IsOpen(fd)
  /\ ctx' = IF h /\ HasCtx(fd) THEN Del(fd) ELSE ctx
  /\ kfile' = [kfile EXCEPT ![fd] = NoDesc]
  /\ UNCHANGED <<dsock, dnb, dto, intent>>

\* The hook's handling applies to a socket that has a context.
CtxSocket(fd) == HasCtx(fd) /\ ctx[fd].isSocket

\* Mutant: F_SETFL without setUserNonblock.
SetFl_noUser(fd, nb) ==
  /\ "setfl" \in Calls
  /\ IsOpen(fd)
  /\ IF CtxSocket(fd)
       THEN /\ dnb' = [dnb EXCEPT ![kfile[fd]] = ctx[fd].sysNb]
            /\ UNCHANGED ctx
       ELSE /\ dnb' = [dnb EXCEPT ![kfile[fd]] = nb]
            /\ UNCHANGED ctx
  /\ intent' = [intent EXCEPT ![kfile[fd]] = nb]
  /\ UNCHANGED <<kfile, dsock, dto>>

\* hook.cpp fcntl(F_SETFL): a context socket records the user's
\* O_NONBLOCK and gets the system's; anything else passes through.
SetFl(fd, nb) ==
  /\ "setfl" \in Calls
  /\ IsOpen(fd)
  /\ IF CtxSocket(fd)
       THEN /\ ctx' = [ctx EXCEPT ![fd].userNb = nb]
            /\ dnb' = [dnb EXCEPT ![kfile[fd]] = ctx[fd].sysNb]
       ELSE /\ dnb' = [dnb EXCEPT ![kfile[fd]] = nb]
            /\ UNCHANGED ctx
  /\ intent' = [intent EXCEPT ![kfile[fd]] = nb]
  /\ UNCHANGED <<kfile, dsock, dto>>

\* hook.cpp fcntl(F_GETFL): the O_NONBLOCK bit it returns.
GetFl(fd) == IF CtxSocket(fd) THEN ctx[fd].userNb ELSE dnb[kfile[fd]]

\* hook.cpp ioctl(FIONBIO): a context socket records the user's flag;
\* the request is passed to ioctl_f unchanged in every case.
Ioctl(fd, nb) ==
  /\ "ioctl" \in Calls
  /\ IsOpen(fd)
  /\ ctx' = IF CtxSocket(fd) THEN [ctx EXCEPT ![fd].userNb = nb] ELSE ctx
  /\ dnb' = [dnb EXCEPT ![kfile[fd]] = nb]
  /\ intent' = [intent EXCEPT ![kfile[fd]] = nb]
  /\ UNCHANGED <<kfile, dsock, dto>>

\* FdCtx::setTimeout: SO_RCVTIMEO sets the receive timeout, any other
\* option the send timeout.
SetTimeout(c, dir, v) ==
  IF dir = "RCV" THEN [c EXCEPT !.to["RCV"] = v] ELSE [c EXCEPT !.to["SND"] = v]

\* hook.cpp setsockopt(SO_RCVTIMEO / SO_SNDTIMEO): if hooked and fd has
\* a context, store tv_sec*1000 + tv_usec/1000; then setsockopt_f, which
\* fails on a non-socket or an out-of-range tv_usec.
Setsockopt(fd, dir, tv, h) ==
  /\ "setsockopt" \in Calls
  /\ IsOpen(fd)
  /\ ctx' = IF h /\ HasCtx(fd)
              THEN [ctx EXCEPT ![fd] = SetTimeout(ctx[fd], dir, HookMs(tv))]
              ELSE ctx
  /\ dto' = IF dsock[kfile[fd]] /\ ValidTv(tv)
              THEN [dto EXCEPT ![kfile[fd]][dir] = KernelTo(tv)]
              ELSE dto
  /\ UNCHANGED <<kfile, dsock, dnb, intent>>

-----------------------------------------------------------------------------
\* do_io's choice (hook.cpp:99-121): with the hook enabled, a call on a
\* socket with a context that the user has not made non-blocking goes
\* through the EAGAIN / addEvent / yield path.
HookedPath(fd) == CtxSocket(fd) /\ ~ctx[fd].userNb

Init ==
  /\ kfile = [fd \in Fds |-> NoDesc]
  /\ dsock = [d \in Descs |-> FALSE]
  /\ dnb = [d \in Descs |-> FALSE]
  /\ dto = [d \in Descs |-> [x \in Dirs |-> NoTimeout]]
  /\ intent = [d \in Descs |-> FALSE]
  /\ ctx = EmptySlots

Next ==
  \/ \E d \in Descs : Accept(d) \/ Open(d) \/ \E h \in HookModes : Socket(h, d)
  \/ \E fd \in Fds :
       \/ \E h \in HookModes : Close(fd, h)
       \/ \E nb \in BOOLEAN : SetFl(fd, nb)
       \/ \E nb \in FionbioArgs : Ioctl(fd, nb)
       \/ \E dir \in Dirs, tv \in TimeVals, h \in HookModes : Setsockopt(fd, dir, tv, h)

Spec == Init /\ [][Next]_vars

-----------------------------------------------------------------------------
TypeOK ==
  /\ kfile \in [Fds -> Descs \cup {NoDesc}]
  /\ dsock \in [Descs -> BOOLEAN] /\ dnb \in [Descs -> BOOLEAN]
  /\ intent \in [Descs -> BOOLEAN]
  /\ dto \in [Descs -> [Dirs -> Nat \cup {NoTimeout}]]
  /\ \A fd \in Fds : HasCtx(fd) =>
       /\ ctx[fd].isSocket \in BOOLEAN /\ ctx[fd].userNb \in BOOLEAN
       /\ ctx[fd].to \in [Dirs -> Nat \cup {NoTimeout}]

\* A hooked read, write or accept never blocks the worker thread: when
\* do_io takes the wait path for an open fd (hook.cpp:118-121), the
\* description is O_NONBLOCK in the kernel, so the raw call returns EAGAIN
\* and the fiber, not the thread, waits.  Kept by FdCtx::init and the
\* F_SETFL rewrite; threatened by every path that sets kernel flags.
NoWorkerBlock ==
  \A fd \in Fds : IsOpen(fd) /\ HookedPath(fd) => dnb[kfile[fd]]

\* fcntl(F_GETFL) shows the application the O_NONBLOCK setting it last
\* asked for on the file with F_SETFL or FIONBIO, whatever corlib keeps in
\* the kernel underneath.
GetFlShowsIntent ==
  \A fd \in Fds : IsOpen(fd) => GetFl(fd) = intent[kfile[fd]]
====
