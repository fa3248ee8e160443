------------------------------ MODULE HalFiles -------------------------------
(***************************************************************************)
(* The start-up code and the descriptor table of the Nios II HAL           *)
(* (soft_bsp/HAL): alt_main() from the entry of C to _exit(), the lists of *)
(* devices and file systems, and open, close, read, write, ioctl, fcntl,   *)
(* lseek, fstat and isatty as the program calls them, one call at a time   *)
(* (the BSP is built with ALT_SINGLE_THREADED: the semaphore of the table  *)
(* is empty, and no interrupt routine uses the table).                     *)
(*                                                                         *)
(* The devices are /dev/null, the JTAG UART and the file systems that were *)
(* registered; their drivers' functions are external to this module and    *)
(* may succeed or fail.  fd_flags is kept as the access mode and the set   *)
(* of the flags that are on.                                               *)
(***************************************************************************)
EXTENDS Integers, Sequences, FiniteSets, SequencesExt

CONSTANTS MaxFd,            \* ALT_MAX_FD
          FileSystems,      \* the file systems that alt_sys_init() registers, outermost first
          Names,            \* the names the program opens, as sequences of path components
          Modes,            \* the access modes it opens them with
          Constructors      \* how many static constructors and destructors the program has

ASSUME MaxFdAssumption == MaxFd \in Nat /\ MaxFd > 3
ASSUME ConstructorsAssumption == Constructors \in Nat

VARIABLES phase,     \* where alt_main() is
          todo,      \* constructors or destructors still to run
          direct,    \* the build has ALT_USE_DIRECT_DRIVERS
          devs,      \* alt_dev_list, first entry first
          fss,       \* alt_fs_list
          fds,       \* alt_fd_list
          max_fd,    \* alt_max_fd
          errno,     \* what ALT_ERRNO was last set to
          held       \* descriptors that open() returned and the program has not closed

vars == <<phase, todo, direct, devs, fss, fds, max_fd, errno, held>>
table == <<devs, fss, fds, max_fd, held>>

Fd == 0..MaxFd - 1
Std == 0..2
None == <<>>                                 \* the null pointer
NullDev == <<"dev", "null">>                 \* devices go by their names
Uart == <<"dev", "jtag_uart_0">>             \* ALT_STDIN, ALT_STDOUT and ALT_STDERR

\* The functions a driver provides: NULL entries of its alt_dev are left out.
Provides(d) == CASE d = NullDev -> {"write"}
                 [] d = Uart    -> {"close", "read", "write", "ioctl"}
                 [] OTHER       -> {"open", "close", "read", "write", "lseek", "fstat", "ioctl"}

\* File systems have names of their own.
ASSUME FileSystemsAssumption ==
  /\ FileSystems \in Seq(Seq(STRING))
  /\ \A i \in DOMAIN FileSystems : FileSystems[i] \notin {None, NullDev, Uart}

Unused == [dev |-> None, mode |-> "RDONLY", on |-> {}]
Kept(on) == on \ {"EXCL", "DEV"}             \* fd_flags & ~ALT_FD_FLAGS_MASK

Init == /\ phase = "irq_init" /\ todo = Constructors
        /\ direct \in BOOLEAN
        /\ devs = <<NullDev>> /\ fss = <<>>
        /\ fds = [f \in Fd |-> IF f \in Std THEN [Unused EXCEPT !.dev = NullDev] ELSE Unused]
        /\ max_fd = -1 /\ errno = "none" /\ held = {}

------------------------------------------------------------------------------
(* The table, as operators on its value *)

FirstFree_flag(t) == {f \in Fd : "DEV" \notin t[f].on /\ \A g \in 0..f - 1 : "DEV" \in t[g].on}
FirstFree(t) == {f \in Fd : t[f].dev = None /\ \A g \in 0..f - 1 : t[g].dev # None}

\* alt_find_dev() wants the whole name, alt_find_file() a prefix that ends at a '/'.
find_dev(name) == {i \in DOMAIN devs : devs[i] = name /\ \A j \in 1..i - 1 : devs[j] # name}
owns(fs, name) == Len(fs) <= Len(name) /\ SubSeq(name, 1, Len(fs)) = fs
find_file(name) ==
  {i \in DOMAIN fss : owns(fss[i], name) /\ \A j \in 1..i - 1 : ~owns(fss[j], name)}

release_fd_keeps(t, f) == [t EXCEPT ![f].on = {}]
release_fd_stderr(t, f) == IF f >= 2 THEN [t EXCEPT ![f] = Unused] ELSE t
release_fd(t, f) == IF f > 2 THEN [t EXCEPT ![f] = Unused] ELSE t

Above(f) == IF f > max_fd THEN f ELSE max_fd

\* alt_file_locked(): the test of open() runs over the entries up to alt_max_fd.
file_locked_short(t, top, f) ==
  \E g \in 0..top - 1 : g # f /\ t[g].dev = t[f].dev /\ "EXCL" \in t[g].on
file_locked(t, top, f) == \E g \in 0..top : g # f /\ t[g].dev = t[f].dev /\ "EXCL" \in t[g].on

\* alt_fd_lock(): this loop stops one entry earlier.
fd_lock_denied(f) == \E g \in 0..max_fd - 1 : g # f /\ fds[g].dev = fds[f].dev
alt_fd_lock(f)   == IF fd_lock_denied(f) THEN fds ELSE [fds EXCEPT ![f].on = @ \cup {"EXCL"}]
alt_fd_unlock(f) == [fds EXCEPT ![f].on = @ \ {"EXCL"}]

Found(name) == IF find_dev(name) # {} THEN {<<devs[i], FALSE>> : i \in find_dev(name)}
                                      ELSE {<<fss[i], TRUE>> : i \in find_file(name)}

\* open() with the device and the entry f it has found: alt_file_locked(), then the driver's
\* own open(), whose result is answer; an entry it cannot keep is released.
OpenAt(dev, isafs, f, mode, on, answer) ==
  LET flags == Kept(on) \cup (IF isafs THEN {} ELSE {"DEV"})
      t     == [fds EXCEPT ![f] = [dev |-> dev, mode |-> mode, on |-> flags]]
      err   == IF ~isafs /\ file_locked(t, Above(f), f) THEN "EACCES"
               ELSE IF "open" \in Provides(dev) THEN answer ELSE "ok"
  IN  [fd |-> IF err = "ok" THEN f ELSE -1, err |-> err,
       t  |-> IF err = "ok" THEN t ELSE release_fd(t, f), top |-> Above(f)]

\* open(): the descriptor it returns (-1 with an error), and the table and high-water mark
\* it leaves.
OpenResult(name, mode, on, answer) ==
  IF Found(name) = {} THEN [fd |-> -1, err |-> "ENODEV", t |-> fds, top |-> max_fd]
  ELSE IF FirstFree(fds) = {} THEN [fd |-> -1, err |-> "EMFILE", t |-> fds, top |-> max_fd]
  ELSE LET x == CHOOSE y \in Found(name) : TRUE
       IN  OpenAt(x[1], x[2], CHOOSE g \in FirstFree(fds) : TRUE, mode, on, answer)
------------------------------------------------------------------------------
(* alt_main() *)

alt_irq_init == /\ phase = "irq_init" /\ phase' = "sys_init"
                /\ UNCHANGED <<table, todo, direct, errno>>

\* Drivers register their devices, file systems their mount points: at the head of a list.
alt_dev_llist_insert(list, dev) == <<dev>> \o list

\* alt_sys_init() registers the UART and, in a BSP that has them, file systems one by one:
\* the last is the first of the list.
alt_sys_init == /\ phase = "sys_init"
                /\ phase' = IF direct THEN "ctors" ELSE "stdout"
                /\ devs' = IF direct THEN devs ELSE alt_dev_llist_insert(devs, Uart)
                /\ fss' = Reverse(FileSystems) \o fss
                /\ UNCHANGED <<fds, max_fd, held, todo, direct, errno>>

\* alt_open_fd(): the entry of the stream becomes a copy of a fresh one, which is released.
alt_open_fd(at, f, mode, next) ==
  /\ phase = at /\ phase' = next
  /\ LET r == OpenResult(Uart, mode, {}, "ok")
     IN  /\ max_fd' = r.top
         /\ fds' = IF r.fd >= 0 THEN release_fd([r.t EXCEPT ![f] = r.t[r.fd]], r.fd) ELSE r.t
         /\ errno' = IF r.err = "ok" THEN errno ELSE r.err
  /\ UNCHANGED <<devs, fss, held, todo, direct>>

alt_io_redirect == \/ alt_open_fd("stdout", 1, "WRONLY", "stdin")
                   \/ alt_open_fd("stdin", 0, "RDONLY", "stderr")
                   \/ alt_open_fd("stderr", 2, "WRONLY", "ctors")

\* The constructors, then main(), then (by way of exit()) the destructors.
Running == phase \in {"ctors", "main", "dtors"}
do_ctors == /\ phase = "ctors"
            /\ IF todo = 0 THEN phase' = "main" /\ todo' = Constructors
                           ELSE phase' = phase /\ todo' = todo - 1
            /\ UNCHANGED <<table, direct, errno>>
do_dtors == /\ phase = "dtors"
            /\ IF todo = 0 THEN phase' = "halted" /\ todo' = todo
                           ELSE phase' = phase /\ todo' = todo - 1
            /\ UNCHANGED <<table, direct, errno>>
\* main() returns: close(STDOUT_FILENO), then exit().
main_returns == /\ phase = "main" /\ phase' = "dtors"
                /\ errno' \in IF direct THEN {"ENOSYS"} ELSE {errno, "EIO"}
                /\ UNCHANGED <<table, todo, direct>>
\* _exit() spins for ever.
alt_exit == phase = "halted" /\ UNCHANGED vars
------------------------------------------------------------------------------
(* System calls.  A program uses the descriptors it got, the standard ones, or the negative
   result of an open() that failed. *)

Usable == held \cup Std
Call == Running /\ ~direct /\ UNCHANGED <<phase, todo, direct, devs, fss>>
Returns(rc) == errno' = IF rc = "ok" THEN errno ELSE rc
Answers == {"ok", "EIO"}                     \* what a driver's function may return

open(name, mode, on) ==
  /\ Call
  /\ \E answer \in Answers :
       LET r == OpenResult(name, mode, on, answer)
       IN  /\ fds' = r.t /\ max_fd' = r.top
           /\ held' = held \cup ({r.fd} \cap Fd)
           /\ Returns(r.err)

\* The descriptor is released whatever the driver's close() says.
close(f) ==
  /\ Call
  /\ IF f < 0 THEN Returns("EBADFD") /\ UNCHANGED <<fds, held>>
     ELSE /\ fds' = release_fd(fds, f) /\ held' = held \ {f}
          /\ \E answer \in Answers :
               Returns(IF "close" \in Provides(fds[f].dev) THEN answer ELSE "ok")
  /\ UNCHANGED max_fd

\* The access mode that refuses the transfer, and the driver's function for it.
transfer(f, refuses, function) ==
  /\ Call
  /\ IF f < 0 THEN Returns("EBADFD")
     ELSE IF fds[f].mode # refuses /\ function \in Provides(fds[f].dev)
          THEN \E answer \in Answers : Returns(answer)
          ELSE Returns("EACCES")
  /\ UNCHANGED <<fds, max_fd, held>>
read(f)  == transfer(f, "WRONLY", "read")
write(f) == transfer(f, "RDONLY", "write")

ioctl(f, req) ==
  /\ Call
  /\ CASE f < 0 -> Returns("EBADFD") /\ UNCHANGED fds
       [] f >= 0 /\ "DEV" \in fds[f].on /\ req = "TIOCEXCL" ->
            fds' = alt_fd_lock(f) /\ Returns(IF fd_lock_denied(f) THEN "EACCES" ELSE "ok")
       [] f >= 0 /\ "DEV" \in fds[f].on /\ req = "TIOCNXCL" ->
            fds' = alt_fd_unlock(f) /\ Returns("ok")
       [] OTHER -> /\ UNCHANGED fds
                   /\ IF "ioctl" \in Provides(fds[f].dev)
                      THEN \E answer \in {"ok", "ENOTTY"} : Returns(answer) ELSE Returns("ENOTTY")
  /\ UNCHANGED <<max_fd, held>>

\* F_SETFL changes O_APPEND and O_NONBLOCK and nothing else.
fcntl(f, cmd, on) ==
  /\ Call
  /\ CASE f < 0 -> Returns("EBADFD") /\ UNCHANGED fds
       [] f >= 0 /\ cmd = "F_SETFL" ->
            /\ Returns("ok")
            /\ fds' = [fds EXCEPT ![f].on = (@ \ {"APPEND", "NONBLOCK"}) \cup on]
       [] f >= 0 /\ cmd = "F_GETFL" -> Returns("ok") /\ UNCHANGED fds
       [] OTHER -> Returns("EINVAL") /\ UNCHANGED fds
  /\ UNCHANGED <<max_fd, held>>

\* lseek() fails without a function of the driver.
lseek(f) ==
  /\ Call
  /\ IF f < 0 THEN Returns("EBADFD")
     ELSE IF "lseek" \in Provides(fds[f].dev) THEN \E answer \in Answers : Returns(answer)
          ELSE Returns("ENOTSUP")
  /\ UNCHANGED <<fds, max_fd, held>>

\* fstat() and isatty() hand on what the driver says, and take a device whose driver has no
\* fstat() for a terminal: errno is theirs only when the descriptor is no descriptor.
fstat(f) == /\ Call
            /\ Returns(IF f < 0 THEN "EBADFD" ELSE "ok")
            /\ UNCHANGED <<fds, max_fd, held>>
isatty(f) == fstat(f)

\* stat() opens, asks and closes, also when open() has failed: errno then speaks of the
\* descriptor -1 and no more of the name.
stat(name) ==
  /\ Call
  /\ \E answer, closing \in Answers :
       LET r == OpenResult(name, "RDONLY", {}, answer)
           closes == r.fd >= 0 /\ "close" \in Provides(r.t[r.fd].dev)
       IN  /\ fds' = IF r.fd >= 0 THEN release_fd(r.t, r.fd) ELSE r.t
           /\ max_fd' = r.top
           /\ Returns(IF r.fd < 0 THEN "EBADFD" ELSE IF closes THEN closing ELSE "ok")
  /\ UNCHANGED held

\* With ALT_USE_DIRECT_DRIVERS the calls go straight to the drivers of the three streams,
\* and what the drivers return is not put into errno.
Direct(err) == Running /\ direct /\ errno' = err /\ UNCHANGED <<table, phase, todo, direct>>
direct_read(f)   == Direct(IF f = 0 THEN errno ELSE "EBADFD")
direct_write(f)  == Direct(IF f \in {1, 2} THEN errno ELSE "EBADFD")
direct_ioctl(f)  == Direct(IF f \in Std THEN errno ELSE "EBADFD")
direct_fstat(f)  == Direct(errno)
direct_isatty(f) == Direct(errno)
direct_open      == Direct("ENOSYS")
direct_close     == Direct("ENOSYS")
direct_lseek     == Direct("ENOSYS")

DirectCall == \/ direct_open \/ direct_close \/ direct_lseek
              \/ \E f \in {-1} \cup Fd : \/ direct_read(f) \/ direct_write(f) \/ direct_ioctl(f)
                                         \/ direct_fstat(f) \/ direct_isatty(f)

Syscall == \/ \E name \in Names : stat(name) \/ \E mode \in Modes : open(name, mode, {})
           \/ \E f \in Usable \cup {-1} :
                \/ close(f)
                \/ read(f) \/ write(f) \/ lseek(f) \/ fstat(f) \/ isatty(f)
                \/ \E req \in {"TIOCEXCL", "TIOCNXCL", "TIOCSTIMEOUT"} : ioctl(f, req)
                \/ \E cmd \in {"F_GETFL", "F_SETFL", "F_DUPFD"}, on \in SUBSET {"NONBLOCK"} :
                     fcntl(f, cmd, on)
           \/ DirectCall

Next == \/ alt_irq_init \/ alt_sys_init \/ alt_io_redirect
        \/ do_ctors \/ main_returns \/ do_dtors \/ alt_exit
        \/ Syscall

Spec == Init /\ [][Next]_vars
------------------------------------------------------------------------------
(* Properties *)

\* An entry of the table is in use exactly when the program holds its number: no path of
\* open() that fails leaks an entry, none of close() keeps one, and the streams stay.
NoLeak == \A f \in Fd : fds[f].dev # None <=> f \in held \cup Std

\* While a descriptor has exclusive access, open() gives nobody another descriptor of the
\* same device (alt_file_locked() looks at every entry that may be in use).
LockKeepsOthersOut ==
  [][\A f \in held' \ held : \A g \in held :
       fds[g].dev = fds'[f].dev => "EXCL" \notin fds[g].on]_vars

\* From the first constructor to the last destructor the standard streams are the UART, with
\* the access modes of alt_io_redirect(), whatever the program opens, closes or locks.
Streams == Running /\ ~direct => /\ \A f \in Std : fds[f].dev = Uart
                                 /\ fds[0].mode = "RDONLY"
                                 /\ \A f \in {1, 2} : fds[f].mode = "WRONLY"

\* The table implements the abstract table of descriptors.
Refs == [f \in held \cup Std |-> fds[f].dev]
Abstract == INSTANCE Descriptors WITH
  Devices <- {NullDev, Uart} \cup {FileSystems[i] : i \in DOMAIN FileSystems},
  refs <- Refs, running <- phase \in {"ctors", "main", "dtors", "halted"}
ImplementsDescriptors == Abstract!Spec

\* The header of alt_fd_lock(): "If there are no other open file descriptors which reference
\* the same device, then alt_fd_lock() will grant the lock."
LockMeansAlone == \A f, g \in held : "EXCL" \in fds[f].on /\ fds[g].dev = fds[f].dev => f = g
==============================================================================
