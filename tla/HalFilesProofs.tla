--------------------------- MODULE HalFilesProofs ----------------------------
(***************************************************************************)
(* Theorems about HalFiles, for a table of any size, any file systems and  *)
(* any names: no descriptor leaks, the standard streams stay, a lock keeps *)
(* others out, and the table implements Descriptors.                       *)
(***************************************************************************)
EXTENDS HalFiles, TLAPS, SequenceTheorems

Mounts == {FileSystems[i] : i \in DOMAIN FileSystems}
Devices == {NullDev, Uart} \cup Mounts
Entries == [dev : Devices \cup {None}, mode : Modes \cup {"RDONLY", "WRONLY"},
            on : SUBSET {"EXCL", "DEV", "APPEND", "NONBLOCK"}]
Started == Running \/ phase = "halted"

TableType ==
  /\ phase \in {"irq_init", "sys_init", "stdout", "stdin", "stderr", "ctors", "main",
                "dtors", "halted"}
  /\ direct \in BOOLEAN
  /\ fds \in [Fd -> Entries]
  /\ max_fd \in -1..MaxFd - 1
  /\ held \subseteq Fd \ Std

\* The lists of devices: what open() finds is registered.
Registered ==
  /\ \A i \in DOMAIN fss : fss[i] \in Mounts
  /\ phase \in {"irq_init", "sys_init"} => fss = <<>>
  /\ devs = IF phase \in {"irq_init", "sys_init"} \/ direct THEN <<NullDev>>
                                                            ELSE <<Uart, NullDev>>

\* An entry that is not in use holds nothing of its last owner.
Clean == \A f \in Fd : fds[f].dev = None => fds[f] = Unused

\* The loop of alt_file_locked() reaches every descriptor of the program.
HighWater == \A f \in held : f <= max_fd

\* Only devices are locked, never a file system, and nothing before the program runs.
Locks == \A f \in Fd : /\ "DEV" \in fds[f].on => fds[f].dev \in {NullDev, Uart}
                       /\ "EXCL" \in fds[f].on => "DEV" \in fds[f].on /\ Started

\* Which streams alt_io_redirect() has pointed at the UART.
Pointed(f, mode) == fds[f].dev = Uart /\ fds[f].mode = mode
Redirected ==
  /\ ~Started => held = {}
  /\ phase \in {"stdout", "stdin", "stderr"} => ~direct
  /\ phase \in {"irq_init", "sys_init"} \/ direct => \A f \in Std : fds[f].dev = NullDev
  /\ phase \in {"stdin", "stderr"} \/ Started => direct \/ Pointed(1, "WRONLY")
  /\ phase = "stderr" \/ Started => direct \/ Pointed(0, "RDONLY")
  /\ Started => direct \/ Pointed(2, "WRONLY")

TableInv == /\ TableType
            /\ NoLeak /\ Registered /\ Clean /\ HighWater /\ Locks /\ Redirected
------------------------------------------------------------------------------
(* Names *)

LEMMA NamesDiffer == /\ NullDev # None /\ Uart # None /\ NullDev # Uart
                     /\ \A d \in Mounts : d \notin {None, NullDev, Uart}
<1>1. NullDev # None /\ Uart # None
  <2>1. Len(NullDev) = 2 /\ Len(Uart) = 2 /\ Len(None) = 0
    BY DEF NullDev, Uart, None
  <2>2. QED
    BY <2>1
<1>2. NullDev # Uart
  <2>1. NullDev[2] = "null" /\ Uart[2] = "jtag_uart_0"
    BY DEF NullDev, Uart
  <2>2. QED
    BY <2>1
<1>3. QED
  BY <1>1, <1>2, FileSystemsAssumption DEF Mounts

\* What open() finds: a device is no file system.
LEMMA FoundKinds ==
    ASSUME Registered, NEW name, NEW x \in Found(name)
    PROVE  \/ x[2] = FALSE /\ x[1] \in {NullDev, Uart}
           \/ x[2] = TRUE /\ x[1] \in Mounts
<1>1. \A i \in DOMAIN devs : devs[i] \in {NullDev, Uart}
  <2>1. devs = <<NullDev>> \/ devs = <<Uart, NullDev>>
    BY DEF Registered
  <2>2. QED
    BY <2>1
<1>2. CASE x \in {<<devs[i], FALSE>> : i \in find_dev(name)}
  <2>1. PICK i \in find_dev(name) : x = <<devs[i], FALSE>>
    BY <1>2
  <2>2. i \in DOMAIN devs
    BY DEF find_dev
  <2>3. QED
    BY <1>1, <2>1, <2>2
<1>3. CASE x \in {<<fss[i], TRUE>> : i \in find_file(name)}
  <2>1. PICK i \in find_file(name) : x = <<fss[i], TRUE>>
    BY <1>3
  <2>2. i \in DOMAIN fss
    BY DEF find_file
  <2>3. QED
    BY <2>1, <2>2 DEF Registered
<1>4. QED
  BY <1>2, <1>3 DEF Found

\* With the UART in the list its name is found, as a device.
LEMMA UartFound ==
    ASSUME devs = <<Uart, NullDev>>
    PROVE  Found(Uart) = {<<Uart, FALSE>>}
<1>1. DOMAIN devs = {1, 2} /\ devs[1] = Uart /\ devs[2] = NullDev
  OBVIOUS
<1>2. find_dev(Uart) = {1}
  BY <1>1, NamesDiffer DEF find_dev
<1>3. QED
  BY <1>1, <1>2 DEF Found

------------------------------------------------------------------------------
(* open() *)

\* The lowest entry that is not in use.
LEMMA FreeEntry ==
    ASSUME NoLeak, NEW f \in FirstFree(fds)
    PROVE  f \in Fd \ Std /\ f \notin held /\ fds[f].dev = None
BY DEF FirstFree, NoLeak

\* What a call may leave in alt_max_fd.
Tops == {max_fd} \cup {Above(f) : f \in Fd}

Failed(r) == r.fd = -1 /\ r.err # "ok" /\ r.t = fds

\* What a call that succeeds has done: it took an entry nobody used, and looked at the
\* lock of a device.
Opened(r, mode, on) ==
  /\ r.fd \in FirstFree(fds) /\ r.err = "ok" /\ r.top = Above(r.fd)
  /\ \E dev \in Devices, kind \in SUBSET {"DEV"} :
       /\ r.t = [fds EXCEPT ![r.fd] = [dev |-> dev, mode |-> mode, on |-> Kept(on) \cup kind]]
       /\ dev \in Mounts => kind = {}
       /\ dev \notin Mounts => ~file_locked(r.t, r.top, r.fd)

LEMMA OpenAtCases ==
    ASSUME TableInv, NEW dev, NEW isafs \in BOOLEAN, NEW f \in FirstFree(fds),
           isafs => dev \in Mounts, ~isafs => dev \in {NullDev, Uart},
           NEW mode, NEW on, NEW answer,
           NEW r, r = OpenAt(dev, isafs, f, mode, on, answer)
    PROVE  \/ Failed(r) /\ r.top \in Tops
           \/ Opened(r, mode, on)
<1> DEFINE kind == IF isafs THEN {} ELSE {"DEV"}
           t == [fds EXCEPT ![f] = [dev |-> dev, mode |-> mode, on |-> Kept(on) \cup kind]]
           locked == ~isafs /\ file_locked(t, Above(f), f)
           err == IF locked THEN "EACCES"
                  ELSE IF "open" \in Provides(dev) THEN answer ELSE "ok"
<1>1. r = [fd |-> IF err = "ok" THEN f ELSE -1, err |-> err,
           t  |-> IF err = "ok" THEN t ELSE release_fd(t, f), top |-> Above(f)]
  BY DEF OpenAt
<1>2. f \in Fd \ Std /\ fds[f] = Unused
  BY FreeEntry DEF TableInv, Clean
<1>3. CASE err = "ok"
  <2>1. r.fd = f /\ r.err = "ok" /\ r.t = t /\ r.top = Above(f) /\ ~locked
    BY <1>1, <1>3
  <2>2. /\ dev \in Devices /\ kind \in SUBSET {"DEV"}
        /\ dev \in Mounts => kind = {}
        /\ dev \notin Mounts => ~isafs
    BY NamesDiffer DEF Devices
  <2>3. /\ r.t = [fds EXCEPT ![r.fd] = [dev |-> dev, mode |-> mode, on |-> Kept(on) \cup kind]]
        /\ dev \notin Mounts => ~file_locked(r.t, r.top, r.fd)
    BY <2>1, <2>2
  <2> HIDE DEF kind
  <2>4. QED
    BY <2>1, <2>2, <2>3 DEF Opened
<1>4. CASE err # "ok"
  <2>1. r.fd = -1 /\ r.err # "ok" /\ r.t = release_fd(t, f) /\ r.top = Above(f)
    BY <1>1, <1>4
  <2>2. f > 2 /\ f \in Fd /\ fds \in [Fd -> Entries]
    BY <1>2 DEF Std, Fd, TableInv, TableType
  <2>3. release_fd(t, f) = [t EXCEPT ![f] = Unused]
    BY <2>2 DEF release_fd
  <2>4. [t EXCEPT ![f] = Unused] = fds
    BY <1>2, <2>2
  <2>5. QED
    BY <2>1, <2>2, <2>3, <2>4 DEF Failed, Tops
<1>5. QED
  BY <1>3, <1>4

\* open() either fails and leaves the table as it was, or has opened.
LEMMA OpenCases ==
    ASSUME TableInv, NEW name, NEW mode, NEW on, NEW answer,
           NEW r, r = OpenResult(name, mode, on, answer)
    PROVE  \/ Failed(r) /\ r.top \in Tops
           \/ Opened(r, mode, on)
<1>1. CASE Found(name) = {} \/ FirstFree(fds) = {}
  BY <1>1 DEF OpenResult, Failed, Tops
<1>2. CASE Found(name) # {} /\ FirstFree(fds) # {}
  <2> DEFINE x == CHOOSE y \in Found(name) : TRUE
             f == CHOOSE g \in FirstFree(fds) : TRUE
  <2>1. x \in Found(name) /\ f \in FirstFree(fds)
    BY <1>2
  <2>2. r = OpenAt(x[1], x[2], f, mode, on, answer)
    BY <1>2 DEF OpenResult
  <2> HIDE DEF x, f
  <2>3. \/ x[2] = FALSE /\ x[1] \in {NullDev, Uart}
        \/ x[2] = TRUE /\ x[1] \in Mounts
    BY <2>1, FoundKinds DEF TableInv
  <2>4. QED
    BY <2>1, <2>2, <2>3, OpenAtCases
<1>3. QED
  BY <1>1, <1>2

\* The names of the parts, for the proofs below.
LEMMA Parts ==
    ASSUME TableInv
    PROVE  /\ TableType /\ NoLeak /\ Registered /\ Clean /\ HighWater /\ Locks /\ Redirected
           /\ fds \in [Fd -> Entries] /\ held \subseteq Fd \ Std /\ max_fd \in -1..MaxFd - 1
           /\ Std \subseteq Fd
BY MaxFdAssumption DEF TableInv, TableType, Std, Fd

------------------------------------------------------------------------------
(* Steps *)

LEMMA InitTable == Init => TableInv
<1> SUFFICES ASSUME Init PROVE TableInv
  OBVIOUS
<1>1. Std \subseteq Fd /\ max_fd \in -1..MaxFd - 1
  BY MaxFdAssumption DEF Std, Fd, Init
<1>2. fds = [f \in Fd |-> [dev |-> IF f \in Std THEN NullDev ELSE None,
                           mode |-> "RDONLY", on |-> {}]]
  <2>1. [Unused EXCEPT !.dev = NullDev] = [dev |-> NullDev, mode |-> "RDONLY", on |-> {}]
    BY DEF Unused
  <2>2. fds = [f \in Fd |-> IF f \in Std THEN [dev |-> NullDev, mode |-> "RDONLY", on |-> {}]
                            ELSE [dev |-> None, mode |-> "RDONLY", on |-> {}]]
    BY <2>1 DEF Init, Unused
  <2>3. QED
    BY <2>2
<1>3. \A f \in Fd : fds[f].dev = (IF f \in Std THEN NullDev ELSE None) /\ fds[f].on = {}
  BY <1>2
<1>4. TableType
  <2>1. fds \in [Fd -> Entries]
    BY <1>2 DEF Entries, Devices
  <2>2. QED
    BY <1>1, <2>1 DEF TableType, Init
<1>5. NoLeak
  BY <1>3, NamesDiffer DEF NoLeak, Init
<1>6. Registered
  BY DEF Registered, Init
<1>7. Clean
  BY <1>2, <1>3, NamesDiffer DEF Clean, Unused
<1>8. HighWater /\ Locks
  BY <1>3 DEF HighWater, Locks, Init
<1>9. Redirected
  BY <1>1, <1>3 DEF Redirected, Started, Running, Init
<1>10. QED
  BY <1>4, <1>5, <1>6, <1>7, <1>8, <1>9 DEF TableInv

\* Steps that leave the table alone.
LEMMA Elsewhere ==
    ASSUME TableInv, UNCHANGED <<direct, devs, fss, fds, held>>,
           \/ phase' = phase
           \/ Started /\ Started' /\ phase' \in {"ctors", "main", "dtors", "halted"},
           max_fd' \in Tops
    PROVE  TableInv'
<1> USE Parts
<1>1. max_fd' \in -1..MaxFd - 1 /\ max_fd' >= max_fd
  BY MaxFdAssumption DEF Tops, Above, Fd
<1>2. TableType'
  BY <1>1 DEF TableType
<1>3. NoLeak' /\ Clean'
  BY DEF NoLeak, Clean
<1>4. Registered'
  BY DEF Registered, Started, Running
<1>5. HighWater'
  BY <1>1 DEF HighWater, Fd
<1>6. Locks'
  BY DEF Locks, Started, Running
<1>7. Redirected'
  BY DEF Redirected, Started, Running, Pointed
<1>8. QED
  BY <1>2, <1>3, <1>4, <1>5, <1>6, <1>7 DEF TableInv

\* open() that succeeds.
LEMMA Allocates ==
    ASSUME TableInv, Started, ~direct, UNCHANGED <<phase, direct, devs, fss>>,
           NEW mode \in Modes, NEW r, Opened(r, mode, {}),
           fds' = r.t, max_fd' = r.top, held' = held \cup {r.fd}
    PROVE  TableInv'
<1> USE Parts
<1>1. r.fd \in Fd \ Std /\ r.fd \notin held /\ max_fd' = Above(r.fd)
  BY FreeEntry DEF Opened
<1>2. PICK dev \in Devices, kind \in SUBSET {"DEV"} :
        /\ fds' = [fds EXCEPT ![r.fd] = [dev |-> dev, mode |-> mode, on |-> Kept({}) \cup kind]]
        /\ dev \in Mounts => kind = {}
  BY DEF Opened
<1>3. /\ \A f \in Fd \ {r.fd} : fds'[f] = fds[f]
      /\ fds'[r.fd] = [dev |-> dev, mode |-> mode, on |-> kind]
      /\ DOMAIN fds' = Fd /\ dev # None
  BY <1>1, <1>2, NamesDiffer DEF Devices, Kept
<1>4. max_fd' \in -1..MaxFd - 1 /\ max_fd' >= max_fd /\ max_fd' >= r.fd
  BY <1>1, MaxFdAssumption DEF Above, Fd
<1>5. TableType'
  <2>1. fds' \in [Fd -> Entries]
    BY <1>1, <1>2 DEF Entries, Kept
  <2>2. QED
    BY <1>1, <1>4, <2>1 DEF TableType
<1>6. NoLeak' /\ Clean'
  BY <1>1, <1>3 DEF NoLeak, Clean
<1>7. Registered'
  BY DEF Registered
<1>8. HighWater'
  BY <1>1, <1>4 DEF HighWater, Fd
<1>9. Locks'
  <2>1. "EXCL" \notin kind /\ ("DEV" \in kind => dev \in {NullDev, Uart})
    BY <1>2 DEF Devices
  <2>2. QED
    BY <1>3, <2>1 DEF Locks, Started, Running
<1>10. Redirected'
  BY <1>1, <1>3 DEF Redirected, Started, Running, Pointed, Std
<1>11. QED
  BY <1>5, <1>6, <1>7, <1>8, <1>9, <1>10 DEF TableInv

\* close() of a descriptor that the program holds; the standard streams are left alone.
LEMMA Releases ==
    ASSUME TableInv, Started, UNCHANGED <<phase, direct, devs, fss, max_fd>>,
           NEW f \in Fd, fds' = release_fd(fds, f), held' = held \ {f}
    PROVE  TableInv'
<1> USE Parts
<1>1. CASE f \in Std
  <2>1. fds' = fds /\ held' = held
    BY <1>1 DEF release_fd, Std
  <2>2. max_fd' \in Tops /\ phase' = phase
    BY DEF Tops
  <2>3. UNCHANGED <<direct, devs, fss, fds, held>>
    BY <2>1
  <2>4. QED
    BY <2>2, <2>3, Elsewhere
<1>2. CASE f \notin Std
  <2>1. /\ fds' = [fds EXCEPT ![f] = Unused]
        /\ fds'[f] = Unused /\ \A g \in Fd \ {f} : fds'[g] = fds[g]
    BY <1>2 DEF release_fd, Std, Fd
  <2>2. TableType'
    <3>1. fds' \in [Fd -> Entries]
      BY <2>1 DEF Entries, Unused
    <3>2. QED
      BY <3>1 DEF TableType
  <2>3. fds'[f].dev = None
    BY <2>1 DEF Unused
  <2>8. NoLeak' /\ Clean'
    BY <1>2, <2>1, <2>3 DEF NoLeak, Clean
  <2>4. Registered' /\ HighWater'
    BY DEF Registered, HighWater
  <2>5. Locks'
    BY <2>1 DEF Locks, Started, Running, Unused
  <2>6. Redirected'
    BY <1>2, <2>1 DEF Redirected, Started, Running, Pointed, Std
  <2>7. QED
    BY <2>2, <2>4, <2>5, <2>6, <2>8 DEF TableInv
<1>3. QED
  BY <1>1, <1>2

\* ioctl() and fcntl() change the flags of an entry that is in use.
LEMMA SetsFlags ==
    ASSUME TableInv, Started, UNCHANGED <<phase, direct, devs, fss, max_fd, held>>,
           NEW f \in held \cup Std,
           NEW on \in SUBSET {"EXCL", "DEV", "APPEND", "NONBLOCK"},
           fds' = [fds EXCEPT ![f].on = on],
           "DEV" \in on <=> "DEV" \in fds[f].on, "EXCL" \in on => "DEV" \in on
    PROVE  TableInv'
<1> USE Parts
<1>1. /\ f \in Fd
      /\ fds' = [fds EXCEPT ![f] = [dev |-> fds[f].dev, mode |-> fds[f].mode, on |-> on]]
      /\ fds'[f] = [dev |-> fds[f].dev, mode |-> fds[f].mode, on |-> on]
      /\ \A g \in Fd \ {f} : fds'[g] = fds[g]
  <2>1. f \in Fd /\ fds[f] \in Entries
    OBVIOUS
  <2>2. [fds[f] EXCEPT !.on = on] = [dev |-> fds[f].dev, mode |-> fds[f].mode, on |-> on]
    BY <2>1 DEF Entries
  <2>3. fds' = [fds EXCEPT ![f] = [fds[f] EXCEPT !.on = on]]
    OBVIOUS
  <2>4. QED
    BY <2>1, <2>2, <2>3
<1>2. fds' \in [Fd -> Entries]
  BY <1>1 DEF Entries
<1>3. \A g \in Fd : fds'[g].dev = fds[g].dev /\ fds'[g].mode = fds[g].mode
  BY <1>1
<1>4. fds[f].dev # None
  BY <1>1 DEF NoLeak
<1>5. TableType' /\ Registered' /\ HighWater'
  BY <1>2 DEF TableType, Registered, HighWater
<1>6. NoLeak' /\ Clean'
  BY <1>1, <1>3, <1>4 DEF NoLeak, Clean
<1>7. Locks'
  BY <1>1 DEF Locks, Started, Running
<1>8. Redirected'
  BY <1>3 DEF Redirected, Started, Running, Pointed
<1>9. QED
  BY <1>5, <1>6, <1>7, <1>8 DEF TableInv
------------------------------------------------------------------------------
(* Next *)

\* What becomes of the entry of a stream, and of nothing else.
Points(at, f, mode, next) ==
  /\ fds' = [fds EXCEPT ![f] = [dev |-> Uart, mode |-> mode, on |-> {"DEV"}]]
  /\ max_fd' \in Tops
  /\ UNCHANGED <<devs, fss, held, direct>> /\ phase = at /\ phase' = next

\* alt_io_redirect() opens the UART a first time for each stream: it gets an entry, copies it
\* and gives it back.
LEMMA Redirects ==
    ASSUME TableInv, NEW at, NEW f \in Std, NEW mode \in {"RDONLY", "WRONLY"}, NEW next,
           at \in {"stdout", "stdin", "stderr"}, alt_open_fd(at, f, mode, next)
    PROVE  Points(at, f, mode, next)
<1> DEFINE r == OpenResult(Uart, mode, {}, "ok")
<1>1. /\ phase = at /\ phase' = next /\ UNCHANGED <<devs, fss, held, direct>>
      /\ max_fd' = r.top
      /\ fds' = IF r.fd >= 0 THEN release_fd([r.t EXCEPT ![f] = r.t[r.fd]], r.fd) ELSE r.t
  BY DEF alt_open_fd
<1>2. ~Started /\ ~direct /\ held = {} /\ devs = <<Uart, NullDev>>
  BY <1>1, Parts DEF Registered, Redirected, Started, Running
<1>3. Found(Uart) = {<<Uart, FALSE>>}
  BY <1>2, UartFound
<1>4. 3 \in FirstFree(fds)
  <2>1. 3 \in Fd /\ \A g \in 0..2 : g \in Fd
    BY MaxFdAssumption DEF Fd
  <2>2. fds[3].dev = None /\ \A g \in 0..2 : fds[g].dev # None
    BY <1>2, <2>1, Parts DEF NoLeak, Std
  <2>3. QED
    BY <2>1, <2>2 DEF FirstFree
<1>5. FirstFree(fds) = {3}
  <2>1. ASSUME NEW g \in FirstFree(fds) PROVE g = 3
    <3>1. g \in Fd /\ 3 \in Fd /\ fds[g].dev = None /\ fds[3].dev = None
      BY <1>4, <2>1 DEF FirstFree
    <3>2. ~(g < 3) /\ ~(3 < g)
      BY <1>4, <2>1, <3>1 DEF FirstFree, Fd
    <3>3. QED
      BY <3>1, <3>2 DEF Fd
  <2>2. QED
    BY <1>4, <2>1
<1>6. \A g \in Fd : "EXCL" \notin fds[g].on
  BY <1>2, Parts DEF Locks
<1> DEFINE e == [dev |-> Uart, mode |-> mode, on |-> {"DEV"}]
           t == [fds EXCEPT ![3] = e]
<1>7. ~file_locked(t, Above(3), 3)
  <2>1. \A g \in 0..Above(3) : g \in Fd
    BY Parts, MaxFdAssumption DEF Above, Fd
  <2>2. \A g \in Fd : "EXCL" \notin t[g].on
    BY <1>6, Parts
  <2>3. QED
    BY <2>1, <2>2 DEF file_locked
<1>8. r = [fd |-> 3, err |-> "ok", t |-> t, top |-> Above(3)]
  <2> DEFINE x == CHOOSE y \in Found(Uart) : TRUE
             g == CHOOSE h \in FirstFree(fds) : TRUE
  <2>1. x = <<Uart, FALSE>> /\ g = 3 /\ Found(Uart) # {} /\ FirstFree(fds) # {}
    BY <1>3, <1>5
  <2>2. r = OpenAt(x[1], x[2], g, mode, {}, "ok")
    BY <2>1 DEF OpenResult
  <2> HIDE DEF x, g, r
  <2>3. r = OpenAt(Uart, FALSE, 3, mode, {}, "ok")
    <3>1. x[1] = Uart /\ x[2] = FALSE
      BY <2>1
    <3>2. QED
      BY <2>1, <2>2, <3>1
  <2>4. Kept({}) \cup {"DEV"} = {"DEV"}
    BY DEF Kept
  <2>5. QED
    BY <1>7, <2>3, <2>4 DEF OpenAt
<1> HIDE DEF r
<1>9. fds' = [fds EXCEPT ![f] = e]
  <2>1. 3 \in Fd /\ f \in Fd /\ f # 3 /\ fds[3] = Unused
    BY <1>4, Parts DEF FirstFree, Std, Clean
  <2>2. fds' = release_fd([t EXCEPT ![f] = t[3]], 3)
    <3>1. r.fd = 3 /\ r.t = t
      BY <1>8
    <3>2. QED
      BY <1>1, <3>1
  <2>3. release_fd([t EXCEPT ![f] = t[3]], 3) = [[t EXCEPT ![f] = t[3]] EXCEPT ![3] = Unused]
    BY DEF release_fd
  <2>4. t[3] = e
    BY <2>1, Parts
  <2>5. [[t EXCEPT ![f] = e] EXCEPT ![3] = Unused] = [fds EXCEPT ![f] = e]
    BY <2>1, Parts
  <2>6. QED
    BY <2>2, <2>3, <2>4, <2>5
<1>10. max_fd' \in Tops
  BY <1>1, <1>4, <1>8 DEF FirstFree, Tops
<1>11. QED
  BY <1>1, <1>9, <1>10 DEF Points

LEMMA RedirectKeeps == TableInv /\ alt_io_redirect => TableInv'
<1> SUFFICES ASSUME TableInv, alt_io_redirect PROVE TableInv'
  OBVIOUS
<1>1. ASSUME NEW at, NEW f \in Std, NEW mode \in {"RDONLY", "WRONLY"}, NEW next,
             <<at, f, mode, next>> \in { <<"stdout", 1, "WRONLY", "stdin">>,
                                         <<"stdin", 0, "RDONLY", "stderr">>,
                                         <<"stderr", 2, "WRONLY", "ctors">> },
             alt_open_fd(at, f, mode, next)
      PROVE  TableInv'
  <2>1. at \in {"stdout", "stdin", "stderr"} /\ next \in {"stdin", "stderr", "ctors"}
    BY <1>1
  <2>2. /\ fds' = [fds EXCEPT ![f] = [dev |-> Uart, mode |-> mode, on |-> {"DEV"}]]
        /\ max_fd' \in Tops
        /\ UNCHANGED <<devs, fss, held, direct>> /\ phase = at /\ phase' = next
    <3>1. Points(at, f, mode, next)
      BY <1>1, <2>1, Redirects
    <3>2. QED
      BY <3>1 DEF Points
  <2>3. /\ f \in Fd /\ Pointed(f, mode)' /\ \A g \in Fd \ {f} : fds'[g] = fds[g]
        /\ fds'[f].on = {"DEV"}
    BY <2>2, Parts DEF Pointed
  <2>4. held = {} /\ ~direct /\ ~Started
    BY <2>1, <2>2, Parts DEF Redirected, Started, Running
  <2>5. TableType'
    <3>1. fds' \in [Fd -> Entries]
      BY <2>2, Parts DEF Entries, Devices
    <3>2. max_fd' \in -1..MaxFd - 1
      BY <2>2, Parts, MaxFdAssumption DEF Tops, Above, Fd
    <3>3. QED
      BY <2>1, <2>2, <3>1, <3>2, Parts DEF TableType
  <2>6. NoLeak' /\ Clean'
    BY <2>2, <2>3, Parts, NamesDiffer DEF NoLeak, Clean, Pointed
  <2>7. Registered' /\ HighWater'
    BY <2>1, <2>2, <2>4, Parts DEF Registered, HighWater
  <2>8. Locks'
    BY <2>3, <2>4, Parts DEF Locks, Pointed
  <2>9. Redirected'
    BY <1>1, <2>1, <2>2, <2>3, <2>4, Parts DEF Redirected, Started, Running, Pointed, Std
  <2>10. QED
    BY <2>5, <2>6, <2>7, <2>8, <2>9 DEF TableInv
<1>2. QED
  BY <1>1 DEF alt_io_redirect, Std
------------------------------------------------------------------------------
(* What a step of the running program may do to the table *)

\* Nothing, but for the high-water mark of an open() that fails.
Quiet == /\ UNCHANGED <<direct, devs, fss, fds, held>>
         /\ max_fd' \in Tops
         /\ \/ phase' = phase
            \/ Started /\ Started' /\ phase' \in {"ctors", "main", "dtors", "halted"}

Inside == Started /\ UNCHANGED <<phase, direct, devs, fss>>

Grants(r, mode) == /\ Inside /\ ~direct /\ mode \in Modes /\ Opened(r, mode, {})
                   /\ fds' = r.t /\ max_fd' = r.top /\ held' = held \cup {r.fd}

Closes(f) == /\ Inside /\ f \in held \cup Std /\ max_fd' = max_fd
             /\ fds' = release_fd(fds, f) /\ held' = held \ {f}

Marks(f, on) == /\ Inside /\ f \in held \cup Std /\ UNCHANGED <<max_fd, held>>
                /\ on \in SUBSET {"EXCL", "DEV", "APPEND", "NONBLOCK"}
                /\ fds' = [fds EXCEPT ![f].on = on]
                /\ "DEV" \in on <=> "DEV" \in fds[f].on
                /\ "EXCL" \in on => "DEV" \in on

Effect == \/ Quiet
          \/ \E r, mode : Grants(r, mode)
          \/ \E f : Closes(f)
          \/ \E f, on : Marks(f, on)

LEMMA StaysQuiet ==
    ASSUME UNCHANGED <<direct, devs, fss, fds, held, max_fd>>,
           \/ phase' = phase
           \/ Started /\ Started' /\ phase' \in {"ctors", "main", "dtors", "halted"}
    PROVE  Effect
BY DEF Effect, Quiet, Tops

LEMMA OpenEffect ==
    ASSUME TableInv, NEW name, NEW mode \in Modes, open(name, mode, {})
    PROVE  Effect
<1>1. PICK answer \in Answers :
        LET r == OpenResult(name, mode, {}, answer)
        IN  fds' = r.t /\ max_fd' = r.top /\ held' = held \cup ({r.fd} \cap Fd)
  BY DEF open
<1> DEFINE r == OpenResult(name, mode, {}, answer)
<1>2. fds' = r.t /\ max_fd' = r.top /\ held' = held \cup ({r.fd} \cap Fd)
  BY <1>1
<1>3. Running /\ ~direct /\ UNCHANGED <<phase, direct, devs, fss>>
  BY DEF open, Call
<1>4. (Failed(r) /\ r.top \in Tops) \/ Opened(r, mode, {})
  BY OpenCases
<1> HIDE DEF r
<1>5. CASE Failed(r) /\ r.top \in Tops
  <2>1. held' = held /\ fds' = fds /\ max_fd' \in Tops
    BY <1>2, <1>5 DEF Failed, Fd
  <2>2. QED
    BY <1>3, <2>1 DEF Effect, Quiet
<1>6. CASE Opened(r, mode, {})
  <2>1. r.fd \in Fd
    BY <1>6, FreeEntry, Parts DEF Opened
  <2>2. held' = held \cup {r.fd}
    BY <1>2, <2>1
  <2>3. Grants(r, mode)
    BY <1>2, <1>3, <1>6, <2>2 DEF Grants, Inside, Started
  <2>4. QED
    BY <2>3 DEF Effect
<1>7. QED
  BY <1>4, <1>5, <1>6

\* stat() gives back the entry it opened.
LEMMA StatEffect ==
    ASSUME TableInv, NEW name, stat(name)
    PROVE  Effect
<1>1. PICK answer \in Answers :
        LET r == OpenResult(name, "RDONLY", {}, answer)
        IN  /\ fds' = IF r.fd >= 0 THEN release_fd(r.t, r.fd) ELSE r.t
            /\ max_fd' = r.top
  BY DEF stat
<1> DEFINE r == OpenResult(name, "RDONLY", {}, answer)
<1>2. fds' = (IF r.fd >= 0 THEN release_fd(r.t, r.fd) ELSE r.t) /\ max_fd' = r.top
  BY <1>1
<1>3. UNCHANGED <<phase, direct, devs, fss, held>>
  BY DEF stat, Call
<1>4. (Failed(r) /\ r.top \in Tops) \/ Opened(r, "RDONLY", {})
  BY OpenCases
<1> HIDE DEF r
<1>5. CASE Failed(r) /\ r.top \in Tops
  <2>1. fds' = fds /\ max_fd' \in Tops
    BY <1>2, <1>5 DEF Failed
  <2>2. QED
    BY <1>3, <2>1 DEF Effect, Quiet
<1>6. CASE Opened(r, "RDONLY", {})
  <2>1. r.fd \in Fd \ Std /\ fds[r.fd] = Unused /\ r.top \in Tops
    BY <1>6, FreeEntry, Parts DEF Opened, Clean, Tops
  <2>2. PICK e : r.t = [fds EXCEPT ![r.fd] = e]
    BY <1>6 DEF Opened
  <2>3. r.fd > 2 /\ r.fd >= 0
    BY <2>1 DEF Fd, Std
  <2>4. fds' = [r.t EXCEPT ![r.fd] = Unused]
    BY <1>2, <2>3 DEF release_fd
  <2>5. fds' = fds
    BY <2>1, <2>2, <2>4, Parts
  <2>6. QED
    BY <1>2, <1>3, <2>1, <2>5 DEF Effect, Quiet
<1>7. QED
  BY <1>4, <1>5, <1>6

LEMMA CloseEffect ==
    ASSUME NEW f \in Usable \cup {-1}, close(f)
    PROVE  Effect
<1>1. Running /\ UNCHANGED <<phase, direct, devs, fss, max_fd>>
  BY DEF close, Call
<1>2. CASE f < 0
  BY <1>1, <1>2, StaysQuiet DEF close
<1>3. CASE ~(f < 0)
  <2>1. f \in held \cup Std
    BY <1>3 DEF Usable
  <2>2. fds' = release_fd(fds, f) /\ held' = held \ {f}
    BY <1>3 DEF close
  <2>3. QED
    BY <1>1, <2>1, <2>2 DEF Effect, Closes, Inside, Started
<1>4. QED
  BY <1>2, <1>3

\* Writing back the flags of an entry, when "on" is what they become.
LEMMA MarksEntry ==
    ASSUME TableInv, Inside, UNCHANGED <<max_fd, held>>, NEW f \in held \cup Std, NEW on,
           on \subseteq fds[f].on \cup {"EXCL", "APPEND", "NONBLOCK"},
           fds' = [fds EXCEPT ![f].on = on],
           "DEV" \in fds[f].on => "DEV" \in on,
           "EXCL" \in on => "EXCL" \in fds[f].on \/ "DEV" \in fds[f].on
    PROVE  Effect
<1>1. f \in Fd /\ fds[f] \in Entries
  BY Parts
<1>2. fds[f].on \subseteq {"EXCL", "DEV", "APPEND", "NONBLOCK"}
  BY <1>1 DEF Entries
<1>3. "EXCL" \in fds[f].on => "DEV" \in fds[f].on
  BY <1>1, Parts DEF Locks
<1>4. /\ on \in SUBSET {"EXCL", "DEV", "APPEND", "NONBLOCK"}
      /\ "DEV" \in on <=> "DEV" \in fds[f].on
      /\ "EXCL" \in on => "DEV" \in on
  BY <1>2, <1>3
<1>5. Marks(f, on)
  BY <1>4 DEF Marks
<1>6. QED
  BY <1>5 DEF Effect

LEMMA IoctlEffect ==
    ASSUME TableInv, NEW f \in Usable \cup {-1}, NEW req, ioctl(f, req)
    PROVE  Effect
<1>1. Running /\ UNCHANGED <<phase, direct, devs, fss, max_fd, held>>
  BY DEF ioctl, Call
<1>2. CASE fds' = fds
  BY <1>1, <1>2, StaysQuiet
<1>3. CASE fds' # fds
  <2>1. /\ f >= 0 /\ "DEV" \in fds[f].on
        /\ fds' = alt_fd_lock(f) \/ fds' = alt_fd_unlock(f)
    BY <1>3 DEF ioctl
  <2>2. f \in held \cup Std
    BY <2>1 DEF Usable
  <2>3. Inside
    BY <1>1 DEF Inside, Started
  <2>4. CASE fds' = alt_fd_lock(f)
    <3>1. fds' = [fds EXCEPT ![f].on = fds[f].on \cup {"EXCL"}]
      BY <1>3, <2>4 DEF alt_fd_lock
    <3>2. QED
      BY <1>1, <2>1, <2>2, <2>3, <3>1, MarksEntry
  <2>5. CASE fds' = alt_fd_unlock(f)
    <3>1. fds' = [fds EXCEPT ![f].on = fds[f].on \ {"EXCL"}]
      BY <2>5 DEF alt_fd_unlock
    <3>2. QED
      BY <1>1, <2>1, <2>2, <2>3, <3>1, MarksEntry
  <2>6. QED
    BY <2>1, <2>4, <2>5
<1>4. QED
  BY <1>2, <1>3

LEMMA FcntlEffect ==
    ASSUME TableInv, NEW f \in Usable \cup {-1}, NEW cmd, NEW on \in SUBSET {"NONBLOCK"},
           fcntl(f, cmd, on)
    PROVE  Effect
<1>1. Running /\ UNCHANGED <<phase, direct, devs, fss, max_fd, held>>
  BY DEF fcntl, Call
<1>2. CASE fds' = fds
  BY <1>1, <1>2, StaysQuiet
<1>3. CASE fds' # fds
  <2>1. /\ ~(f < 0)
        /\ fds' = [fds EXCEPT ![f].on = (fds[f].on \ {"APPEND", "NONBLOCK"}) \cup on]
    <3>1. f \in Int
      BY Parts DEF Usable, Fd, Std
    <3>2. ~(f < 0) /\ f >= 0 /\ cmd = "F_SETFL"
      BY <1>3, <3>1 DEF fcntl
    <3>3. QED
      BY <3>2 DEF fcntl
  <2>2. f \in held \cup Std
    BY <2>1 DEF Usable
  <2>3. Inside
    BY <1>1 DEF Inside, Started
  <2>4. QED
    BY <1>1, <2>1, <2>2, <2>3, MarksEntry
<1>4. QED
  BY <1>2, <1>3

\* The calls that only ask.
LEMMA AskingEffect ==
    ASSUME NEW f, read(f) \/ write(f) \/ lseek(f) \/ fstat(f) \/ isatty(f) \/ DirectCall
    PROVE  Effect
<1>1. UNCHANGED <<phase, direct, devs, fss, fds, max_fd, held>>
  BY DEF read, write, transfer, lseek, fstat, isatty, Call, DirectCall, Direct, table,
         direct_open, direct_close, direct_lseek, direct_read, direct_write, direct_ioctl,
         direct_fstat, direct_isatty
<1>2. QED
  BY <1>1, StaysQuiet

LEMMA SyscallEffect == TableInv /\ Syscall => Effect
<1> SUFFICES ASSUME TableInv, Syscall PROVE Effect
  OBVIOUS
<1>1. CASE \E name \in Names : stat(name) \/ \E mode \in Modes : open(name, mode, {})
  BY <1>1, StatEffect, OpenEffect
<1>2. ASSUME NEW f \in Usable \cup {-1}, close(f) PROVE Effect
  BY <1>2, CloseEffect
<1>3. ASSUME NEW f \in Usable \cup {-1}, \E req \in {"TIOCEXCL", "TIOCNXCL", "TIOCSTIMEOUT"} : ioctl(f, req)
      PROVE  Effect
  BY <1>3, IoctlEffect
<1>4. ASSUME NEW f \in Usable \cup {-1},
             \E cmd \in {"F_GETFL", "F_SETFL", "F_DUPFD"}, on \in SUBSET {"NONBLOCK"} : fcntl(f, cmd, on)
      PROVE  Effect
  BY <1>4, FcntlEffect
<1>5. ASSUME NEW f, read(f) \/ write(f) \/ lseek(f) \/ fstat(f) \/ isatty(f) \/ DirectCall
      PROVE  Effect
  BY <1>5, AskingEffect
<1>6. QED
  BY <1>1, <1>2, <1>3, <1>4, <1>5 DEF Syscall

\* The running program and the end of alt_main() have these effects and no others.
LEMMA NextEffect ==
    ASSUME TableInv, [Next]_vars
    PROVE  alt_irq_init \/ alt_sys_init \/ alt_io_redirect \/ Effect
<1>1. CASE Syscall
  BY <1>1, SyscallEffect
<1>2. CASE do_ctors \/ main_returns \/ do_dtors
  <2>1. UNCHANGED <<direct, devs, fss, fds, max_fd, held>>
    BY <1>2 DEF do_ctors, main_returns, do_dtors, table
  <2>2. /\ phase \in {"ctors", "main", "dtors"}
        /\ phase' \in {"ctors", "main", "dtors", "halted"}
    BY <1>2 DEF do_ctors, main_returns, do_dtors
  <2>3. Started /\ Started'
    BY <2>2 DEF Started, Running
  <2>4. QED
    BY <2>1, <2>2, <2>3, StaysQuiet
<1>3. CASE UNCHANGED vars
  BY <1>3, StaysQuiet DEF vars
<1>4. QED
  BY <1>1, <1>2, <1>3 DEF Next, alt_exit

LEMMA EffectKeeps == TableInv /\ Effect => TableInv'
<1> SUFFICES ASSUME TableInv, Effect PROVE TableInv'
  OBVIOUS
<1>1. CASE Quiet
  BY <1>1, Elsewhere DEF Quiet
<1>2. ASSUME NEW r, NEW mode, Grants(r, mode) PROVE TableInv'
  BY <1>2, Allocates DEF Grants, Inside
<1>3. ASSUME NEW f, Closes(f) PROVE TableInv'
  BY <1>3, Releases, Parts DEF Closes, Inside
<1>4. ASSUME NEW f, NEW on, Marks(f, on) PROVE TableInv'
  BY <1>4, SetsFlags DEF Marks, Inside
<1>5. QED
  BY <1>1, <1>2, <1>3, <1>4 DEF Effect

LEMMA SysInitKeeps == TableInv /\ (alt_irq_init \/ alt_sys_init) => TableInv'
<1> SUFFICES ASSUME TableInv, alt_irq_init \/ alt_sys_init PROVE TableInv'
  OBVIOUS
<1>1. UNCHANGED <<fds, max_fd, held, direct>>
  BY DEF alt_irq_init, alt_sys_init, table
<1>2. ~Started /\ devs = <<NullDev>> /\ fss = <<>>
  BY Parts DEF alt_irq_init, alt_sys_init, Registered, Started, Running
<1>3. /\ phase' \in {"sys_init", "ctors", "stdout"}
      /\ phase' = "sys_init" => alt_irq_init
      /\ phase' = "ctors" => direct
      /\ phase' = "stdout" => ~direct
      /\ phase \in {"irq_init", "sys_init"}
  BY Parts DEF alt_irq_init, alt_sys_init, TableType
<1>4. TableType' /\ NoLeak' /\ Clean' /\ HighWater'
  BY <1>1, <1>3, Parts DEF TableType, NoLeak, Clean, HighWater
<1>5. Registered'
  <2>1. CASE alt_irq_init
    BY <2>1, <1>2 DEF alt_irq_init, table, Registered
  <2>2. CASE alt_sys_init
    <3>1. fss' = Reverse(FileSystems) \o <<>>
      BY <2>2, <1>2 DEF alt_sys_init
    <3>2. \A i \in DOMAIN fss' : fss'[i] \in Mounts
      BY <3>1, FileSystemsAssumption DEF Reverse, Mounts
    <3>3. devs' = IF direct THEN <<NullDev>> ELSE <<Uart, NullDev>>
      <4>1. <<Uart>> \o <<NullDev>> = <<Uart, NullDev>>
        <5> DEFINE p == <<Uart>>
                   q == <<NullDev>>
        <5>1. p \in Seq({Uart, NullDev}) /\ q \in Seq({Uart, NullDev})
          OBVIOUS
        <5>2. Len(p) = 1 /\ Len(q) = 1 /\ p[1] = Uart /\ q[1] = NullDev
          OBVIOUS
        <5> HIDE DEF p, q
        <5>3. /\ p \o q \in Seq({Uart, NullDev}) /\ Len(p \o q) = 2
              /\ (p \o q)[1] = Uart /\ (p \o q)[2] = NullDev
          BY <5>1, <5>2, ConcatProperties
        <5>4. p \o q = <<Uart, NullDev>>
          <6> DEFINE u == <<Uart, NullDev>>
          <6>1. u \in Seq({Uart, NullDev}) /\ Len(u) = 2 /\ u[1] = Uart /\ u[2] = NullDev
            OBVIOUS
          <6> HIDE DEF u
          <6>2. \A i \in 1..Len(p \o q) : (p \o q)[i] = u[i]
            BY <5>3, <6>1
          <6>3. p \o q = u
            BY <5>3, <6>1, <6>2, SeqEqual
          <6>4. QED
            BY <6>3 DEF u
        <5>5. QED
          BY <5>4 DEF p, q
      <4>2. QED
        BY <2>2, <1>2, <4>1 DEF alt_sys_init, alt_dev_llist_insert
    <3>4. QED
      BY <2>2, <1>1, <3>2, <3>3 DEF alt_sys_init, Registered
  <2>3. QED
    BY <2>1, <2>2
<1>6. Locks'
  BY <1>1, <1>2, Parts DEF Locks
<1>7. Redirected'
  BY <1>1, <1>2, <1>3, Parts DEF Redirected, Started, Running
<1>8. QED
  BY <1>4, <1>5, <1>6, <1>7 DEF TableInv

THEOREM TableInvariant == Spec => []TableInv
<1>1. Init => TableInv
  BY InitTable
<1>2. TableInv /\ [Next]_vars => TableInv'
  BY NextEffect, EffectKeeps, SysInitKeeps, RedirectKeeps
<1>3. QED
  BY <1>1, <1>2, PTL DEF Spec
------------------------------------------------------------------------------
(* What the program may rely on *)

\* No path of open(), close() or stat() leaks an entry or frees one that is in use.
THEOREM NoLeakAlways == Spec => []NoLeak
<1>1. TableInv => NoLeak
  BY DEF TableInv
<1>2. QED
  BY <1>1, TableInvariant, PTL

\* The standard streams are the UART as long as code of the user runs.
THEOREM StreamsAlways == Spec => []Streams
<1>1. TableInv => Streams
  BY Parts DEF Redirected, Streams, Pointed, Started, Std
<1>2. QED
  BY <1>1, TableInvariant, PTL

\* open() never hands out a descriptor of a device that another one has locked.
THEOREM LockKeepsOthersOutAlways == Spec => LockKeepsOthersOut
<1> DEFINE Kept_out == \A f \in held' \ held : \A g \in held :
                         fds[g].dev = fds'[f].dev => "EXCL" \notin fds[g].on
<1>1. TableInv /\ [Next]_vars => [Kept_out]_vars
  <2> SUFFICES ASSUME TableInv, [Next]_vars PROVE Kept_out
    OBVIOUS
  <2>1. CASE held' \subseteq held
    BY <2>1
  <2>2. ASSUME NEW r, NEW mode, Grants(r, mode) PROVE Kept_out
    <3>1. /\ held' = held \cup {r.fd} /\ fds' = r.t /\ r.top = Above(r.fd)
          /\ r.fd \in Fd \ Std /\ r.fd \notin held
      BY <2>2, FreeEntry, Parts DEF Grants, Opened
    <3>2. PICK dev \in Devices, kind \in SUBSET {"DEV"} :
            /\ r.t = [fds EXCEPT ![r.fd] = [dev |-> dev, mode |-> mode, on |-> Kept({}) \cup kind]]
            /\ dev \notin Mounts => ~file_locked(r.t, r.top, r.fd)
      BY <2>2 DEF Grants, Opened
    <3>3. fds'[r.fd].dev = dev /\ \A g \in held : fds'[g] = fds[g]
      BY <3>1, <3>2, Parts
    <3> SUFFICES ASSUME NEW g \in held, fds[g].dev = dev, "EXCL" \in fds[g].on PROVE FALSE
      BY <3>1, <3>3
    <3>4. g \in Fd /\ g # r.fd
      BY <3>1, Parts
    <3>5. dev \in {NullDev, Uart}
      BY <3>4, Parts DEF Locks
    <3>6. ~file_locked(r.t, r.top, r.fd)
      BY <3>2, <3>5, NamesDiffer
    <3>7. g \in 0..r.top
      <4>1. g <= max_fd /\ g >= 0
        BY <3>4, Parts DEF HighWater, Fd
      <4>2. QED
        BY <3>1, <3>4, <4>1, Parts, MaxFdAssumption DEF Above, Fd
    <3>8. QED
      BY <3>1, <3>3, <3>4, <3>6, <3>7 DEF file_locked
  <2>3. CASE alt_irq_init \/ alt_sys_init \/ alt_io_redirect
    BY <2>1, <2>3 DEF alt_irq_init, alt_sys_init, alt_io_redirect, alt_open_fd, table
  <2>4. CASE Effect
    BY <2>1, <2>2, <2>4 DEF Effect, Quiet, Closes, Marks
  <2>5. QED
    BY <2>3, <2>4, NextEffect
<1>2. QED
  BY <1>1, TableInvariant, PTL DEF Spec, LockKeepsOthersOut

------------------------------------------------------------------------------
(* The table implements Descriptors *)

Live == phase \in {"ctors", "main", "dtors", "halted"}

LEMMA LiveIsStarted == Live = Started
BY DEF Live, Started, Running

LEMMA InitRefines == Init => Abstract!Init
<1> SUFFICES ASSUME Init PROVE Abstract!Init
  OBVIOUS
<1>1. TableInv
  BY InitTable
<1>2. held = {} /\ phase = "irq_init" /\ \A f \in Std : fds[f].dev = NullDev
  BY <1>1, Parts DEF Init, Redirected
<1>3. Refs = [f \in Std |-> NullDev]
  BY <1>2 DEF Refs
<1>4. QED
  BY <1>2, <1>3 DEF Abstract!Init, Abstract!Std, Std

\* Before the program runs: the streams may be pointed at devices, and nothing else.
LEMMA StartRefines ==
    ASSUME TableInv, TableInv', ~Started, held' = {},
           Started' => \E d \in Devices : \A f \in Std : fds'[f].dev = d
    PROVE  Abstract!Start
<1>1. Refs' = [f \in Std |-> fds'[f].dev]
  BY DEF Refs
<1>2. \A f \in Std : fds'[f].dev \in Devices
  <2>1. fds' \in [Fd -> Entries] /\ NoLeak' /\ Std \subseteq Fd
    BY Parts DEF TableInv, TableType
  <2>2. QED
    BY <2>1 DEF NoLeak, Entries
<1>3. Refs' \in [Std -> Devices]
  BY <1>1, <1>2
<1>4. ~Live /\ Live' \in BOOLEAN
  BY DEF Live, Started, Running
<1>5. Live' => \E d \in Devices : \A f \in Std : Refs'[f] = d
  <2>1. Live' => Started'
    BY DEF Live, Started, Running
  <2>2. QED
    BY <1>1, <2>1
<1>6. QED
  BY <1>3, <1>4, <1>5 DEF Abstract!Start, Abstract!Std, Std, Devices, Mounts, Live

LEMMA OpenRefines ==
    ASSUME TableInv, NEW r, NEW mode, Grants(r, mode)
    PROVE  \E f \in 0..MaxFd - 1, d \in Devices : Abstract!Open(f, d)
<1>1. /\ held' = held \cup {r.fd} /\ fds' = r.t /\ phase' = phase
      /\ r.fd \in Fd \ Std /\ r.fd \notin held /\ Started
  BY FreeEntry, Parts DEF Grants, Opened, Inside
<1>2. PICK dev \in Devices, kind \in SUBSET {"DEV"} :
        r.t = [fds EXCEPT ![r.fd] = [dev |-> dev, mode |-> mode, on |-> Kept({}) \cup kind]]
  BY DEF Grants, Opened
<1>3. fds'[r.fd].dev = dev /\ \A g \in Fd \ {r.fd} : fds'[g] = fds[g]
  BY <1>1, <1>2, Parts
<1>4. Refs' = [g \in DOMAIN Refs \cup {r.fd} |-> IF g = r.fd THEN dev ELSE Refs[g]]
  <2>1. DOMAIN Refs = held \cup Std /\ \A g \in held \cup Std : Refs[g] = fds[g].dev
    BY DEF Refs
  <2>2. \A g \in held \cup Std : g \in Fd \ {r.fd}
    BY <1>1, Parts
  <2>3. Refs' = [g \in held' \cup Std |-> fds'[g].dev]
    BY DEF Refs
  <2>4. held' \cup Std = DOMAIN Refs \cup {r.fd}
    BY <1>1, <2>1
  <2>5. \A g \in held' \cup Std : fds'[g].dev = IF g = r.fd THEN dev ELSE Refs[g]
    BY <1>1, <1>3, <2>1, <2>2
  <2>6. QED
    BY <2>3, <2>4, <2>5
<1>5. r.fd \in 0..MaxFd - 1 /\ r.fd \notin DOMAIN Refs
  BY <1>1 DEF Fd, Refs
<1>6. Live /\ Live' = Live
  BY <1>1, LiveIsStarted DEF Live
<1>7. Abstract!Open(r.fd, dev)
  BY <1>4, <1>5, <1>6 DEF Abstract!Open, Live
<1>8. QED
  BY <1>5, <1>7

LEMMA CloseRefines ==
    ASSUME TableInv, NEW f, Closes(f)
    PROVE  (\E g \in 0..MaxFd - 1 : Abstract!Close(g)) \/ UNCHANGED <<Refs, Live>>
<1>1. /\ f \in held \cup Std /\ fds' = release_fd(fds, f) /\ held' = held \ {f}
      /\ phase' = phase /\ Started
  BY DEF Closes, Inside
<1>2. Live /\ Live' = Live
  BY <1>1, LiveIsStarted DEF Live
<1>3. CASE f \in Std
  <2>1. fds' = fds /\ held' = held
    BY <1>1, <1>3, Parts DEF release_fd, Std
  <2>2. QED
    BY <1>2, <2>1 DEF Refs
<1>4. CASE f \notin Std
  <2>1. f \in held /\ f \in Fd \ Std /\ fds' = [fds EXCEPT ![f] = Unused]
    BY <1>1, <1>4, Parts DEF release_fd, Std, Fd
  <2>2. DOMAIN Refs = held \cup Std /\ \A g \in held \cup Std : Refs[g] = fds[g].dev
    BY DEF Refs
  <2>3. Refs' = [g \in DOMAIN Refs \ {f} |-> Refs[g]]
    <3>1. Refs' = [g \in held' \cup Std |-> fds'[g].dev]
      BY DEF Refs
    <3>2. held' \cup Std = DOMAIN Refs \ {f}
      BY <1>1, <1>4, <2>1, <2>2
    <3>3. \A g \in held' \cup Std : fds'[g].dev = Refs[g]
      BY <1>1, <2>1, <2>2, Parts
    <3>4. QED
      BY <3>1, <3>2, <3>3
  <2>4. Abstract!Close(f)
    BY <1>2, <2>1, <2>2, <2>3 DEF Abstract!Close, Abstract!Std, Std, Live
  <2>5. QED
    BY <2>1, <2>4 DEF Fd
<1>5. QED
  BY <1>3, <1>4

LEMMA NextRefines ==
    ASSUME TableInv, TableInv', [Next]_vars
    PROVE  [Abstract!Next]_(Abstract!vars)
<1>1. CASE UNCHANGED <<Refs, Live>>
  BY <1>1 DEF Abstract!vars, Live
<1>2. CASE alt_irq_init \/ alt_sys_init
  <2>1. UNCHANGED <<fds, held, direct>> /\ ~Started
    BY <1>2 DEF alt_irq_init, alt_sys_init, table, Started, Running
  <2>2. held' = {} /\ \A f \in Std : fds'[f].dev = NullDev
    BY <1>2, <2>1, Parts DEF Redirected, alt_irq_init, alt_sys_init
  <2>3. Abstract!Start
    BY <2>1, <2>2, StartRefines DEF Devices
  <2>4. QED
    BY <2>3 DEF Abstract!Next
<1>3. CASE alt_io_redirect
  <2>1. ~Started /\ held' = held /\ direct' = direct
    BY <1>3 DEF alt_io_redirect, alt_open_fd, Started, Running
  <2>2. held' = {} /\ ~direct
    BY <1>3, <2>1, Parts DEF Redirected, alt_io_redirect, alt_open_fd
  <2>3. Started' => \A f \in Std : fds'[f].dev = Uart
    BY <2>1, <2>2, Parts DEF TableInv, Redirected, Pointed, Std
  <2>4. Abstract!Start
    BY <2>1, <2>2, <2>3, StartRefines DEF Devices
  <2>5. QED
    BY <2>4 DEF Abstract!Next
<1>4. CASE Effect
  <2>1. CASE Quiet
    <3>1. Live' = Live
      BY <2>1 DEF Quiet, Live, Started, Running
    <3>2. Refs' = Refs
      BY <2>1 DEF Quiet, Refs
    <3>3. QED
      BY <1>1, <3>1, <3>2
  <2>2. ASSUME NEW r, NEW mode, Grants(r, mode) PROVE Abstract!Next
    BY <2>2, OpenRefines DEF Abstract!Next, Devices, Mounts
  <2>3. ASSUME NEW f, Closes(f) PROVE [Abstract!Next]_(Abstract!vars)
    BY <1>1, <2>3, CloseRefines DEF Abstract!Next
  <2>4. ASSUME NEW f, NEW on, Marks(f, on) PROVE UNCHANGED <<Refs, Live>>
    <3>1. /\ fds' = [fds EXCEPT ![f].on = on] /\ held' = held /\ phase' = phase
          /\ \A g \in held \cup Std : g \in Fd
      BY <2>4, Parts DEF Marks, Inside
    <3>2. \A g \in held \cup Std : fds'[g].dev = fds[g].dev
      BY <3>1, Parts DEF Entries
    <3>3. QED
      BY <3>1, <3>2 DEF Refs, Live
  <2>5. QED
    BY <1>1, <1>4, <2>1, <2>2, <2>3, <2>4 DEF Effect
<1>5. QED
  BY <1>2, <1>3, <1>4, NextEffect

\* The table of the HAL is an abstract table of descriptors, for a table of any size and
\* any file systems.
THEOREM ImplementsDescriptorsAlways == Spec => ImplementsDescriptors
<1>1. Init => Abstract!Init
  BY InitRefines
<1>2. TableInv /\ TableInv' /\ [Next]_vars => [Abstract!Next]_(Abstract!vars)
  BY NextRefines
<1>3. QED
  BY <1>1, <1>2, TableInvariant, PTL DEF Spec, ImplementsDescriptors, Abstract!Spec
==============================================================================
