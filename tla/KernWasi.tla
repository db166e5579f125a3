------------------------------ MODULE KernWasi -------------------------------
(* What a running WASM program asks of the kernel: the host functions of     *)
(* wasm_spawn.c that read the console, run a shell command and capture its   *)
(* output, and open, stat and close files.  A program runs with interrupts   *)
(* enabled, so other programs run between two bytes it reads or prints.      *)
(*                                                                           *)
(* Reading and writing files through a descriptor is KernFs; the ring the    *)
(* console's keys come from is KernInput, and one program reads it at a time.*)
(* The linear memory of a program is left out: its offsets are in range.     *)
EXTENDS Integers, Sequences, SequencesExt, FiniteSets, FiniteSetsExt

CONSTANTS
  Progs,      \* running programs
  Parent,     \* function: the program a program was spawned by, or NoProg
  NoProg,
  HostFiles,  \* paths
  NoFileYet,
  HostFds,    \* descriptors allocate_fd gives out: from 3 on
  Chars,      \* keys that are plain characters
  IovLens,    \* lengths of the buffers of one WASI read
  CapMax,     \* output_capture_max
  MaxKeys,    \* bound: keys typed
  MaxSaid     \* bound: characters a command prints

ASSUME HostAssumption ==
  /\ HostFds \subseteq Nat \ 0 .. 2 /\ HostFds # {}
  /\ CapMax \in Nat \ {0}
  /\ Parent \in [Progs -> Progs \cup {NoProg}]

Keys == Chars \cup {"newline", "erase", "ctrl_d"}

VARIABLES
  keys,      \* the foreground key queue
  typed,     \* keys typed so far
  call,      \* per program, the host call it is in
  kbuf,      \* k_capture_buf, which all programs share
  capLen,    \* per program, output_capture_len, or -1: no output_capture_buf
  said,      \* history: what the command of a program has printed
  mixed,     \* history: programs whose capture another program's overlapped
  fdTable,   \* per program, fd_table
  present    \* the files there are; programs make them
hostVars == <<keys, typed, call, kbuf, capLen, said, mixed, fdTable, present>>
consoleVars == <<keys, typed>>
captureVars == <<kbuf, capLen, said, mixed>>
fileVars == <<fdTable, present>>

Zero == NoProg
Working == [at |-> "program"]

HostInit ==
  /\ keys = <<>> /\ typed = 0
  /\ call = [p \in Progs |-> Working]
  /\ kbuf = [i \in 1 .. CapMax |-> Zero]
  /\ capLen = [p \in Progs |-> -1]
  /\ said = [p \in Progs |-> <<>>]
  /\ mixed = {}
  /\ fdTable = [p \in Progs |-> [d \in HostFds |-> NoFileYet]]
  /\ present = {}

At(p, l) == call[p].at = l
In(p, rec) == call' = [call EXCEPT ![p] = rec]

------------------------------------------------------------------------------
(* fd_read on descriptor 0, of the env imports and of WASI.                  *)
KeyArrives(k) ==
  /\ typed < MaxKeys
  /\ typed' = typed + 1
  /\ keys' = Append(keys, k)
  /\ UNCHANGED <<call, captureVars, fileVars>>

(* Buffer number i of lens is being filled with got; data is what the        *)
(* buffers before it hold, and ate the keys each buffer has taken.           *)
ReadBegin(p, api, lens) ==
  /\ At(p, "program")
  /\ \A q \in Progs : ~At(q, "read")
  /\ api = "env" => Len(lens) = 1
  /\ In(p, [at |-> "read", api |-> api, lens |-> lens, i |-> 1, got |-> <<>>,
            data |-> <<>>, ate |-> [j \in DOMAIN lens |-> <<>>]])
  /\ UNCHANGED <<consoleVars, captureVars, fileVars>>

(* A faulty variant: an erase is passed on as a byte when it undoes nothing. *)
StoredErase(got, k) ==
  IF k = "erase" /\ got # <<>> THEN Front(got) ELSE Append(got, k)
Stored(got, k) ==
  IF k # "erase" THEN Append(got, k) ELSE IF got = <<>> THEN got ELSE Front(got)

BufferDone(c, got, k) == Len(got) = c.lens[c.i] \/ k = "newline"

(* The rest of the call once a buffer is full or ends in a newline.          *)
AfterBuffer(c, got, ate) ==
  IF c.i = Len(c.lens)
    THEN [at |-> "line", api |-> c.api, data |-> c.data \o got, ate |-> ate]
    ELSE [c EXCEPT !.i = @ + 1, !.got = <<>>, !.data = @ \o got, !.ate = ate]

(* One key: Ctrl+D ends an env read, which then returns no bytes.            *)
ReadKey(p) ==
  /\ At(p, "read") /\ keys # <<>>
  /\ keys' = Tail(keys)
  /\ LET c == call[p]
         k == Head(keys)
         ate == [c.ate EXCEPT ![c.i] = Append(@, k)]
         got == Stored(c.got, k)
     IN IF k = "ctrl_d" /\ c.api = "env"
          THEN In(p, [at |-> "line", api |-> "env", data |-> <<>>, ate |-> ate])
        ELSE IF BufferDone(c, got, k)
          THEN In(p, AfterBuffer(c, got, ate))
          ELSE In(p, [c EXCEPT !.got = got, !.ate = ate])
  /\ UNCHANGED <<typed, captureVars, fileVars>>

------------------------------------------------------------------------------
(* shell_exec: the output of a command goes to the one static buffer.        *)
ShellBegin(p) ==
  /\ At(p, "program")
  /\ In(p, [at |-> "shell"])
  /\ kbuf' = [kbuf EXCEPT ![1] = Zero]
  /\ capLen' = [capLen EXCEPT ![p] = 0]
  /\ said' = [said EXCEPT ![p] = <<>>]
  /\ LET others == {q \in Progs \ {p} : At(q, "shell") \/ At(q, "copy")}
     IN mixed' = (mixed \ {p}) \cup others
                   \cup IF \E q \in others : At(q, "shell") THEN {p} ELSE {}
  /\ UNCHANGED <<consoleVars, fileVars>>

(* term_get_capture_proc.                                                    *)
CaptureProc(q) ==
  IF capLen[q] >= 0 THEN q
  ELSE IF Parent[q] # NoProg /\ capLen[Parent[q]] >= 0 THEN Parent[q] ELSE NoProg

(* Room is kept for the terminating zero.                                    *)
HasRoom(len) == len + 1 < CapMax

(* A byte of term_write, by the program or a program its command spawned.    *)
PrintByte(q) ==
  /\ At(q, "shell") \/ At(q, "program")
  /\ LET c == CaptureProc(q) IN
     /\ c # NoProg /\ Len(said[c]) < MaxSaid
     /\ said' = [said EXCEPT ![c] = Append(@, q)]
     /\ IF HasRoom(capLen[c])
          THEN /\ kbuf' = [kbuf EXCEPT ![capLen[c] + 1] = q, ![capLen[c] + 2] = Zero]
               /\ capLen' = [capLen EXCEPT ![c] = @ + 1]
          ELSE UNCHANGED <<kbuf, capLen>>
  /\ UNCHANGED <<consoleVars, call, mixed, fileVars>>

ShellEnd(p) ==
  /\ At(p, "shell")
  /\ In(p, [at |-> "copy", len |-> capLen[p]])
  /\ capLen' = [capLen EXCEPT ![p] = -1]
  /\ UNCHANGED <<consoleVars, kbuf, said, mixed, fileVars>>

(* The captured bytes reach the program's memory after the lock is given up. *)
ShellCopy(p) ==
  /\ At(p, "copy")
  /\ In(p, [at |-> "output", data |-> [i \in 1 .. call[p].len |-> kbuf[i]]])
  /\ UNCHANGED <<consoleVars, captureVars, fileVars>>

Return(p) ==
  /\ At(p, "line") \/ At(p, "output")
  /\ In(p, Working)
  /\ said' = [said EXCEPT ![p] = <<>>]
  /\ UNCHANGED <<consoleVars, kbuf, capLen, mixed, fileVars>>

------------------------------------------------------------------------------
(* Files.  allocate_fd gives the lowest free descriptor.                     *)
FreeFds(p) == {d \in HostFds : fdTable[p][d] = NoFileYet}
Opened(p, f) == fdTable' = [fdTable EXCEPT ![p][Min(FreeFds(p))] = f]

(* fs_open, and with the flag CREAT fs_create, which makes the file before   *)
(* it looks for a descriptor.                                                *)
PathOpen(p, f, creat) ==
  /\ At(p, "program")
  /\ IF FreeFds(p) # {} /\ (f \in present \/ creat)
       THEN Opened(p, f) ELSE UNCHANGED fdTable
  /\ present' = IF creat THEN present \cup {f} ELSE present
  /\ UNCHANGED <<consoleVars, call, captureVars>>

FdClose(p, d) ==
  /\ At(p, "program") /\ fdTable[p][d] # NoFileYet
  /\ fdTable' = [fdTable EXCEPT ![p][d] = NoFileYet]
  /\ UNCHANGED <<consoleVars, call, captureVars, present>>

(* path_filestat_get opens the file for a moment, to ask for its size.       *)
StatOpen(p, f) ==
  /\ At(p, "program") /\ f \in present /\ FreeFds(p) # {}
  /\ Opened(p, f)
  /\ In(p, [at |-> "stat", fd |-> Min(FreeFds(p))])
  /\ UNCHANGED <<consoleVars, captureVars, present>>

StatClose(p) ==
  /\ At(p, "stat")
  /\ fdTable' = [fdTable EXCEPT ![p][call[p].fd] = NoFileYet]
  /\ In(p, Working)
  /\ UNCHANGED <<consoleVars, captureVars, present>>

ConsoleNext ==
  \/ \E k \in Keys : KeyArrives(k)
  \/ \E p \in Progs :
       \/ \E lens \in IovLens : ReadBegin(p, "env", lens) \/ ReadBegin(p, "wasi", lens)
       \/ ReadKey(p) \/ Return(p)

CaptureNext == \E p \in Progs :
  ShellBegin(p) \/ PrintByte(p) \/ ShellEnd(p) \/ ShellCopy(p) \/ Return(p)

FilesNext == \E p \in Progs :
  \/ \E f \in HostFiles : StatOpen(p, f) \/ PathOpen(p, f, TRUE) \/ PathOpen(p, f, FALSE)
  \/ \E d \in HostFds : FdClose(p, d)
  \/ StatClose(p)

HostNext == ConsoleNext \/ CaptureNext \/ FilesNext

HostSpec == HostInit /\ [][HostNext]_hostVars

------------------------------------------------------------------------------
(* The characters a person who types ks and sees the erases take effect      *)
(* means: those that no later run of keys takes back.                        *)
Kept(ks) ==
  LET erases(i, j) == Cardinality({n \in i .. j : ks[n] = "erase"})
      chars(i, j) == (j - i + 1) - erases(i, j)
      stays(i) == /\ ks[i] # "erase"
                  /\ \A j \in i + 1 .. Len(ks) : erases(i + 1, j) <= chars(i + 1, j)
  IN [n \in {i \in DOMAIN ks : stays(i)} |-> ks[n]]
Meant(ks) ==
  LET kept == Kept(ks)
      nth(n) == CHOOSE i \in DOMAIN kept : Cardinality({j \in DOMAIN kept : j <= i}) = n
  IN [n \in 1 .. Cardinality(DOMAIN kept) |-> kept[nth(n)]]

MeantAll(ate) == FlattenSeq([i \in DOMAIN ate |-> Meant(ate[i])])

(* Reading the console: what a read returns is what the keys it took out of  *)
(* the queue mean, erases applied buffer by buffer, and a Ctrl+D ends an env *)
(* read with nothing.                                                        *)
ReadsWhatWasTyped ==
  \A p \in Progs :
    At(p, "line") =>
      call[p].data = IF call[p].api = "env" /\ Last(Last(call[p].ate)) = "ctrl_d"
                       THEN <<>> ELSE MeantAll(call[p].ate)

(* shell_exec: a program gets what its command and the programs the command  *)
(* spawned have printed, up to the room there is, as long as no other        *)
(* program's command is captured meanwhile.                                  *)
CapturesItsCommand ==
  \A p \in Progs :
    At(p, "output") /\ p \notin mixed =>
      call[p].data = SubSeq(said[p], 1, Min({Len(said[p]), CapMax - 1}))

(* What a program gets from the console, by keys or by a command.            *)
ConsoleAnswers == ReadsWhatWasTyped /\ CapturesItsCommand
==============================================================================
