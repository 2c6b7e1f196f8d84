-------------------------------- MODULE Shell --------------------------------
(***************************************************************************)
(* The command shell (cshell/src/main.c) on the file system: echo and cat  *)
(* with their redirections, and programs, which are opened, forked and     *)
(* executed.  ls, cat and echo to the screen change nothing that lasts.    *)
(*                                                                         *)
(* Only one process works at a time: the shell waits in process_join for   *)
(* the program.  A program that cannot be executed leaves a second shell:  *)
(* sys_exec returns in the son, which goes on in main while its father     *)
(* waits for it.                                                           *)
(***************************************************************************)
EXTENDS FileSystem

CONSTANT CHUNK      \* bytes cat copies at a time (1024, two blocks)

ASSUME ShellAssumption ==
  /\ CHUNK = 2 * BLOCK_SIZE /\ MAXOFF >= NR_BLOCKS * BLOCK_SIZE + CHUNK
  /\ FCBMAX = NR_FILE_STREAM                 \* 256 both

VARIABLES
  pc,      \* where the shell is: "prompt", before a call, or "program"
  me,      \* the process that is the shell
  kid,     \* the son that was forked last
  cmd,     \* the command: op, file, target and redirection (">", ">>", "none")
  fd, out, \* the local variables of echo, cat and do_shell
  l,       \* the bytes to be written
  leaks,   \* history: programs opened so far
  goal     \* history: what the size of the target should become

shellVars == <<pc, me, kid, cmd, fd, out, l, leaks, goal>>
systemVars == <<vars, shellVars>>

NoCmd == [op |-> "none", file |-> "none", to |-> "none", mode |-> "none"]

ShellInit ==
  /\ Init
  /\ pc = "prompt" /\ me = (CHOOSE p \in live : TRUE) /\ kid = me /\ cmd = NoCmd
  /\ fd = -1 /\ out = -1 /\ l = 0 /\ leaks = 0 /\ goal = 0

(* Back in main: process p reads the next command, all locals are gone.    *)
Prompt(p) ==
  /\ pc' = "prompt" /\ me' = p /\ kid' = p /\ cmd' = NoCmd
  /\ fd' = -1 /\ out' = -1 /\ l' = 0 /\ goal' = 0

(* What open returns.                                                      *)
OpenResult(name, flags) ==
  IF \/ CanOpen(name)
     \/ flags # FS_RW /\ FreeEntry # -1 /\ INodeAlloc # -1 /\ FreeStream # -1
  THEN FreeFd(me) ELSE -1

SizeOf(name) == IF Named(name) = -1 THEN 0 ELSE dir[Named(name)].size

(* A system call on a descriptor of -1 returns at once.                    *)
OnFd(d, Call) == IF d = -1 THEN fault = "none" /\ UNCHANGED vars ELSE Call

-----------------------------------------------------------------------------
(* creadline, parse_arg, do_shell.                                         *)
EchoCommand(g, mode, len) ==
  /\ pc = "prompt" /\ fault = "none"
  /\ cmd' = [op |-> "echo", file |-> "none", to |-> g, mode |-> mode]
  /\ l' = len /\ pc' = "open_out" /\ fd' = -1
  /\ UNCHANGED <<vars, me, kid, out, leaks, goal>>

CatCommand(f, g, mode) ==
  /\ pc = "prompt" /\ fault = "none"
  /\ cmd' = [op |-> "cat", file |-> f, to |-> g, mode |-> mode]
  /\ pc' = "open_in"
  /\ UNCHANGED <<vars, me, kid, fd, out, l, leaks, goal>>

(* cat goes on when the file does not exist.                               *)
OpenIn ==
  /\ pc = "open_in" /\ Open(me, cmd.file, FS_RW)
  /\ fd' = OpenResult(cmd.file, FS_RW)
  /\ pc' = IF cmd.mode = "none" THEN "read" ELSE "open_out"
  /\ UNCHANGED <<me, kid, cmd, out, l, leaks, goal>>

OpenOut ==
  LET flags == IF cmd.mode = ">" THEN FS_RWD ELSE FS_RWC
      old   == IF cmd.mode = ">" THEN 0 ELSE SizeOf(cmd.to)
  IN /\ pc = "open_out" /\ Open(me, cmd.to, flags)
     /\ out' = OpenResult(cmd.to, flags)
     /\ goal' = old + (IF cmd.op = "echo" THEN l ELSE IF fd = -1 THEN 0 ELSE SizeOf(cmd.file))
     /\ pc' = IF cmd.mode = ">>" THEN "seek" ELSE IF cmd.op = "echo" THEN "write" ELSE "read"
     /\ UNCHANGED <<me, kid, cmd, fd, l, leaks>>

(* Mutant: the append starts at the beginning.                             *)
SeekEnd_Start ==
  /\ pc = "seek" /\ OnFd(out, Lseek(me, out, 0, 0))
  /\ pc' = IF cmd.op = "echo" THEN "write" ELSE "read"
  /\ UNCHANGED <<me, kid, cmd, fd, out, l, leaks, goal>>

SeekEnd ==
  /\ pc = "seek" /\ OnFd(out, Lseek(me, out, 0, 2))
  /\ pc' = IF cmd.op = "echo" THEN "write" ELSE "read"
  /\ UNCHANGED <<me, kid, cmd, fd, out, l, leaks, goal>>

(* The loop of cat: read returns -1 at the end of the file.                *)
Left(d) == LET f == fs[fcb[me][d]]
           IN IF f.offset + CHUNK >= f.file_size THEN f.file_size - f.offset ELSE CHUNK

(* Mutant: a read of nothing does not end the loop.                        *)
ReadIn_ZeroIsData ==
  LET n == IF fd = -1 THEN 0 ELSE Left(fd)
  IN /\ pc = "read" /\ OnFd(fd, Read(me, fd, CHUNK))
     /\ l' = n
     /\ pc' = IF cmd.mode = "none" THEN "read" ELSE "write"
     /\ UNCHANGED <<me, kid, cmd, fd, out, leaks, goal>>

ReadIn ==
  LET n == IF fd = -1 THEN 0 ELSE Left(fd)
  IN /\ pc = "read" /\ OnFd(fd, Read(me, fd, CHUNK))
     /\ l' = n
     /\ pc' = IF n # 0 THEN (IF cmd.mode = "none" THEN "read" ELSE "write")
              ELSE IF cmd.mode = "none" THEN "close_in" ELSE "close_out"
     /\ UNCHANGED <<me, kid, cmd, fd, out, leaks, goal>>

(* echo without a text computes a length of -1.                            *)
WriteOut ==
  /\ pc = "write"
  /\ OnFd(out, IF l = -1 THEN Runs(me) /\ fault' = "negative" /\ UNCHANGED <<diskVars, fs, fcb, live>>
             ELSE Write(me, out, l))
  /\ pc' = IF cmd.op = "echo" THEN "close_out" ELSE "read"
  /\ UNCHANGED <<me, kid, cmd, fd, out, l, leaks, goal>>

CloseOut ==
  /\ pc = "close_out" /\ OnFd(out, Close(me, out))
  /\ IF cmd.op = "echo" THEN Prompt(me)
     ELSE pc' = "close_in" /\ UNCHANGED <<me, kid, cmd, fd, out, l, goal>>
  /\ UNCHANGED leaks

(* Mutant: the input stays open after a redirected cat.                    *)
CloseIn_Forgets ==
  /\ pc = "close_in"
  /\ IF cmd.mode = "none" THEN OnFd(fd, Close(me, fd)) ELSE UNCHANGED vars
  /\ Prompt(me) /\ UNCHANGED leaks

CloseIn ==
  /\ pc = "close_in" /\ OnFd(fd, Close(me, fd))
  /\ Prompt(me) /\ UNCHANGED leaks

-----------------------------------------------------------------------------
(* A program: do_shell opens the file to see whether it exists and never   *)
(* closes it.                                                              *)
RunProgram(name) ==
  /\ pc = "prompt" /\ Open(me, name, FS_RW)
  /\ IF OpenResult(name, FS_RW) = -1 THEN Prompt(me) /\ UNCHANGED leaks
     ELSE /\ fd' = OpenResult(name, FS_RW) /\ pc' = "fork" /\ leaks' = leaks + 1
          /\ cmd' = [NoCmd EXCEPT !.op = "run", !.file = name]
          /\ UNCHANGED <<me, kid, out, l, goal>>

ForkProgram(q) ==
  /\ pc = "fork" /\ Fork(me, q)
  /\ kid' = q /\ pc' = "exec"
  /\ UNCHANGED <<me, cmd, fd, out, l, leaks, goal>>

(* sys_exec in the son; ok says whether the file is a program.  Without a  *)
(* stream loader_file reads through fs[-1].                                *)
ExecProgram(ok) ==
  /\ pc = "exec"
  /\ IF CanOpen(cmd.file)
     THEN Exec(kid, cmd.file)
     ELSE Runs(kid) /\ fault' = "fs" /\ UNCHANGED <<diskVars, fs, fcb, live>>
  /\ IF ok THEN pc' = "program" /\ UNCHANGED <<me, kid, cmd, fd, out, l, goal>>
     ELSE Prompt(kid)
  /\ UNCHANGED leaks

(* The program may open files; nothing closes them when it exits (app,     *)
(* whose reads, writes and fork are left out).                             *)
ProgramOpens(name) ==
  /\ pc = "program" /\ Open(kid, name, FS_RWC)
  /\ UNCHANGED shellVars

ProgramExits ==
  /\ pc = "program" /\ Exit(kid)
  /\ Prompt(me) /\ UNCHANGED leaks

(* After a fault, or when there is no PCB for a son.                       *)
Halted ==
  /\ fault # "none" \/ (pc = "fork" /\ live = Procs)
  /\ UNCHANGED systemVars

Builtin == OpenIn \/ OpenOut \/ SeekEnd \/ ReadIn \/ WriteOut \/ CloseOut \/ CloseIn

ShellNext ==
  \/ \E g \in Names, mode \in {">", ">>"}, len \in Lens \cup {-1} : EchoCommand(g, mode, len)
  \/ \E f \in Names : CatCommand(f, f, "none")
  \/ \E f, g \in Names, mode \in {">", ">>"} : CatCommand(f, g, mode)
  \/ Builtin
  \/ \E name \in Names : RunProgram(name) \/ ProgramOpens(name)
  \/ \E q \in Procs : ForkProgram(q)
  \/ \E ok \in BOOLEAN : ExecProgram(ok)
  \/ ProgramExits
  \/ Halted

(* A shell that is not waiting is scheduled again and again (the liveness  *)
(* of Kernel) and so makes its next system call.                           *)
ShellSpec == ShellInit /\ [][ShellNext]_systemVars /\ WF_systemVars(Builtin)

-----------------------------------------------------------------------------
(* echo and cat close whatever they have opened, on every path, also when  *)
(* a file does not exist: between commands the shell, the first or one     *)
(* that a failed exec left, holds one descriptor per program it has opened *)
(* and no other.                                                           *)
BuiltinsClose ==
  pc = "prompt" /\ fault = "none" =>
    /\ me \in live
    /\ Cardinality({d \in Fd : fcb[me][d] # -1}) = leaks

(* fcb has as many descriptors as there are streams, and that is enough:   *)
(* descriptors of one process name different open streams, those that a    *)
(* program inherits included, so streams run out first (fs_open_port does  *)
(* not look for the end of fcb).                                           *)
FcbSuffices == fault # "fcb"

(* The kernel copies with a length that wraps when it is given a negative  *)
(* one.  Of all that the shell does only an echo without a text before the *)
(* redirection makes one: cat never reads beyond the end of a file, also   *)
(* when it empties or lengthens the file it reads (echo, cat, fs_read_kr). *)
NegativeOnlyFromEcho == fault = "negative" => cmd.op = "echo" /\ l = -1

(* Of the faults of the file system the shell causes these at most in the  *)
(* way described, whatever fails, if programs do no more than open files   *)
(* and leave them open (do_shell).  A program that forks, as app does,     *)
(* shares its streams with a son, and more may happen to its descriptors.  *)
ShellFaults == FcbSuffices /\ NegativeOnlyFromEcho

(* A redirection that has written anything leaves the target with the size *)
(* it should have: that of the text or of the source, after what was there *)
(* for >>, whatever streams are open on the two and also when they are one *)
(* file (echo, cat, fs_write_kr).                                          *)
RedirectSize ==
  (/\ pc = "close_out" /\ fault = "none" /\ out # -1
   /\ \/ cmd.op = "echo" /\ l > 0
      \/ cmd.op = "cat" /\ fd # -1 /\ SizeOf(cmd.file) > 0)
    => SizeOf(cmd.to) = goal

(* Every builtin command ends: cat reads to the end of the file even when  *)
(* it appends to the file it reads.                                        *)
BuiltinsEnd == (pc = "read") ~> (pc = "prompt" \/ fault # "none")
=============================================================================
