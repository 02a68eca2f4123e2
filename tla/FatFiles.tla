------------------------------ MODULE FatFiles ------------------------------
(*****************************************************************************)
(* The table of open files of fatfs/fat.c.  A descriptor is an index of      *)
(* open_files; files counts the entries in use, and fat_fopen relies on that *)
(* count alone to know that its scan of the table ends inside it.            *)
(*                                                                           *)
(* The FatFs library (f_open, f_close, f_mount, f_read) is external: each    *)
(* call may succeed or fail.  Only the main context uses the table, so an    *)
(* operation is one step.  Clients are the kernel and services that open     *)
(* files.  A client keeps its descriptor over a mount, which forgets the     *)
(* file; sb_m also keeps one that it has closed, plays from it and closes it *)
(* again at the end, when the entry may be another's.                        *)
(*****************************************************************************)
EXTENDS Naturals, FiniteSets

CONSTANTS
  MAX_OPEN_FILES,   \* entries of open_files (10 in the code)
  Clients,          \* those who open files
  NULL              \* the null pointer; no client

ASSUME TableAssumption == MAX_OPEN_FILES \in Nat \ {0}
ASSUME ClientsAssumption == NULL \notin Clients

FDs == 0..(MAX_OPEN_FILES - 1)

(* The -1 of a failed fat_fopen; any value outside FDs behaves the same. *)
NoFd == MAX_OPEN_FILES + 1

VARIABLES
  open_files,   \* descriptor -> NULL, or the client whose file is open there
  files,        \* the counter
  fd,           \* client -> the descriptor it holds, or NoFd
  stale         \* history: clients that have lost the file of their descriptor

vars == <<open_files, files, fd, stale>>

Empty == [i \in FDs |-> NULL]

Init ==
  /\ open_files = Empty
  /\ files = 0
  /\ fd = [c \in Clients |-> NoFd]
  /\ stale = {}

(* The scan of fat_fopen: the first free entry.  With none it runs past the *)
(* table.                                                                   *)
FirstFree ==
  IF \E i \in FDs : open_files[i] = NULL
    THEN CHOOSE i \in FDs : /\ open_files[i] = NULL
                            /\ \A j \in FDs : open_files[j] = NULL => i <= j
    ELSE MAX_OPEN_FILES

(* The file behind a descriptor; every operation treats a descriptor that is *)
(* out of range, or whose entry is NULL, as no file.                         *)
FileOf(d) == IF d \in FDs THEN open_files[d] ELSE NULL

-----------------------------------------------------------------------------
(* Slip: any entry is taken, free or not. *)
fat_fopen_reuse(c, d) ==
  /\ files # MAX_OPEN_FILES
  /\ d = 0
  /\ open_files' = [open_files EXCEPT ![d] = c]
  /\ files' = files + 1

(* A successful fat_fopen for c returns d; a refused or failed one leaves the *)
(* table as it is.                                                            *)
fat_fopen(c, d) ==
  /\ files # MAX_OPEN_FILES
  /\ d = FirstFree
  /\ open_files' = [open_files EXCEPT ![d] = c]
  /\ files' = files + 1

(* The entry is given up whether or not f_close succeeds. *)
fat_fclose(d) ==
  IF FileOf(d) = NULL
    THEN UNCHANGED <<open_files, files>>
    ELSE /\ open_files' = [open_files EXCEPT ![d] = NULL]
         /\ files' = files - 1

(* Slip: the table is cleared and the counter is not. *)
fat_mount_keepCount ==
  /\ open_files' = Empty
  /\ files' = files

(* A successful fat_mount forgets every open file. *)
fat_mount ==
  /\ open_files' = Empty
  /\ files' = 0

-----------------------------------------------------------------------------
(* The clients.  One that opens a file while it has another forgets that one, as sb_m *)
(* does.                                                                              *)
Open(c) ==
  /\ \E d \in FDs \cup {MAX_OPEN_FILES} : fat_fopen(c, d) /\ fd' = [fd EXCEPT ![c] = d]
  /\ stale' = stale \ {c}

(* Who loses a file when c closes its descriptor: if it is stale, those that hold it too *)
Robbed(c) == IF c \in stale THEN {o \in Clients \ {c} : fd[o] = fd[c]} ELSE {}

Close(c) ==
  /\ fat_fclose(fd[c])
  /\ fd' = [fd EXCEPT ![c] = NoFd]
  /\ stale' = (stale \ {c}) \cup Robbed(c)

(* sb_m after a failed read: it goes on with what it has closed. *)
CloseKeep(c) ==
  /\ fd[c] # NoFd /\ fat_fclose(fd[c])
  /\ stale' = stale \cup {c} \cup Robbed(c)
  /\ UNCHANGED fd

(* The volume is mounted anew; nobody tells those who hold descriptors. *)
Mount ==
  /\ fat_mount
  /\ stale' = {c \in Clients : fd[c] # NoFd}
  /\ UNCHANGED fd

Next ==
  \/ \E c \in Clients : Open(c) \/ Close(c) \/ CloseKeep(c)
  \/ Mount

Spec == Init /\ [][Next]_vars

-----------------------------------------------------------------------------
TypeOK ==
  /\ open_files \in [FDs -> Clients \cup {NULL}]
  /\ files \in 0..MAX_OPEN_FILES
  /\ fd \in [Clients -> FDs \cup {NoFd}]
  /\ stale \subseteq Clients

InUse == {d \in FDs : open_files[d] # NULL}

(* The counter and the table agree, so "files == MAX_OPEN_FILES" is exactly *)
(* "no entry is free" and the scan of fat_fopen stays inside the table, no  *)
(* matter who closes what how often.                                        *)
CountMatches == files = Cardinality(InUse)

(* A client's descriptor names the file it opened, and so no two clients' the same *)
(* one, unless a mount, a close of its own or a stale descriptor's close took it:  *)
(* fat_fopen never gives away an entry in use.                                     *)
OwnFile ==
  \A c \in Clients \ stale : fd[c] \in FDs => open_files[fd[c]] = c

=============================================================================
