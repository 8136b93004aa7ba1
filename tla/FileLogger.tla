----------------------------- MODULE FileLogger -----------------------------
(***************************************************************************)
(* The SD card files of modules/file_logger/src/file_logger.c over the     *)
(* file system of Zephyr: the handles, the pool of FAT file structures     *)
(* they use, and the one file of the card by its length.  Any call of the  *)
(* file system may fail.  Callers open a handle only when it is closed;    *)
(* apart from that they call anything at any time.                         *)
(***************************************************************************)
EXTENDS Integers, FiniteSets

CONSTANTS
  Handles,      \* the struct file_logger_file objects
  NumFiles,     \* CONFIG_FS_FATFS_NUM_FILES
  MaxSize       \* bound: length of the file, and of a buffer

ASSUME FileAssumption ==
  /\ IsFiniteSet(Handles) /\ NumFiles \in Nat \ {0} /\ MaxSize \in Nat \ {0}

VARIABLES
  sd_mounted, is_initialized,
  open,       \* Handles -> the open flag
  fobj,       \* Handles -> the fs_file_t: attached to a file system, and its position
  fils,       \* FAT file structures in use
  size        \* of the file on the card, NoFile when there is none

library == <<sd_mounted, is_initialized>>
handles == <<open, fobj, fils>>
vars == <<library, handles, size>>

NoFile == -1
Fobj == [mp : BOOLEAN, filep : BOOLEAN, pos : 0..MaxSize]
fs_file_t_init == [mp |-> FALSE, filep |-> FALSE, pos |-> 0]

Init ==
  /\ sd_mounted = FALSE /\ is_initialized = FALSE
  /\ open = [h \in Handles |-> FALSE] /\ fobj = [h \in Handles |-> fs_file_t_init]
  /\ fils = 0 /\ size \in {NoFile, 1}

(* A call that is refused, or fails in the file system, changes nothing    *)
(* unless its operator says so.                                            *)
Fails == UNCHANGED vars
-----------------------------------------------------------------------------
(* The disk or the mount may fail; a card that is mounted already will do. *)
file_logger_init ==
  \/ /\ ~is_initialized
     /\ sd_mounted' = TRUE /\ is_initialized' = TRUE
     /\ UNCHANGED <<handles, size>>
  \/ Fails

(* fs_open of a handle just cleared, creating the file: what the FAT driver*)
(* took is given back when it fails.                                       *)
file_logger_open(h) ==
  \/ ~(sd_mounted /\ is_initialized) /\ Fails
  \/ /\ sd_mounted /\ is_initialized /\ fils < NumFiles
     /\ fobj' = [fobj EXCEPT ![h] = [mp |-> TRUE, filep |-> TRUE, pos |-> 0]]
     /\ fils' = fils + 1 /\ open' = [open EXCEPT ![h] = TRUE]
     /\ size' = IF size = NoFile THEN 0 ELSE size
     /\ UNCHANGED library
  \/ /\ sd_mounted /\ is_initialized
     /\ fobj' = [fobj EXCEPT ![h] = fs_file_t_init]
     /\ UNCHANGED <<library, open, fils, size>>

(* The operators named Faulty... are what a plausible mistake would make   *)
(* of the operator after them; nothing refers to them.                     *)
FaultyCloseTwice(h) ==               \* the mark is not looked at
  /\ open' = [open EXCEPT ![h] = FALSE]
  /\ fobj' = [fobj EXCEPT ![h] = fs_file_t_init]
  /\ fils' = fils - 1
  /\ UNCHANGED <<library, size>>

FaultyMarkKept(h) ==                 \* a close that fails leaves the mark
  \/ ~open[h] /\ Fails
  \/ /\ open[h] /\ fils' = fils - 1
     /\ \/ open' = [open EXCEPT ![h] = FALSE] /\ fobj' = [fobj EXCEPT ![h] = fs_file_t_init]
        \/ UNCHANGED open /\ fobj' = [fobj EXCEPT ![h].filep = FALSE]
     /\ UNCHANGED <<library, size>>

FaultyNotClosed(h) ==                \* only the mark is taken away
  /\ open' = [open EXCEPT ![h] = FALSE]
  /\ UNCHANGED <<library, fobj, fils, size>>

(* A close that fails has given the FAT structure back but stays attached. *)
file_logger_close(h) ==
  \/ ~open[h] /\ Fails
  \/ /\ open[h] /\ open' = [open EXCEPT ![h] = FALSE]
     /\ fobj' \in {[fobj EXCEPT ![h] = fs_file_t_init], [fobj EXCEPT ![h].filep = FALSE]}
     /\ fils' = fils - 1
     /\ UNCHANGED <<library, size>>
-----------------------------------------------------------------------------
MoveTo(h, p) == fobj' = [fobj EXCEPT ![h].pos = p] /\ UNCHANGED <<library, open, fils>>

(* FS_O_APPEND: a write goes to the end, as far as the card has room.      *)
file_logger_write(h, len) ==
  \/ /\ open[h] /\ len > 0 /\ size # NoFile
     /\ \E written \in 0..len :
          size + written <= MaxSize /\ size' = size + written /\ MoveTo(h, size')
  \/ Fails

Available(h, len) == IF size - fobj[h].pos < len THEN size - fobj[h].pos ELSE len

file_logger_read(h, len) ==
  \/ /\ open[h] /\ len > 0 /\ size >= fobj[h].pos
     /\ MoveTo(h, fobj[h].pos + Available(h, len)) /\ UNCHANGED size
  \/ Fails

(* Reads max_len - 1 bytes and goes back to where it was; whether that     *)
(* seek succeeds is not looked at.                                         *)
file_logger_read_str(h, max_len) ==
  \/ /\ open[h] /\ max_len > 0 /\ size >= fobj[h].pos
     /\ UNCHANGED size
     /\ \/ MoveTo(h, fobj[h].pos)
        \/ MoveTo(h, fobj[h].pos + Available(h, max_len - 1))
  \/ Fails

file_logger_flush(h) == Fails

file_logger_seek(h, p) ==
  \/ open[h] /\ p <= size /\ MoveTo(h, p) /\ UNCHANGED size
  \/ Fails

(* The path is handed to the file system whether a card is mounted or not; *)
(* a file that is open may be refused.                                     *)
file_logger_remove ==
  \/ /\ sd_mounted /\ size' = NoFile
     /\ UNCHANGED <<library, handles>>
  \/ Fails

(* The calls that only ask: tell, exists, list_dir, which closes the       *)
(* directory it opened on every path.                                      *)
file_logger_ask == Fails
-----------------------------------------------------------------------------
Lengths == 0..MaxSize

(* What a caller does with a handle of its own. *)
Caller(h) ==
  \/ ~open[h] /\ file_logger_open(h)
  \/ file_logger_close(h) \/ file_logger_flush(h)
  \/ \E n \in Lengths : \/ file_logger_write(h, n) \/ file_logger_read(h, n)
                        \/ file_logger_read_str(h, n) \/ file_logger_seek(h, n)

Next ==
  \/ file_logger_init \/ file_logger_remove \/ file_logger_ask
  \/ \E h \in Handles : Caller(h)

Spec == Init /\ [][Next]_vars
-----------------------------------------------------------------------------
(* Every variable keeps to its type. *)
TypeOK ==
  /\ {sd_mounted, is_initialized} \subseteq BOOLEAN
  /\ open \in [Handles -> BOOLEAN] /\ fobj \in [Handles -> Fobj]
  /\ fils \in 0..NumFiles /\ size \in {NoFile} \cup 0..MaxSize

(* A handle marked open can be used: it is attached to a mounted file      *)
(* system and has its FAT structure, also after opens and closes that      *)
(* failed half way; the calls check nothing but the mark.                  *)
OpenIsUsable ==
  \A h \in Handles : open[h] => sd_mounted /\ fobj[h].mp /\ fobj[h].filep

(* The FAT structures in use are those of the open handles: no sequence of *)
(* calls and failures leaks one, so a file can be opened again for ever.   *)
NoFileLeaked == fils = Cardinality({h \in Handles : open[h]})
=============================================================================
