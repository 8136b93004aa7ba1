-------------------------- MODULE FileLoggerProofs --------------------------
(***************************************************************************)
(* Theorems about FileLogger, and about the main function that uses it,    *)
(* for every finite set of handles, every pool of FAT structures and files *)
(* of every length.                                                        *)
(***************************************************************************)
EXTENDS ObelicsMain, FiniteSetTheorems, TLAPS

Inv == TypeOK /\ OpenIsUsable /\ NoFileLeaked

OpenHandles == {h \in Handles : open[h]}

LEMMA InitInv == Init => Inv
  <1> SUFFICES ASSUME Init PROVE Inv
    OBVIOUS
  <1>1. OpenHandles = {}
    BY DEF Init, OpenHandles
  <1>2. NoFileLeaked
    BY <1>1, FS_EmptySet DEF NoFileLeaked, OpenHandles, Init
  <1>3. {sd_mounted, is_initialized} \subseteq BOOLEAN /\ open \in [Handles -> BOOLEAN]
    BY DEF Init
  <1>4. fobj \in [Handles -> Fobj]
    BY FileAssumption DEF Init, Fobj, fs_file_t_init
  <1>5. fils \in 0..NumFiles /\ size \in {NoFile} \cup 0..MaxSize
    BY FileAssumption DEF Init
  <1>6. OpenIsUsable
    BY DEF Init, OpenIsUsable
  <1> QED
    BY <1>2, <1>3, <1>4, <1>5, <1>6 DEF Inv, TypeOK

(* Marking a handle, or taking its mark away, changes the count by one. *)
LEMMA CountOpen ==
  ASSUME open \in [Handles -> BOOLEAN], NEW h \in Handles, NEW b \in BOOLEAN,
         open' = [open EXCEPT ![h] = b], open[h] # b
  PROVE  /\ IsFiniteSet(OpenHandles) /\ Cardinality(OpenHandles) \in Nat
         /\ Cardinality(OpenHandles') = IF b THEN Cardinality(OpenHandles) + 1
                                             ELSE Cardinality(OpenHandles) - 1
         /\ ~b => Cardinality(OpenHandles) > 0
  <1>1. IsFiniteSet(OpenHandles) /\ IsFiniteSet(OpenHandles')
    BY FileAssumption, FS_Subset DEF OpenHandles
  <1>2. OpenHandles' = IF b THEN OpenHandles \cup {h} ELSE OpenHandles \ {h}
    BY DEF OpenHandles
  <1>3. h \in OpenHandles <=> ~b
    BY DEF OpenHandles
  <1>4. Cardinality(OpenHandles) \in Nat
    BY <1>1, FS_CardinalityType
  <1>5. CASE b
    <2>1. Cardinality(OpenHandles \cup {h}) = Cardinality(OpenHandles) + 1
      BY <1>1, <1>3, <1>5, FS_AddElement
    <2> QED
      BY <1>1, <1>2, <1>4, <1>5, <2>1
  <1>6. CASE ~b
    <2>1. Cardinality(OpenHandles \ {h}) = Cardinality(OpenHandles) - 1
      BY <1>1, <1>3, <1>6, FS_RemoveElement
    <2>2. Cardinality(OpenHandles) # 0
      BY <1>1, <1>3, <1>6, FS_EmptySet
    <2> QED
      BY <1>1, <1>2, <1>4, <1>6, <2>1, <2>2
  <1> QED
    BY <1>5, <1>6

LEMMA OpenInv ==
  ASSUME Inv, NEW h \in Handles, ~open[h], file_logger_open(h)
  PROVE  Inv'
  <1> USE DEF Inv, TypeOK, library
  <1>1. CASE Fails
    BY <1>1 DEF Fails, vars, handles, OpenIsUsable, NoFileLeaked
  <1>2. CASE /\ sd_mounted /\ is_initialized /\ fils < NumFiles
             /\ fobj' = [fobj EXCEPT ![h] = [mp |-> TRUE, filep |-> TRUE, pos |-> 0]]
             /\ fils' = fils + 1 /\ open' = [open EXCEPT ![h] = TRUE]
             /\ size' = IF size = NoFile THEN 0 ELSE size
             /\ UNCHANGED library
    <2>1. Cardinality(OpenHandles') = Cardinality(OpenHandles) + 1
      BY <1>2, CountOpen
    <2>2. NoFileLeaked'
      BY <1>2, <2>1 DEF NoFileLeaked, OpenHandles
    <2>3. [mp |-> TRUE, filep |-> TRUE, pos |-> 0] \in Fobj
      BY FileAssumption DEF Fobj
    <2>4. TypeOK'
      BY <1>2, <2>3, FileAssumption
    <2>5. OpenIsUsable'
      BY <1>2 DEF OpenIsUsable
    <2> QED
      BY <2>2, <2>4, <2>5
  <1>3. CASE /\ fobj' = [fobj EXCEPT ![h] = fs_file_t_init]
             /\ UNCHANGED <<library, open, fils, size>>
    <2>1. fs_file_t_init \in Fobj
      BY FileAssumption DEF Fobj, fs_file_t_init
    <2> QED
      BY <1>3, <2>1 DEF OpenIsUsable, NoFileLeaked
  <1> QED
    BY <1>1, <1>2, <1>3 DEF file_logger_open

LEMMA CloseInv ==
  ASSUME Inv, NEW h \in Handles, file_logger_close(h)
  PROVE  Inv'
  <1> USE DEF Inv, TypeOK, library
  <1>1. CASE Fails
    BY <1>1 DEF Fails, vars, handles, OpenIsUsable, NoFileLeaked
  <1>2. CASE /\ open[h] /\ open' = [open EXCEPT ![h] = FALSE]
             /\ fobj' \in {[fobj EXCEPT ![h] = fs_file_t_init], [fobj EXCEPT ![h].filep = FALSE]}
             /\ fils' = fils - 1
             /\ UNCHANGED <<library, size>>
    <2>1. /\ Cardinality(OpenHandles') = Cardinality(OpenHandles) - 1
          /\ Cardinality(OpenHandles) \in Nat /\ Cardinality(OpenHandles) > 0
      BY <1>2, CountOpen
    <2>2. NoFileLeaked' /\ fils' \in 0..NumFiles
      BY <1>2, <2>1, FileAssumption DEF NoFileLeaked, OpenHandles
    <2>3. fobj' \in [Handles -> Fobj] /\ \A g \in Handles \ {h} : fobj'[g] = fobj[g]
      <3>1. fs_file_t_init \in Fobj
        BY FileAssumption DEF Fobj, fs_file_t_init
      <3>2. CASE fobj' = [fobj EXCEPT ![h] = fs_file_t_init]
        BY <3>1, <3>2
      <3>3. CASE fobj' = [fobj EXCEPT ![h].filep = FALSE]
        <4>1. [fobj[h] EXCEPT !.filep = FALSE] \in Fobj
          BY DEF Fobj
        <4> QED
          BY <3>3, <4>1
      <3> QED
        BY <1>2, <3>2, <3>3
    <2>4. TypeOK'
      BY <1>2, <2>2, <2>3
    <2>5. OpenIsUsable'
      BY <1>2, <2>3 DEF OpenIsUsable
    <2> QED
      BY <2>2, <2>4, <2>5
  <1> QED
    BY <1>1, <1>2 DEF file_logger_close

(* The calls that move the position in an open file. *)
LEMMA MoveInv ==
  ASSUME Inv, NEW h \in Handles, NEW p \in 0..MaxSize, MoveTo(h, p),
         size' \in {NoFile} \cup 0..MaxSize
  PROVE  Inv'
  <1> USE DEF Inv, TypeOK, library
  <1>1. /\ fobj' \in [Handles -> Fobj]
        /\ \A g \in Handles : fobj'[g].mp = fobj[g].mp /\ fobj'[g].filep = fobj[g].filep
    BY DEF MoveTo, Fobj
  <1> QED
    BY <1>1 DEF MoveTo, OpenIsUsable, NoFileLeaked

LEMMA AccessInv ==
  ASSUME Inv, NEW h \in Handles, NEW n \in Lengths,
         \/ file_logger_write(h, n) \/ file_logger_read(h, n)
         \/ file_logger_read_str(h, n) \/ file_logger_seek(h, n)
  PROVE  Inv'
  <1> USE FileAssumption
  <1>1. CASE Fails
    BY <1>1 DEF Fails, vars, library, handles, Inv, TypeOK, OpenIsUsable, NoFileLeaked
  <1>2. n \in 0..MaxSize /\ size \in {NoFile} \cup 0..MaxSize /\ fobj[h].pos \in 0..MaxSize
    BY DEF Lengths, Inv, TypeOK, Fobj
  <1>3. CASE file_logger_write(h, n) /\ ~Fails
    <2>1. PICK written \in 0..n : /\ size # NoFile /\ size + written <= MaxSize
                                  /\ size' = size + written /\ MoveTo(h, size')
      BY <1>3 DEF file_logger_write
    <2>2. size' \in 0..MaxSize
      BY <1>2, <2>1
    <2> QED
      BY <2>1, <2>2, MoveInv
  <1>4. CASE file_logger_read(h, n) /\ ~Fails
    <2>1. size >= fobj[h].pos /\ UNCHANGED size /\ MoveTo(h, fobj[h].pos + Available(h, n))
      BY <1>4 DEF file_logger_read
    <2>2. fobj[h].pos + Available(h, n) \in 0..MaxSize
      BY <1>2, <2>1 DEF Available, NoFile
    <2> QED
      BY <1>2, <2>1, <2>2, MoveInv
  <1>5. CASE file_logger_read_str(h, n) /\ ~Fails
    <2>1. /\ n > 0 /\ size >= fobj[h].pos /\ UNCHANGED size
          /\ MoveTo(h, fobj[h].pos) \/ MoveTo(h, fobj[h].pos + Available(h, n - 1))
      BY <1>5 DEF file_logger_read_str
    <2>2. fobj[h].pos + Available(h, n - 1) \in 0..MaxSize
      BY <1>2, <2>1 DEF Available, NoFile
    <2> QED
      BY <1>2, <2>1, <2>2, MoveInv
  <1>6. CASE file_logger_seek(h, n) /\ ~Fails
    BY <1>2, <1>6, MoveInv DEF file_logger_seek
  <1> QED
    BY <1>1, <1>3, <1>4, <1>5, <1>6

LEMMA NextInv == Inv /\ [Next]_vars => Inv'
  <1> SUFFICES ASSUME Inv, [Next]_vars PROVE Inv'
    OBVIOUS
  <1>1. CASE Fails
    BY <1>1 DEF Fails, vars, library, handles, Inv, TypeOK, OpenIsUsable, NoFileLeaked
  <1>2. CASE file_logger_init /\ ~Fails
    BY <1>2 DEF file_logger_init, handles, Inv, TypeOK, OpenIsUsable, NoFileLeaked
  <1>3. CASE file_logger_remove /\ ~Fails
    <2>1. size' = NoFile /\ UNCHANGED <<library, handles>>
      BY <1>3 DEF file_logger_remove
    <2> QED
      BY <2>1 DEF library, handles, Inv, TypeOK, OpenIsUsable, NoFileLeaked
  <1>4. ASSUME NEW h \in Handles, Caller(h), ~Fails PROVE Inv'
    <2>1. CASE ~open[h] /\ file_logger_open(h)
      BY <2>1, OpenInv
    <2>2. CASE file_logger_close(h)
      BY <2>2, CloseInv
    <2>3. CASE \E n \in Lengths : \/ file_logger_write(h, n) \/ file_logger_read(h, n)
                                 \/ file_logger_read_str(h, n) \/ file_logger_seek(h, n)
      BY <2>3, AccessInv
    <2> QED
      BY <1>4, <2>1, <2>2, <2>3 DEF Caller, file_logger_flush
  <1> QED
    BY <1>1, <1>2, <1>3, <1>4 DEF Next, file_logger_ask, Fails

THEOREM FileInv == Spec => []Inv
  BY InitInv, NextInv, PTL DEF Spec

(* The library's variables keep to their types; the FAT driver is never    *)
(* asked for more structures than it has, nor given back more than it gave.*)
THEOREM FileTypeOK == Spec => []TypeOK
  <1>1. Inv => TypeOK
    BY DEF Inv
  <1> QED
    BY <1>1, FileInv, PTL

(* A handle marked open is attached to a mounted file system and has its   *)
(* FAT structure, after any sequence of calls and failures.                *)
THEOREM OpenTheorem == Spec => []OpenIsUsable
  <1>1. Inv => OpenIsUsable
    BY DEF Inv
  <1> QED
    BY <1>1, FileInv, PTL

(* No sequence of calls and failures leaks a FAT structure, for any number *)
(* of handles.                                                             *)
THEOREM NoLeakTheorem == Spec => []NoFileLeaked
  <1>1. Inv => NoFileLeaked
    BY DEF Inv
  <1> QED
    BY <1>1, FileInv, PTL
-----------------------------------------------------------------------------
(* What main relies on: until it has opened its file, and from the close   *)
(* to the second open, the mark is off; no other caller touches it.        *)
MainInv ==
  /\ open \in [Handles -> BOOLEAN]
  /\ at \in {"i2c", "test", "starting", "storage", "open", "remove", "reopen"} => ~open[log_file]

LEMMA MainFileStep ==
  ASSUME MainInv, init_storage \/ WriteStart \/ ReadBack \/ ClearLog
  PROVE  Next /\ MainInv'
  <1>1. 0 \in Lengths
    BY FileAssumption DEF FileAssumption, Lengths
  <1> USE MainAssumption DEF MainAssumption, MainInv, Goto
  <1>2. CASE at = "storage" /\ file_logger_init /\ OnlyFile
             /\ at' \in IF is_initialized' THEN {"open"} ELSE {"write"}
    BY <1>2 DEF file_logger_init, Next, Fails, vars, handles
  <1>3. CASE Goto("open", "write") /\ file_logger_open(log_file) /\ OnlyFile
    BY <1>3 DEF file_logger_open, Next, Caller, Fails, vars, handles
  <1>4. CASE WriteStart
    BY <1>4 DEF WriteStart, file_logger_write, file_logger_flush, MoveTo, Next, Caller,
                Fails, vars, handles
  <1>5. CASE ReadBack
    BY <1>1, <1>5 DEF ReadBack, file_logger_seek, file_logger_read_str, MoveTo, Next, Caller,
                      Fails, vars, handles
  <1>6. CASE Goto("close", "remove") /\ file_logger_close(log_file) /\ OnlyFile
    BY <1>6 DEF file_logger_close, Next, Caller, Fails, vars, handles
  <1>7. CASE Goto("remove", "reopen") /\ file_logger_remove /\ OnlyFile
    BY <1>7 DEF file_logger_remove, Next, Fails, vars, handles
  <1>8. CASE Goto("reopen", "lora") /\ file_logger_open(log_file) /\ OnlyFile
    BY <1>8 DEF file_logger_open, Next, Caller, Fails, vars, handles
  <1> QED
    BY <1>2, <1>3, <1>4, <1>5, <1>6, <1>7, <1>8 DEF init_storage, ClearLog

(* The rest of main leaves the library alone and never comes back to the   *)
(* calls that use it.                                                      *)
LEMMA MainOtherStep ==
  ASSUME MainInv, Main, ~(init_storage \/ WriteStart \/ ReadBack \/ ClearLog)
  PROVE  UNCHANGED vars /\ MainInv'
  <1> USE DEF MainInv, Goto, OnlyMain, vars, handles
  <1>1. CASE \E step \in {"i2c", "strip", "buzzer", "leds", "button"} : NotReady(step)
    BY <1>1 DEF NotReady
  <1>2. CASE Display
    BY <1>2 DEF Display
  <1>3. CASE LoRa \/ Devices \/ Udp \/ FirstFix
    BY <1>3 DEF LoRa, Devices, Start, Udp, FirstFix
  <1>4. CASE StartMenu \/ Send \/ Receive \/ ShowFix
    BY <1>4 DEF StartMenu, Send, Receive, ShowFix
  <1> QED
    BY <1>1, <1>2, <1>3, <1>4 DEF Main

LEMMA OthersStep ==
  ASSUME MainInv, Others
  PROVE  Next /\ MainInv'
  <1> USE MainAssumption DEF MainInv, Others, main_vars
  <1>1. CASE file_logger_init \/ file_logger_remove \/ file_logger_ask
    BY <1>1 DEF file_logger_init, file_logger_remove, file_logger_ask, Next, Fails, vars, handles
  <1>2. ASSUME NEW h \in Handles \ {log_file}, Caller(h)
        PROVE  Next /\ MainInv'
    <2>1. UNCHANGED open \/ \E b \in BOOLEAN : open' = [open EXCEPT ![h] = b]
      BY <1>2 DEF Caller, file_logger_open, file_logger_close, file_logger_flush,
                  file_logger_write, file_logger_read, file_logger_read_str, file_logger_seek,
                  MoveTo, Fails, vars, handles
    <2>2. open' \in [Handles -> BOOLEAN] /\ open'[log_file] = open[log_file]
      BY <2>1
    <2>3. at' = at
      BY DEF Others, main_vars
    <2> QED
      BY <1>2, <2>2, <2>3 DEF Next
  <1> QED
    BY <1>1, <1>2

(* Whatever fails, and whoever else uses the library, main is a caller the *)
(* library's theorems are about: it never opens its file while it is open. *)
THEOREM MainIsAClientTheorem == MainSpec => MainIsAClient
  <1>1. MainInit => Init /\ MainInv
    BY MainAssumption DEF MainInit, Init, MainInv
  <1>2. MainInv /\ [MainNext]_<<vars, main_vars>> => [Next]_vars /\ MainInv'
    <2> SUFFICES ASSUME MainInv, [MainNext]_<<vars, main_vars>>
                 PROVE  [Next]_vars /\ MainInv'
      OBVIOUS
    <2>1. CASE Main
      BY <2>1, MainFileStep, MainOtherStep
    <2>2. CASE Others
      BY <2>2, OthersStep
    <2>3. CASE UNCHANGED <<vars, main_vars>>
      BY <2>3 DEF MainInv, vars, handles, main_vars
    <2> QED
      BY <2>1, <2>2, <2>3 DEF MainNext
  <1> QED
    BY <1>1, <1>2, PTL DEF MainSpec, MainIsAClient, Spec

(* The library's guarantee therefore holds of the program: main leaks no   *)
(* FAT structure.                                                          *)
THEOREM MainLeaksNothing == MainSpec => []NoFileLeaked
  BY MainIsAClientTheorem, NoLeakTheorem DEF MainIsAClient
-----------------------------------------------------------------------------
(* From display_clear_text on none of main's texts is in the buffer, and   *)
(* the menu's thread is started after it.                                  *)
ScreenInv ==
  /\ at \in {"menu_init", "menu_start", "send", "recv", "fix"} => framebuffer \in {NoBuffer, Blank}
  /\ "menu" \in running => at \in {"send", "recv", "fix"}

LEMMA ScreenStep ==
  ASSUME ScreenInv, Main
  PROVE  ScreenInv'
  <1> USE DEF ScreenInv, Goto, OnlyMain, Quiet
  <1>1. CASE \E step \in {"i2c", "strip", "buzzer", "leds", "button"} : NotReady(step)
    BY <1>1 DEF NotReady, screen
  <1>2. CASE Display
    BY <1>2 DEF Display
  <1>3. CASE init_storage \/ WriteStart \/ ReadBack \/ ClearLog
    BY <1>3 DEF init_storage, WriteStart, ReadBack, ClearLog, OnlyFile, screen
  <1>4. CASE LoRa \/ Devices \/ Udp \/ FirstFix
    BY <1>4 DEF LoRa, Devices, Start, Udp, FirstFix, screen
  <1>5. CASE StartMenu
    BY <1>5 DEF StartMenu, display_clear_text, Draw, screen
  <1>6. CASE Send \/ Receive \/ ShowFix
    BY <1>6 DEF Send, Receive, ShowFix, screen
  <1> QED
    BY <1>1, <1>2, <1>3, <1>4, <1>5, <1>6 DEF Main

(* Once the menu's thread may run, main draws nothing and has left nothing.*)
THEOREM MenuOwnsScreenTheorem == MainSpec => []MenuOwnsScreen
  <1>1. MainInit => ScreenInv
    BY DEF MainInit, ScreenInv
  <1>2. ScreenInv /\ [MainNext]_<<vars, main_vars>> => ScreenInv'
    <2> SUFFICES ASSUME ScreenInv, [MainNext]_<<vars, main_vars>> PROVE ScreenInv'
      OBVIOUS
    <2>1. CASE Main
      BY <2>1, ScreenStep
    <2>2. CASE Others \/ UNCHANGED <<vars, main_vars>>
      BY <2>2 DEF ScreenInv, Others, main_vars, screen
    <2> QED
      BY <2>1, <2>2 DEF MainNext
  <1>3. ScreenInv => MenuOwnsScreen
    BY DEF ScreenInv, MenuOwnsScreen
  <1> QED
    BY <1>1, <1>2, <1>3, PTL DEF MainSpec
=============================================================================
