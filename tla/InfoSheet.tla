------------------------------ MODULE InfoSheet ------------------------------
(***************************************************************************)
(* 3/infosheet: a file of records, changed by commands that are started by *)
(* hand and may run at the same time.  -w appends a record: it seeks to the*)
(* end and writes there, in two calls.  -m changes a record in place,      *)
(* through a mapping of the file, field by field.  Nothing is locked.      *)
(* (-p and -r only read.)                                                  *)
(*                                                                         *)
(* The file is a sequence of half records: the head (id, name) and the tail*)
(* (age, score), each signed by the command that wrote it.                 *)
(***************************************************************************)
EXTENDS Naturals, Sequences, FiniteSets

CONSTANTS
  Cmds,        \* the commands that are run
  SheetIndex   \* the records a -m may name, counted from 1

ASSUME SheetAssumption == IsFiniteSet(Cmds) /\ SheetIndex \subseteq Nat \ {0}

VARIABLES
  file,    \* the half records: who wrote each one
  args,    \* the command line of each command
  cmd,     \* where it stands
  count,   \* countInfo: how many records fstat found
  pos,     \* where it writes: half records before this position
  met,     \* pairs of commands that were changing one record at a time
  cut      \* a write was cut short (the disk is full)

sheetVars == <<file, args, cmd, count, pos, met, cut>>

SheetInit ==
  /\ file = <<>>
  /\ args = [p \in Cmds |-> <<"", 0>>]
  /\ cmd = [p \in Cmds |-> "off"]
  /\ count = [p \in Cmds |-> 0]
  /\ pos = [p \in Cmds |-> 0]
  /\ met = {}
  /\ cut = FALSE

SheetAt(p, label, next) == cmd[p] = label /\ cmd' = [cmd EXCEPT ![p] = next]

(* The file with half records of p from position k on; a gap cannot occur.  *)
Overlay(k, n, p) ==
  [i \in 1 .. (IF Len(file) < k + n THEN k + n ELSE Len(file)) |->
    IF i \in k + 1 .. k + n THEN p ELSE file[i]]

(* The commands in the middle of changing the record that p changes.        *)
Others(p) == {q \in Cmds \ {p} : cmd[q] \in {"write", "tail"} /\ pos[q] = pos[p]}
Meet(p) == met' = met \union {{p, q} : q \in Others(p)}

-----------------------------------------------------------------------------
(* Faulty variants: definitions of the sections below with one programming  *)
(* error each.  SheetSpec uses none of them; PROJECT.json pairs each one    *)
(* with the property that rejects it.                                       *)

(* -w writes behind the records that fstat counted. *)
SeekToCount(p) ==
  /\ args[p][1] = "-w"
  /\ SheetAt(p, "run", "write")
  /\ pos' = [pos EXCEPT ![p] = 2 * count[p]]
  /\ UNCHANGED <<file, args, count, met, cut>>

-----------------------------------------------------------------------------
(* A command is started: open and fstat.                                    *)
OpenSheet(p) ==
  /\ SheetAt(p, "off", "run")
  /\ \E a \in {<<"-w", 0>>} \union {<<"-m", i>> : i \in SheetIndex} :
       args' = [args EXCEPT ![p] = a]
  /\ count' = [count EXCEPT ![p] = Len(file) \div 2]
  /\ UNCHANGED <<file, pos, met, cut>>

(* -w: lseek to the end, and write; only an error of write is noticed. *)
SeekToEnd(p) ==
  /\ args[p][1] = "-w"
  /\ SheetAt(p, "run", "write")
  /\ pos' = [pos EXCEPT ![p] = Len(file)]
  /\ UNCHANGED <<file, args, count, met, cut>>

WriteRecord(p) ==
  /\ SheetAt(p, "write", "done")
  /\ \/ file' = Overlay(pos[p], 2, p) /\ cut' = cut
     \/ file' = Overlay(pos[p], 1, p) /\ cut' = TRUE
  /\ Meet(p)
  /\ UNCHANGED <<args, count, pos>>

WriteFails(p) ==
  /\ SheetAt(p, "write", "failed")
  /\ UNCHANGED <<file, args, count, pos, met, cut>>

(* -m: mmap, which fails for an empty file; the index is checked against    *)
(* what fstat found; then the fields.                                       *)
MapRecord(p) ==
  /\ args[p][1] = "-m"
  /\ SheetAt(p, "run", IF args[p][2] <= count[p] THEN "head" ELSE "failed")
  /\ pos' = [pos EXCEPT ![p] = 2 * (args[p][2] - 1)]
  /\ UNCHANGED <<file, args, count, met, cut>>

StoreHead(p) ==
  /\ SheetAt(p, "head", "tail")
  /\ file' = Overlay(pos[p], 1, p)
  /\ Meet(p)
  /\ UNCHANGED <<args, count, pos, cut>>

StoreTail(p) ==
  /\ SheetAt(p, "tail", "done")
  /\ file' = Overlay(pos[p] + 1, 1, p)
  /\ Meet(p)
  /\ UNCHANGED <<args, count, pos, cut>>

SheetKill(p) ==
  /\ cmd[p] \in {"run", "write", "head", "tail"}
  /\ SheetAt(p, cmd[p], IF cmd[p] = "tail" THEN "torn" ELSE "failed")
  /\ UNCHANGED <<file, args, count, pos, met, cut>>

SheetStep(p) ==
  \/ SeekToEnd(p) \/ WriteRecord(p) \/ WriteFails(p)
  \/ MapRecord(p) \/ StoreHead(p) \/ StoreTail(p)

SheetNext == \E p \in Cmds : OpenSheet(p) \/ SheetStep(p) \/ SheetKill(p)

SheetSpec == SheetInit /\ [][SheetNext]_sheetVars

-----------------------------------------------------------------------------
(* Commands that do not overlap do not damage each other, and those that do *)
(* damage one record only.  As long as no write was cut short: the file     *)
(* holds whole records; the record of a -w that met nobody stays where it   *)
(* was put, signed by it or by a -m that names it; and both halves of a     *)
(* record have one author, unless a -m stands or died between its stores or *)
(* two commands met in it.                                                  *)
RecordsKept ==
  LET MetIn(k) == \E e \in met : \A p \in e : pos[p] = k
      Alone(p) == \A e \in met : p \notin e
      Names(p, k) == args[p] = <<"-m", (k \div 2) + 1>>
  IN  ~ cut =>
        /\ Len(file) % 2 = 0
        /\ \A p \in Cmds : args[p][1] = "-w" /\ cmd[p] = "done" /\ Alone(p) =>
             \A i \in {pos[p] + 1, pos[p] + 2} : file[i] = p \/ Names(file[i], pos[p])
        /\ \A k \in {j \in 0 .. Len(file) - 1 : j % 2 = 0} :
             \/ file[k + 1] = file[k + 2]
             \/ MetIn(k)
             \/ \E p \in Cmds : pos[p] = k /\ cmd[p] \in {"tail", "torn"}
=============================================================================
