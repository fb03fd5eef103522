---------------------------- MODULE NativeObject -----------------------------
(***************************************************************************)
(* The layout of an object in the native engine, as IsarSerializer writes  *)
(* it and IsarDeserializer reads it: a header with the size of the static  *)
(* section, the static section with one cell per property, and behind it   *)
(* the dynamic data that cells of the static section point to.             *)
(*                                                                         *)
(* Everything has the width of one cell: an integer, an offset, a length,  *)
(* a character.  An offset counts cells from 0.  A cell is a number,       *)
(* whatever it is read as, as a byte is.                                   *)
(***************************************************************************)
EXTENDS Integers, Sequences

CONSTANTS
  NullInt,   \* i32::MIN or i64::MIN, which stands for null
  Null,      \* no value
  Panic      \* the read is outside of the object: the process dies

ASSUME ObjectAssumption == NullInt \in Nat

-----------------------------------------------------------------------------
(* Writing.                                                                *)

\* IsarSerializer::new over a buffer that may hold an object already: the
\* header is set, and the buffer is only ever made longer.
Begin(cells, size) ==
  [size  |-> size,
   cells |-> IF size <= Len(cells) THEN cells
             ELSE cells \o [n \in 1..(size - Len(cells)) |-> 0]]

WriteStatic(object, offset, cell) == [object EXCEPT !.cells[offset + 1] = cell]

\* The data goes to the end and the property's cell points to it.
WriteDynamic(object, offset, data) ==
  [size  |-> object.size,
   cells |-> WriteStatic(object, offset, Len(object.cells)).cells \o <<Len(data)>> \o data]

\* A shorter value takes the place of the one before.
Overwrite(object, at, data) ==
  [size  |-> object.size,
   cells |-> [n \in DOMAIN object.cells |->
                IF n = at + 1 THEN Len(data)
                ELSE IF n - at - 1 \in DOMAIN data THEN data[n - at - 1]
                ELSE object.cells[n]]]

UpdateDynamic(object, offset, data) ==
  LET at == object.cells[offset + 1]
  IN IF at = 0 THEN WriteDynamic(object, offset, data)
     ELSE IF at >= Len(object.cells) THEN Panic
     ELSE IF object.cells[at + 1] < Len(data) THEN WriteDynamic(object, offset, data)
     ELSE IF at + 1 + Len(data) > Len(object.cells) THEN Panic
     ELSE Overwrite(object, at, data)

\* What the writers do for one property: null is a number for an integer and
\* offset 0 for a string.
Write(object, offset, type, value) ==
  CASE type = "int" -> WriteStatic(object, offset, IF value = Null THEN NullInt ELSE value)
    [] type = "string" -> IF value = Null THEN WriteStatic(object, offset, 0)
                                          ELSE WriteDynamic(object, offset, value)

\* ... and what write_value does in an object that is there.
Rewrite(object, offset, type, value) ==
  IF type = "string" /\ value # Null THEN UpdateDynamic(object, offset, value)
                                     ELSE Write(object, offset, type, value)

-----------------------------------------------------------------------------
(* Reading.  A property beyond the static section the object was written   *)
(* with is null.                                                           *)

ContainsOffset(object, offset) == object.size > offset

ReadInt(object, offset) ==
  IF ContainsOffset(object, offset) /\ object.cells[offset + 1] # NullInt
  THEN object.cells[offset + 1]
  ELSE Null

ReadString(object, offset) ==
  IF ~ContainsOffset(object, offset) \/ object.cells[offset + 1] = 0 THEN Null
  ELSE LET at == object.cells[offset + 1]
       IN IF at + 1 > Len(object.cells) \/ at + 1 + object.cells[at + 1] > Len(object.cells)
          THEN Panic
          ELSE SubSeq(object.cells, at + 2, at + 1 + object.cells[at + 1])

Read(object, offset, type) ==
  IF type = "int" THEN ReadInt(object, offset) ELSE ReadString(object, offset)
=============================================================================
